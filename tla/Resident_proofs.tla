-------------------------- MODULE Resident_proofs ---------------------------
(***************************************************************************)
(* The resident renderer implements a renderer that does each command at   *)
(* once (Refinement), and its arenas and rings keep their limits (Typing). *)
(*                                                                         *)
(* A state of the backend stands for the frame buffer and the memory there *)
(* will be when all that is recorded has run and landed (Present,          *)
(* TotalMemory): a submission, an emission, a synchronisation, a version   *)
(* staged or an epoch ended changes neither, a triangle or a copy changes  *)
(* them as Renderer does. What makes this hold (Good) is that a packet     *)
(* that waits points below the top of its arena, that every current entry  *)
(* uploaded holds its bytes there and shares them with no other, and that  *)
(* the areas of a draw have entries of their own, with memory's bytes,     *)
(* from its validation to its last triangle (AllHold).                     *)
(*                                                                         *)
(* Calls are folds: over the recorded commands, the triangles, the copies, *)
(* the texture units. A fold is first shown to go along a trace of its     *)
(* steps (FoldExists, FoldTrace); what each step keeps is then kept.       *)
(***************************************************************************)
EXTENDS Resident, WellFoundedInduction, FiniteSetTheorems, SequenceTheorems, TLAPS

-----------------------------------------------------------------------------
(* Induction, with sets in the place of predicates. *)

\* A set of natural numbers has a least element.
LEMMA LeastOf ==
    ASSUME NEW T \in SUBSET Nat, T # {}
    PROVE  \E m \in T : \A k \in T : m <= k
<1> DEFINE R == OpToRel(<, Nat)
<1>1. IsWellFoundedOn(R, Nat)
  BY NatLessThanWellFounded
<1>2. \A x, y \in Nat : y < x => <<y, x>> \in R
  BY DEF OpToRel
<1> HIDE DEF R
<1>3. PICK x \in T : \A y \in T : ~ (<<y, x>> \in R)
  BY <1>1, WFMin
<1>4. ASSUME NEW k \in T PROVE x <= k
  <2>1. k \in Nat /\ x \in Nat /\ ~(k < x)
    BY <1>2, <1>3
  <2> QED BY <2>1
<1> QED BY <1>4

\* One that holds 0 and, up to n, the successors of its members holds 0 to n.
LEMMA UpTo ==
    ASSUME NEW n \in Nat, NEW T, 0 \in T, \A i \in 1..n : i - 1 \in T => i \in T
    PROVE  \A i \in 0..n : i \in T
<1> SUFFICES ASSUME (0..n) \ T # {} PROVE FALSE
  OBVIOUS
<1>0. (0..n) \ T \in SUBSET Nat
  OBVIOUS
<1>1. PICK m \in (0..n) \ T : \A k \in (0..n) \ T : m <= k
  BY <1>0, LeastOf
<1>2. m # 0 /\ m \in 1..n /\ m - 1 \in 0..n /\ ~(m <= m - 1)
  OBVIOUS
<1>3. m - 1 \in T
  BY <1>1, <1>2
<1> QED BY <1>1, <1>2, <1>3

\* The greatest of some of the first n numbers.
LEMMA Greatest ==
    ASSUME NEW n \in Nat, NEW s \in SUBSET (1..n), s # {}
    PROVE  Max(s) \in s /\ \A y \in s : Max(s) >= y
<1> DEFINE T == {n - y : y \in s}
<1>1. T \in SUBSET Nat /\ T # {}
  OBVIOUS
<1>2. PICK m \in T : \A k \in T : m <= k
  BY <1>1, LeastOf
<1>3. PICK x \in s : m = n - x
  OBVIOUS
<1>4. ASSUME NEW y \in s PROVE x >= y
  <2>1. n - y \in T /\ x \in Nat /\ y \in Nat
    OBVIOUS
  <2>2. n - x <= n - y
    BY <1>2, <1>3, <2>1
  <2> QED BY <2>1, <2>2
<1> QED BY <1>4 DEF Max

\* Of all of them it is n, and the others are the first n - 1.
LEMMA GreatestAll ==
    ASSUME NEW n \in Nat \ {0}
    PROVE  1..n # {} /\ Max(1..n) = n /\ (1..n) \ {n} = 1..(n - 1)
<1>1. n \in 1..n /\ 1..n \in SUBSET (1..n) /\ n \in Nat
  OBVIOUS
<1>2. Max(1..n) \in 1..n /\ Max(1..n) >= n
  BY <1>1, Greatest
<1>3. Max(1..n) = n
  BY <1>2
<1> QED BY <1>1, <1>3

-----------------------------------------------------------------------------
(* Folds. FoldLeft is a recursion over sets of places; a fold of n steps is the last    *)
(* state of a trace of n steps.                                                         *)

\* The i-th step of a fold of n is f[i], on values in X.
Steps(n, X) == [1..n -> [X -> X]]

\* The fold of every set of places; whatever obeys its equation as long as it is in X.
Solves(it, n, X, base, f) ==
    /\ it \in [SUBSET (1..n) -> X]
    /\ \A s \in SUBSET (1..n) :
           it[s] = IF s = {} THEN base ELSE f[Max(s)][it[s \ {Max(s)}]]
Follows(it, n, X, base, f) ==
    /\ it[{}] = base
    /\ \A s \in SUBSET (1..n) :
           s # {} /\ it[s \ {Max(s)}] \in X => it[s] = f[Max(s)][it[s \ {Max(s)}]]

\* The values after 0 to n steps.
Trace(h, n, X, base, f) ==
    /\ h \in [0..n -> X] /\ h[0] = base
    /\ \A i \in 1..n : h[i] = f[i][h[i - 1]]

\* The equation of a fold has a solution.
LEMMA FoldExists ==
    ASSUME NEW n \in Nat, NEW X, NEW base \in X, NEW f \in Steps(n, X)
    PROVE  \E it : Solves(it, n, X, base, f)
<1> USE DEF Steps
<1> DEFINE Part(it, m) ==
               /\ it = [s \in SUBSET (1..m) |->
                            IF s = {} THEN base ELSE f[Max(s)][it[s \ {Max(s)}]]]
               /\ \A s \in SUBSET (1..m) : it[s] \in X
           T == {m \in Nat : \E it : Part(it, m)}
<1>1. 0 \in T
  <2> DEFINE it == [s \in SUBSET (1..0) |-> base]
  <2>1. \A s \in SUBSET (1..0) : s = {}
    OBVIOUS
  <2>2. it = [s \in SUBSET (1..0) |-> IF s = {} THEN base ELSE f[Max(s)][it[s \ {Max(s)}]]]
    BY <2>1
  <2>3. \A s \in SUBSET (1..0) : it[s] \in X
    OBVIOUS
  <2> HIDE DEF it
  <2>4. Part(it, 0)
    BY <2>2, <2>3
  <2> QED BY <2>4
<1>2. ASSUME NEW i \in 1..n, i - 1 \in T PROVE i \in T
  <2>1. PICK e : Part(e, i - 1)
    BY <1>2
  <2> DEFINE g == [s \in SUBSET (1..i) |-> IF i \in s THEN f[i][e[s \ {i}]] ELSE e[s]]
  <2>2. ASSUME NEW s \in SUBSET (1..i)
        PROVE  g[s] = (IF s = {} THEN base ELSE f[Max(s)][g[s \ {Max(s)}]]) /\ g[s] \in X
    <3>1. CASE i \in s
      <4>1. Max(s) \in s /\ \A y \in s : Max(s) >= y
        <5>1. i \in Nat /\ s # {}
          BY <3>1
        <5> QED BY <5>1, Greatest
      <4>2. Max(s) = i /\ s # {}
        <5>1. Max(s) \in 1..i
          BY <4>1
        <5>2. Max(s) >= i
          BY <3>1, <4>1
        <5> QED BY <3>1, <5>1, <5>2
      <4>3. s \ {i} \in SUBSET (1..(i - 1)) /\ s \ {i} \in SUBSET (1..i) /\ i \notin s \ {i}
        OBVIOUS
      <4>4. g[s] = f[i][e[s \ {i}]] /\ g[s \ {i}] = e[s \ {i}] /\ e[s \ {i}] \in X
        BY <3>1, <4>3, <2>1
      <4> QED BY <4>2, <4>4
    <3>2. CASE i \notin s
      <4>1. s \in SUBSET (1..(i - 1))
        BY <3>2
      <4>2. g[s] = e[s]
        BY <3>2
      <4>3. CASE s = {}
        BY <4>1, <4>2, <4>3, <2>1
      <4>4. CASE s # {}
        <5>1. s \ {Max(s)} \in SUBSET (1..i) /\ i \notin s \ {Max(s)}
          BY <3>2
        <5>2. g[s \ {Max(s)}] = e[s \ {Max(s)}]
          BY <5>1
        <5>3. e[s] = f[Max(s)][e[s \ {Max(s)}]] /\ e[s] \in X
          BY <4>1, <4>4, <2>1
        <5> QED BY <4>2, <4>4, <5>2, <5>3
      <4> QED BY <4>3, <4>4
    <3> QED BY <3>1, <3>2
  <2>3. g = [s \in SUBSET (1..i) |-> g[s]]
    OBVIOUS
  <2> HIDE DEF g
  <2>4. Part(g, i)
    <3>1. g = [s \in SUBSET (1..i) |-> IF s = {} THEN base ELSE f[Max(s)][g[s \ {Max(s)}]]]
      BY <2>2, <2>3
    <3> QED BY <2>2, <3>1
  <2>5. i \in Nat
    OBVIOUS
  <2> QED BY <2>4, <2>5
<1> HIDE DEF T
<1>3. n \in T
  <2>1. \A i \in 0..n : i \in T
    BY <1>1, <1>2, UpTo
  <2> QED BY <2>1
<1>4. PICK it : Part(it, n)
  BY <1>3 DEF T
<1>5. Solves(it, n, X, base, f)
  BY <1>4 DEF Solves
<1> QED BY <1>5

\* Whatever obeys it goes along a trace.
LEMMA FoldTrace ==
    ASSUME NEW n \in Nat, NEW X, NEW base \in X, NEW f \in Steps(n, X),
           NEW it, Follows(it, n, X, base, f)
    PROVE  \E h : Trace(h, n, X, base, f) /\ h[n] = it[1..n]
<1> USE DEF Steps, Follows
<1> DEFINE h == [i \in 0..n |-> it[1..i]]
           T == {i \in 0..n : it[1..i] \in X}
<1>1. 1..0 = {}
  OBVIOUS
<1>2. 0 \in T
  BY <1>1
<1>3. ASSUME NEW i \in 1..n, it[1..(i - 1)] \in X PROVE it[1..i] = f[i][it[1..(i - 1)]]
  <2>1. 1..i # {} /\ Max(1..i) = i /\ (1..i) \ {i} = 1..(i - 1) /\ 1..i \in SUBSET (1..n)
    <3>1. i \in Nat \ {0} /\ 1..i \in SUBSET (1..n)
      OBVIOUS
    <3> HIDE DEF Steps, Follows
    <3> QED BY <3>1, GreatestAll
  <2> QED BY <2>1, <1>3
<1>4. ASSUME NEW i \in 1..n, i - 1 \in T PROVE i \in T
  <2>1. it[1..(i - 1)] \in X
    BY <1>4
  <2>2. it[1..i] = f[i][it[1..(i - 1)]]
    BY <1>3, <2>1
  <2> QED BY <2>1, <2>2
<1>5. \A i \in 0..n : it[1..i] \in X
  <2> HIDE DEF T
  <2>1. \A i \in 0..n : i \in T
    BY <1>2, <1>4, UpTo
  <2> QED BY <2>1 DEF T
<1>6. h \in [0..n -> X] /\ h[0] = base /\ h[n] = it[1..n]
  BY <1>1, <1>5
<1>7. ASSUME NEW i \in 1..n PROVE h[i] = f[i][h[i - 1]]
  <2>1. i - 1 \in 0..n /\ i \in 0..n
    OBVIOUS
  <2> QED BY <1>3, <1>5, <2>1
<1>8. Trace(h, n, X, base, f)
  BY <1>6, <1>7 DEF Trace
<1> QED BY <1>6, <1>8

-----------------------------------------------------------------------------
(* Sequences of bytes. *)

\* Flattened are the elements of all sequences, and no others.
LEMMA Flatten ==
    ASSUME NEW S, NEW seqs \in Seq(Seq(S))
    PROVE  /\ FlattenSeq(seqs) \in Seq(S)
           /\ ToSet(FlattenSeq(seqs)) = UNION {ToSet(seqs[i]) : i \in DOMAIN seqs}
<1> DEFINE n == Len(seqs)
           Defines(e, m) == e = [i \in 1..m |-> IF i = 1 THEN seqs[i] ELSE e[i - 1] \o seqs[i]]
           All(m) == UNION {ToSet(seqs[i]) : i \in 1..m}
           Right(e, m) == \A i \in 1..m : e[i] \in Seq(S) /\ ToSet(e[i]) = All(i)
           T == {m \in Nat : \E e : Defines(e, m)}
<1>0. n \in Nat /\ DOMAIN seqs = 1..n /\ \A i \in 1..n : seqs[i] \in Seq(S)
  OBVIOUS
<1> HIDE DEF n
<1>1. CASE n = 0
  <2>1. seqs = <<>>
    BY <1>1 DEF n
  <2>2. FlattenSeq(seqs) = <<>>
    BY <1>1, <2>1 DEF n, FlattenSeq
  <2>3. ToSet(<<>>) = {} /\ UNION {ToSet(seqs[i]) : i \in DOMAIN seqs} = {}
    BY <2>1 DEF ToSet
  <2> QED BY <2>2, <2>3
<1>2. CASE n # 0
  <2>1. \A m \in 0..n : m \in T
    <3>1. 0 \in T
      <4> DEFINE e == [i \in 1..0 |-> <<>>]
      <4>1. Defines(e, 0)
        OBVIOUS
      <4> QED BY <4>1
    <3>2. ASSUME NEW m \in 1..n, m - 1 \in T PROVE m \in T
      <4>1. PICK e : Defines(e, m - 1)
        BY <3>2
      <4> DEFINE g == [i \in 1..m |-> IF i # m THEN e[i] ELSE IF m = 1 THEN seqs[1]
                                      ELSE e[m - 1] \o seqs[m]]
      <4>2. ASSUME NEW i \in 1..m
            PROVE  g[i] = IF i = 1 THEN seqs[i] ELSE g[i - 1] \o seqs[i]
        <5>1. CASE i = m /\ m # 1
          <6>1. i - 1 \in 1..m /\ i - 1 # m /\ i \in 1..m
            BY <5>1
          <6> QED BY <5>1, <6>1
        <5>2. CASE i = m /\ m = 1
          BY <5>2
        <5>3. CASE i # m /\ i = 1
          <6>1. i \in 1..(m - 1)
            BY <5>3
          <6> QED BY <4>1, <5>3, <6>1
        <5>4. CASE i # m /\ i # 1
          <6>1. i \in 1..(m - 1) /\ i - 1 \in 1..m /\ i - 1 # m
            BY <5>4
          <6> QED BY <4>1, <5>4, <6>1
        <5> QED BY <5>1, <5>2, <5>3, <5>4
      <4>3. g = [i \in 1..m |-> g[i]]
        OBVIOUS
      <4> HIDE DEF g
      <4>4. Defines(g, m)
        BY <4>2, <4>3
      <4>5. m \in Nat
        OBVIOUS
      <4> QED BY <4>4, <4>5
    <3> HIDE DEF T
    <3> QED BY <1>0, <3>1, <3>2, UpTo
  <2>2. \E e : Defines(e, n)
    <3>1. n \in 0..n
      BY <1>0
    <3>2. n \in T
      BY <2>1, <3>1, Zenon
    <3> QED BY <3>2, Zenon
  <2>3. PICK e : Defines(e, n) /\ FlattenSeq(seqs) = e[n]
    <3> DEFINE c == CHOOSE e : Defines(e, n)
    <3>1. FlattenSeq(seqs) = c[n]
      BY <1>2, SMTT(30) DEF FlattenSeq, n
    <3>2. Defines(c, n)
      BY <2>2, Zenon
    <3> QED BY <3>1, <3>2, Zenon
  <2> DEFINE U == {m \in 0..n : m = 0 \/ (e[m] \in Seq(S) /\ ToSet(e[m]) = All(m))}
  <2>4. 0 \in U
    BY <1>0
  <2>5. ASSUME NEW m \in 1..n, m - 1 \in U PROVE m \in U
    <3>1. e[m] = IF m = 1 THEN seqs[m] ELSE e[m - 1] \o seqs[m]
      BY <2>3
    <3>2. seqs[m] \in Seq(S)
      BY <1>0
    <3>3. CASE m = 1
      <4>1. 1..m = {1}
        BY <3>3
      <4>2. All(m) = ToSet(seqs[1])
        BY <4>1
      <4> QED BY <3>1, <3>2, <3>3, <4>2
    <3>4. CASE m # 1
      <4>1. m - 1 # 0 /\ e[m - 1] \in Seq(S) /\ ToSet(e[m - 1]) = All(m - 1)
        BY <2>5, <3>4
      <4>2. 1..m = (1..(m - 1)) \cup {m}
        OBVIOUS
      <4>3. All(m) = All(m - 1) \cup ToSet(seqs[m])
        BY <4>2
      <4>4. e[m] \in Seq(S) /\ ToSet(e[m]) = ToSet(e[m - 1]) \cup ToSet(seqs[m])
        <5>1. \A s, t \in Seq(S) : s \o t \in Seq(S) /\ ToSet(s \o t) = ToSet(s) \cup ToSet(t)
          <6> SUFFICES ASSUME NEW s \in Seq(S), NEW t \in Seq(S)
                       PROVE  s \o t \in Seq(S) /\ ToSet(s \o t) = ToSet(s) \cup ToSet(t)
            OBVIOUS
          <6>1. Range(s \o t) = Range(s) \cup Range(t) /\ s \o t \in Seq(S)
            BY RangeConcatenation
          <6>2. \A r \in Seq(S) : Range(r) = ToSet(r)
            BY DEF Range, ToSet
          <6> QED BY <6>1, <6>2
        <5> QED BY <3>1, <3>2, <3>4, <4>1, <5>1
      <4> QED BY <4>1, <4>3, <4>4
    <3> QED BY <3>3, <3>4
  <2>6. \A m \in 0..n : m \in U
    <3> HIDE DEF U
    <3> QED BY <1>0, <2>4, <2>5, UpTo
  <2>7. e[n] \in Seq(S) /\ ToSet(e[n]) = All(n)
    <3>1. n \in U
      BY <2>6, <1>0
    <3> QED BY <3>1, <1>2
  <2> QED BY <2>3, <2>7, <1>0
<1> QED BY <1>1, <1>2

\* A triangle leaves a picture.
LEMMA PaintedType ==
    ASSUME NEW p \in Picture, NEW bytes \in Seq(Picture)
    PROVE  Painted(p, bytes) \in Picture
<1> DEFINE n == Len(bytes)
           base == (2 * p + 1) % Pictures
           f == [i \in 1..n |-> [q \in Picture |-> (2 * q + bytes[i]) % Pictures]]
           Folds(it) == it = [s \in SUBSET DOMAIN bytes |->
                                  IF s = {} THEN base
                                  ELSE (2 * it[s \ {Max(s)}] + bytes[Max(s)]) % Pictures]
<1>1. n \in Nat /\ DOMAIN bytes = 1..n /\ \A i \in 1..n : bytes[i] \in Picture
  OBVIOUS
<1>2. Pictures \in Nat /\ Pictures > 0 /\ \A x \in Nat : x % Pictures \in Picture
  BY PicturesAssumption DEF Picture
<1>3. Picture \subseteq Nat
  BY <1>2 DEF Picture
<1>4. base \in Picture
  <2>1. 2 * p + 1 \in Nat
    BY <1>3
  <2> QED BY <1>2, <2>1
<1>5. \A q \in Picture, i \in 1..n : (2 * q + bytes[i]) % Pictures \in Picture
  <2> SUFFICES ASSUME NEW q \in Picture, NEW i \in 1..n
               PROVE  (2 * q + bytes[i]) % Pictures \in Picture
    OBVIOUS
  <2>1. q \in Nat /\ bytes[i] \in Nat
    BY <1>1, <1>3
  <2>2. 2 * q + bytes[i] \in Nat
    BY <2>1
  <2> QED BY <1>2, <2>2
<1>6. f \in Steps(n, Picture)
  BY <1>5 DEF Steps
<1>7. Painted(p, bytes) = (CHOOSE it : Folds(it))[DOMAIN bytes]
  BY DEF Painted, FoldLeft, MapThenFoldSet
<1> HIDE DEF base, n
<1>8. PICK it : Solves(it, n, Picture, base, f)
  <2> HIDE DEF f
  <2> QED BY <1>1, <1>4, <1>6, FoldExists
<1>9. \A s \in SUBSET (1..n) : s # {} => Max(s) \in 1..n /\ s \ {Max(s)} \in SUBSET (1..n)
  BY <1>1, Greatest
<1>10. \E e : Folds(e)
  <2>1. ASSUME NEW s \in SUBSET (1..n)
        PROVE  it[s] = IF s = {} THEN base
                       ELSE (2 * it[s \ {Max(s)}] + bytes[Max(s)]) % Pictures
    <3>1. CASE s = {}
      BY <1>8, <3>1 DEF Solves
    <3>2. CASE s # {}
      <4>1. it[s] = f[Max(s)][it[s \ {Max(s)}]] /\ it[s \ {Max(s)}] \in Picture
        BY <1>8, <1>9, <3>2 DEF Solves
      <4> QED BY <1>9, <3>2, <4>1
    <3> QED BY <3>1, <3>2
  <2>2. it = [s \in SUBSET (1..n) |-> it[s]]
    BY <1>8 DEF Solves
  <2>3. Folds(it)
    BY <1>1, <2>1, <2>2
  <2> QED BY <2>3
<1> DEFINE c == CHOOSE e : Folds(e)
<1>11. Folds(c)
  BY <1>10
<1> HIDE DEF c
<1>12. c[{}] = base
  BY <1>1, <1>11
<1>13. ASSUME NEW s \in SUBSET (1..n), s # {}, c[s \ {Max(s)}] \in Picture
       PROVE  c[s] = f[Max(s)][c[s \ {Max(s)}]]
  <2>1. c[s] = (2 * c[s \ {Max(s)}] + bytes[Max(s)]) % Pictures
    BY <1>1, <1>11, <1>13
  <2>2. Max(s) \in 1..n
    BY <1>9, <1>13
  <2> QED BY <2>1, <2>2, <1>13
<1>14. \E h : Trace(h, n, Picture, base, f) /\ h[n] = c[1..n]
  <2>1. Follows(c, n, Picture, base, f)
    BY <1>12, <1>13 DEF Follows
  <2> HIDE DEF f
  <2> QED BY <1>1, <1>4, <1>6, <2>1, FoldTrace
<1>15. c[1..n] \in Picture
  BY <1>1, <1>14 DEF Trace
<1> QED BY <1>1, <1>7, <1>15 DEF c

-----------------------------------------------------------------------------
(* The types of the backend's parts. *)

Area == Cells \cup Palettes

\* A binding is a stretch of an arena.
Stretches == {b \in [kind : Kinds, offset : Nat, length : Nat] :
                  b.offset + b.length <= ArenaSize[b.kind]}

\* The commands that can be recorded, each within the arena or ring it is about.
WholeCommands == [op : {"upload", "clear", "download"}, at : {0}, count : {0}]
XfbCommands   == [op : {"xfb"}, at : 1..XfbRing, count : {0}]
TexCommands   == [op : {"tex"}, at : 1..TexRing, count : {0}]
Dispatches    == {c \in [op : {"dispatch"}, at : 0..DrawArena, count : 0..DrawArena] :
                      c.at + c.count <= DrawArena}
Commands == WholeCommands \cup XfbCommands \cup TexCommands \cup Dispatches

Readbacks == [xfb : [1..XfbRing -> Picture], tex : [1..TexRing -> Picture], plane : Picture]

Entries == [area : Area \cup {NoArea}, bytes : Picture, offset : Nat, capacity : Nat,
            current : BOOLEAN, dirty : BOOLEAN]

Caches   == {c \in [Kinds -> UNION {[1..Slots[k] -> Entries] : k \in Kinds}] :
                 \A k \in Kinds : c[k] \in [1..Slots[k] -> Entries]}
Stagings == {s \in [Kinds -> UNION {[0..(ArenaSize[k] - 1) -> Picture] : k \in Kinds}] :
                 \A k \in Kinds : s[k] \in [0..(ArenaSize[k] - 1) -> Picture]}
Orders   == {o \in [Kinds -> Seq(Nat)] : \A k \in Kinds : o[k] \in Seq(1..Slots[k])}
Tops     == {t \in [Kinds -> Nat] : \A k \in Kinds : t[k] <= ArenaSize[k]}
Packets  == [0..(DrawArena - 1) -> Seq(Stretches)]

Renderers ==
    [cow : BOOLEAN, memory : [Area -> Picture], soft : Picture, efb : Picture,
     valid : BOOLEAN, recording : BOOLEAN, commands : Seq(Commands), jobs : Nat, used : Nat,
     packets : Packets, planes : Picture, cache : Caches, order : Orders, top : Tops,
     staging : Stagings, xfb : Seq(XfbCells), tex : Seq(TexCells), readback : Readbacks,
     ok : BOOLEAN]

-----------------------------------------------------------------------------
(* Triangles: what a dispatch paints. *)

\* A packet samples pictures.
LEMMA SampledType ==
    ASSUME NEW v \in Renderers, NEW packet \in Seq(Stretches)
    PROVE  Sampled(v, packet) \in Seq(Picture)
<1> DEFINE bytes(b) == [k \in 1..b.length |-> v.staging[b.kind][b.offset + k - 1]]
           n == Len(packet)
           seqs == [i \in DOMAIN packet |-> bytes(packet[i])]
<1>1. n \in Nat /\ DOMAIN packet = 1..n /\ \A i \in 1..n : packet[i] \in Stretches
  OBVIOUS
<1>2. v.staging \in Stagings
  BY DEF Renderers
<1>3. ASSUME NEW b \in Stretches PROVE bytes(b) \in Seq(Picture)
  <2>1. /\ b.kind \in Kinds /\ b.offset \in Nat /\ b.length \in Nat
        /\ b.offset + b.length <= ArenaSize[b.kind]
    BY DEF Stretches
  <2>2. v.staging[b.kind] \in [0..(ArenaSize[b.kind] - 1) -> Picture]
    BY <1>2, <2>1 DEF Stagings
  <2>3. ArenaSize[b.kind] \in Nat
    BY <2>1, ResidentAssumption
  <2>4. \A k \in 1..b.length : v.staging[b.kind][b.offset + k - 1] \in Picture
    <3> SUFFICES ASSUME NEW k \in 1..b.length PROVE v.staging[b.kind][b.offset + k - 1] \in Picture
      OBVIOUS
    <3>1. b.offset + k - 1 \in 0..(ArenaSize[b.kind] - 1)
      BY <2>1, <2>3
    <3> QED BY <2>2, <3>1
  <2> QED BY <2>1, <2>4
<1>4. seqs \in Seq(Seq(Picture))
  BY <1>1, <1>3
<1>5. Sampled(v, packet) = FlattenSeq(seqs)
  BY DEF Sampled
<1> HIDE DEF seqs
<1> QED BY <1>4, <1>5, Flatten

\* n triangles over p, from the packets at and on.
Drawn(v, p, at, n) ==
    FoldLeft(LAMBDA q, i : Painted(q, Sampled(v, v.packets[at + i - 1])), p, [i \in 1..n |-> i])
DrawSteps(v, at, n) ==
    [i \in 1..n |-> [q \in Picture |-> Painted(q, Sampled(v, v.packets[at + i - 1]))]]

\* They go along a trace.
LEMMA DrawnTrace ==
    ASSUME NEW v \in Renderers, NEW p \in Picture, NEW at \in Nat, NEW n \in Nat,
           at + n <= DrawArena
    PROVE  /\ \A i \in 1..n : Sampled(v, v.packets[at + i - 1]) \in Seq(Picture)
           /\ \E h : Trace(h, n, Picture, p, DrawSteps(v, at, n)) /\ Drawn(v, p, at, n) = h[n]
<1> DEFINE f == DrawSteps(v, at, n)
           seq == [i \in 1..n |-> i]
           Folds(it) == it = [s \in SUBSET DOMAIN seq |->
                                  IF s = {} THEN p
                                  ELSE Painted(it[s \ {Max(s)}],
                                               Sampled(v, v.packets[at + seq[Max(s)] - 1]))]
<1>1. ASSUME NEW i \in 1..n PROVE Sampled(v, v.packets[at + i - 1]) \in Seq(Picture)
  <2>1. at + i - 1 \in 0..(DrawArena - 1)
    BY ResidentAssumption
  <2>2. v.packets[at + i - 1] \in Seq(Stretches)
    BY <2>1 DEF Renderers, Packets
  <2> QED BY <2>2, SampledType
<1>2. \A q \in Picture, i \in 1..n : Painted(q, Sampled(v, v.packets[at + i - 1])) \in Picture
  BY <1>1, PaintedType
<1>3. f \in Steps(n, Picture)
  BY <1>2 DEF Steps, DrawSteps
<1>4. Drawn(v, p, at, n) = (CHOOSE it : Folds(it))[DOMAIN seq]
  BY DEF Drawn, FoldLeft, MapThenFoldSet
<1>5. DOMAIN seq = 1..n /\ \A i \in 1..n : seq[i] = i
  OBVIOUS
<1>6. PICK it : Solves(it, n, Picture, p, f)
  <2> HIDE DEF f
  <2> QED BY <1>3, FoldExists
<1>7. \A s \in SUBSET (1..n) : s # {} => Max(s) \in 1..n /\ s \ {Max(s)} \in SUBSET (1..n)
  BY Greatest
<1> HIDE DEF seq
<1>8. \E e : Folds(e)
  <2>1. ASSUME NEW s \in SUBSET (1..n)
        PROVE  it[s] = IF s = {} THEN p
                       ELSE Painted(it[s \ {Max(s)}], Sampled(v, v.packets[at + seq[Max(s)] - 1]))
    <3>1. CASE s = {}
      BY <1>6, <3>1 DEF Solves
    <3>2. CASE s # {}
      <4>1. it[s] = f[Max(s)][it[s \ {Max(s)}]] /\ it[s \ {Max(s)}] \in Picture
        BY <1>6, <1>7, <3>2 DEF Solves
      <4> QED BY <1>5, <1>7, <3>2, <4>1 DEF DrawSteps
    <3> QED BY <3>1, <3>2
  <2>2. it = [s \in SUBSET (1..n) |-> it[s]]
    BY <1>6 DEF Solves
  <2>3. Folds(it)
    BY <1>5, <2>1, <2>2
  <2> QED BY <2>3
<1> DEFINE c == CHOOSE e : Folds(e)
<1>9. Folds(c)
  BY <1>8
<1> HIDE DEF c
<1>10. Follows(c, n, Picture, p, f)
  <2>1. c[{}] = p
    BY <1>5, <1>9
  <2>2. ASSUME NEW s \in SUBSET (1..n), s # {}, c[s \ {Max(s)}] \in Picture
        PROVE  c[s] = f[Max(s)][c[s \ {Max(s)}]]
    <3>1. c[s] = Painted(c[s \ {Max(s)}], Sampled(v, v.packets[at + seq[Max(s)] - 1]))
      BY <1>5, <1>9, <2>2
    <3>2. Max(s) \in 1..n
      BY <1>7, <2>2
    <3> QED BY <1>5, <2>2, <3>1, <3>2 DEF DrawSteps
  <2> QED BY <2>1, <2>2 DEF Follows
<1>11. \E h : Trace(h, n, Picture, p, f) /\ h[n] = c[1..n]
  <2> HIDE DEF f
  <2> QED BY <1>3, <1>10, FoldTrace
<1>12. Drawn(v, p, at, n) = c[1..n]
  BY <1>4, <1>5 DEF c
<1> QED BY <1>1, <1>11, <1>12

\* Two traces with the same start and the same first steps.
LEMMA SameTrace ==
    ASSUME NEW n \in Nat, NEW m \in Nat, n <= m, NEW X, NEW p,
           NEW f, NEW g, NEW h, NEW e,
           Trace(h, n, X, p, f), Trace(e, m, X, p, g),
           \A i \in 1..n : f[i] = g[i]
    PROVE  h[n] = e[n]
<1> DEFINE T == {i \in 0..n : h[i] = e[i]}
<1>1. 0 \in T
  BY DEF Trace
<1>2. ASSUME NEW i \in 1..n, i - 1 \in T PROVE i \in T
  <2>1. i \in 1..m
    OBVIOUS
  <2>2. h[i] = f[i][h[i - 1]] /\ e[i] = g[i][e[i - 1]] /\ h[i - 1] = e[i - 1]
    BY <1>2, <2>1 DEF Trace
  <2> QED BY <2>2
<1> HIDE DEF T
<1>3. \A i \in 0..n : i \in T
  BY <1>1, <1>2, UpTo
<1>4. n \in 0..n
  OBVIOUS
<1> QED BY <1>3, <1>4 DEF T

\* No triangle leaves p, the last of n + 1 is painted over the first n.
LEMMA DrawnMore ==
    ASSUME NEW v \in Renderers, NEW p \in Picture, NEW at \in Nat, NEW n \in Nat,
           at + n <= DrawArena
    PROVE  /\ Drawn(v, p, at, n) \in Picture
           /\ Drawn(v, p, at, 0) = p
           /\ at + n + 1 <= DrawArena =>
                  Drawn(v, p, at, n + 1)
                      = Painted(Drawn(v, p, at, n), Sampled(v, v.packets[at + n]))
<1>1. PICK h : Trace(h, n, Picture, p, DrawSteps(v, at, n)) /\ Drawn(v, p, at, n) = h[n]
  BY DrawnTrace
<1>2. h[n] \in Picture
  BY <1>1 DEF Trace
<1>3. Drawn(v, p, at, 0) = p
  <2>1. DrawArena \in Nat /\ at + 0 <= DrawArena
    BY ResidentAssumption
  <2>2. PICK e : Trace(e, 0, Picture, p, DrawSteps(v, at, 0)) /\ Drawn(v, p, at, 0) = e[0]
    BY <2>1, DrawnTrace
  <2> QED BY <2>2 DEF Trace
<1>4. ASSUME at + n + 1 <= DrawArena
      PROVE  Drawn(v, p, at, n + 1) = Painted(Drawn(v, p, at, n), Sampled(v, v.packets[at + n]))
  <2>1. n + 1 \in Nat /\ n <= n + 1 /\ n + 1 \in 1..(n + 1) /\ (n + 1) - 1 = n
        /\ at + (n + 1) <= DrawArena /\ at + (n + 1) - 1 = at + n
    BY <1>4
  <2>2. PICK e : Trace(e, n + 1, Picture, p, DrawSteps(v, at, n + 1))
                 /\ Drawn(v, p, at, n + 1) = e[n + 1]
    BY <2>1, DrawnTrace
  <2>3. \A i \in 1..n : DrawSteps(v, at, n)[i] = DrawSteps(v, at, n + 1)[i]
    BY <2>1 DEF DrawSteps
  <2>4. h[n] = e[n]
    BY <1>1, <2>1, <2>2, <2>3, SameTrace
  <2>5. e[n + 1] = DrawSteps(v, at, n + 1)[n + 1][e[n]] /\ e[n] \in Picture
    BY <1>2, <2>1, <2>2, <2>4 DEF Trace
  <2>6. DrawSteps(v, at, n + 1)[n + 1][e[n]] = Painted(e[n], Sampled(v, v.packets[at + n]))
    BY <2>1, <2>5 DEF DrawSteps
  <2> QED BY <1>1, <2>2, <2>4, <2>5, <2>6
<1> QED BY <1>1, <1>2, <1>3, <1>4

\* Only what the packets sample matters.
LEMMA DrawnSame ==
    ASSUME NEW v \in Renderers, NEW w \in Renderers, NEW p \in Picture,
           NEW at \in Nat, NEW n \in Nat, at + n <= DrawArena,
           \A j \in at..(at + n - 1) : Sampled(v, v.packets[j]) = Sampled(w, w.packets[j])
    PROVE  Drawn(v, p, at, n) = Drawn(w, p, at, n)
<1>1. PICK h : Trace(h, n, Picture, p, DrawSteps(v, at, n)) /\ Drawn(v, p, at, n) = h[n]
  BY DrawnTrace
<1>2. PICK e : Trace(e, n, Picture, p, DrawSteps(w, at, n)) /\ Drawn(w, p, at, n) = e[n]
  BY DrawnTrace
<1>3. \A i \in 1..n : DrawSteps(v, at, n)[i] = DrawSteps(w, at, n)[i]
  <2> SUFFICES ASSUME NEW i \in 1..n PROVE DrawSteps(v, at, n)[i] = DrawSteps(w, at, n)[i]
    OBVIOUS
  <2>1. at + i - 1 \in at..(at + n - 1)
    OBVIOUS
  <2>2. Sampled(v, v.packets[at + i - 1]) = Sampled(w, w.packets[at + i - 1])
    BY <2>1
  <2> QED BY <2>2 DEF DrawSteps
<1>4. n <= n
  OBVIOUS
<1> QED BY <1>1, <1>2, <1>3, <1>4, SameTrace

-----------------------------------------------------------------------------
(* Copies that land in memory. *)

\* A sequence of targets has a last place of a cell, or none.
LEMMA LastPlace ==
    ASSUME NEW t \in Seq(Cells), NEW a,
           ~ \A i \in 1..Len(t) : t[i] # a
    PROVE  \E i \in 1..Len(t) : t[i] = a /\ \A j \in (i + 1)..Len(t) : t[j] # a
<1> DEFINE s == {i \in 1..Len(t) : t[i] = a}
<1>1. s \in SUBSET (1..Len(t)) /\ s # {} /\ Len(t) \in Nat
  OBVIOUS
<1>2. Max(s) \in s /\ \A y \in s : Max(s) >= y
  BY <1>1, Greatest
<1>3. \A j \in (Max(s) + 1)..Len(t) : t[j] # a
  <2> SUFFICES ASSUME NEW j \in (Max(s) + 1)..Len(t), t[j] = a PROVE FALSE
    OBVIOUS
  <2> DEFINE m == Max(s)
  <2>1. m \in 1..Len(t)
    BY <1>2
  <2> HIDE DEF m
  <2>2. j \in 1..Len(t) /\ ~(m >= j)
    BY <2>1 DEF m
  <2>3. j \in s
    BY <2>2
  <2> QED BY <1>2, <2>2, <2>3 DEF m
<1> QED BY <1>2, <1>3

Memories == [Area -> Picture]
Rings(R) == [1..R -> Picture]

\* In x a cell has what was copied there last, of all that t names.
LastCopies(x, m, t, from) ==
    /\ x \in Memories
    /\ \A a \in Area :
          /\ (\A i \in 1..Len(t) : t[i] # a) => x[a] = m[a]
          /\ \A i \in 1..Len(t) :
                (t[i] = a /\ \A j \in (i + 1)..Len(t) : t[j] # a) => x[a] = from[i]

\* So it is when they have landed.
LEMMA LandedAt ==
    ASSUME NEW m \in Memories, NEW t \in Seq(Cells), NEW R \in Nat, Len(t) <= R,
           NEW from \in Rings(R)
    PROVE  LastCopies(Landed(m, t, from), m, t, from)
<1> USE DEF Memories, Rings
<1> DEFINE n == Len(t)
           X == [Area -> Picture]
           f == [i \in 1..n |-> [q \in X |-> [q EXCEPT ![t[i]] = from[i]]]]
           seq == [i \in DOMAIN t |-> i]
           Folds(it) == it = [s \in SUBSET DOMAIN seq |->
                                  IF s = {} THEN m
                                  ELSE [it[s \ {Max(s)}]
                                            EXCEPT ![t[seq[Max(s)]]] = from[seq[Max(s)]]]]
<1>1. n \in Nat /\ DOMAIN t = 1..n /\ \A i \in 1..n : t[i] \in Area /\ from[i] \in Picture
  <2>1. \A i \in 1..n : i \in 1..R /\ t[i] \in Cells
    OBVIOUS
  <2> QED BY <2>1 DEF Area
<1>2. DOMAIN seq = 1..n /\ \A i \in 1..n : seq[i] = i
  BY <1>1
<1>3. Landed(m, t, from) = (CHOOSE it : Folds(it))[DOMAIN seq]
  BY DEF Landed, FoldLeft, MapThenFoldSet
<1> HIDE DEF n
<1>4. f \in Steps(n, X)
  BY <1>1 DEF Steps
<1>5. PICK it : Solves(it, n, X, m, f)
  <2> HIDE DEF f, X
  <2>1. m \in X
    BY DEF X
  <2> QED BY <1>1, <1>4, <2>1, FoldExists
<1>6. \A s \in SUBSET (1..n) : s # {} => Max(s) \in 1..n /\ s \ {Max(s)} \in SUBSET (1..n)
  BY <1>1, Greatest
<1> HIDE DEF seq
<1>7. \E e : Folds(e)
  <2>1. ASSUME NEW s \in SUBSET (1..n)
        PROVE  it[s] = IF s = {} THEN m
                       ELSE [it[s \ {Max(s)}] EXCEPT ![t[seq[Max(s)]]] = from[seq[Max(s)]]]
    <3>1. CASE s = {}
      BY <1>5, <3>1 DEF Solves
    <3>2. CASE s # {}
      <4>1. it[s] = f[Max(s)][it[s \ {Max(s)}]] /\ it[s \ {Max(s)}] \in X
        BY <1>5, <1>6, <3>2 DEF Solves
      <4>2. Max(s) \in 1..n
        BY <1>6, <3>2
      <4> QED BY <1>2, <3>2, <4>1, <4>2
    <3> QED BY <3>1, <3>2
  <2>2. it = [s \in SUBSET (1..n) |-> it[s]]
    BY <1>5 DEF Solves
  <2>3. Folds(it)
    BY <1>2, <2>1, <2>2
  <2> QED BY <2>3
<1> DEFINE c == CHOOSE e : Folds(e)
<1>8. Folds(c)
  BY <1>7
<1> HIDE DEF c
<1>9. Follows(c, n, X, m, f)
  <2>1. c[{}] = m
    BY <1>2, <1>8
  <2>2. ASSUME NEW s \in SUBSET (1..n), s # {}, c[s \ {Max(s)}] \in X
        PROVE  c[s] = f[Max(s)][c[s \ {Max(s)}]]
    <3>1. c[s] = [c[s \ {Max(s)}] EXCEPT ![t[seq[Max(s)]]] = from[seq[Max(s)]]]
      BY <1>2, <1>8, <2>2
    <3>2. Max(s) \in 1..n
      BY <1>6, <2>2
    <3> QED BY <1>2, <2>2, <3>1, <3>2
  <2> HIDE DEF f, X
  <2> QED BY <2>1, <2>2 DEF Follows
<1>10. PICK h : Trace(h, n, X, m, f) /\ h[n] = c[1..n]
  <2> HIDE DEF f, X
  <2>1. m \in X
    BY DEF X
  <2> QED BY <1>1, <1>4, <1>9, <2>1, FoldTrace
<1>11. Landed(m, t, from) = h[n]
  BY <1>2, <1>3, <1>10 DEF c
<1>12. ASSUME NEW i \in 1..n
       PROVE  h[i - 1] \in X /\ h[i] = [h[i - 1] EXCEPT ![t[i]] = from[i]]
  <2>1. i - 1 \in 0..n
    BY <1>1
  <2> HIDE DEF X
  <2>2. h[i - 1] \in X /\ h[i] = f[i][h[i - 1]]
    BY <1>10, <2>1 DEF Trace
  <2> QED BY <2>2
<1>13. h[n] \in X
  <2> HIDE DEF X, f
  <2>1. n \in 0..n
    BY <1>1
  <2> QED BY <1>10, <2>1 DEF Trace
<1>14. ASSUME NEW a \in Area
       PROVE  /\ (\A i \in 1..n : t[i] # a) => h[n][a] = m[a]
              /\ \A i \in 1..n : (t[i] = a /\ \A j \in (i + 1)..n : t[j] # a)
                                 => h[n][a] = from[i]
  <2> DEFINE T == {i \in 0..n : \/ h[i][a] = m[a] /\ \A j \in 1..i : t[j] # a
                                \/ \E k \in 1..i : /\ t[k] = a /\ h[i][a] = from[k]
                                                   /\ \A j \in (k + 1)..i : t[j] # a}
  <2>1. 0 \in T
    <3>1. h[0] = m /\ 0 \in 0..n
      BY <1>1, <1>10 DEF Trace
    <3> QED BY <3>1
  <2>2. ASSUME NEW i \in 1..n, i - 1 \in T PROVE i \in T
    <3>1. h[i - 1] \in X /\ h[i] = [h[i - 1] EXCEPT ![t[i]] = from[i]]
      BY <1>12
    <3>2. i \in Nat /\ i \in 0..n /\ i \in 1..i /\ (i + 1)..i = {}
      BY <1>1
    <3>3. CASE t[i] = a
      <4>1. h[i][a] = from[i]
        BY <3>1, <3>3
      <4> QED BY <3>2, <3>3, <4>1
    <3>4. CASE t[i] # a
      <4>1. h[i][a] = h[i - 1][a]
        BY <3>1, <3>4
      <4>2. CASE h[i - 1][a] = m[a] /\ \A j \in 1..(i - 1) : t[j] # a
        <5>1. \A j \in 1..i : j \in 1..(i - 1) \/ j = i
          BY <3>2
        <5> QED BY <3>2, <3>4, <4>1, <4>2, <5>1
      <4>3. CASE \E k \in 1..(i - 1) : /\ t[k] = a /\ h[i - 1][a] = from[k]
                                       /\ \A j \in (k + 1)..(i - 1) : t[j] # a
        <5>1. PICK k \in 1..(i - 1) : /\ t[k] = a /\ h[i - 1][a] = from[k]
                                      /\ \A j \in (k + 1)..(i - 1) : t[j] # a
          BY <4>3
        <5>2. k \in 1..i /\ \A j \in (k + 1)..i : j \in (k + 1)..(i - 1) \/ j = i
          BY <3>2
        <5> QED BY <3>2, <3>4, <4>1, <5>1, <5>2
      <4> QED BY <2>2, <4>2, <4>3
    <3> QED BY <3>3, <3>4
  <2>3. n \in T
    <3> HIDE DEF T
    <3>1. \A i \in 0..n : i \in T
      BY <1>1, <2>1, <2>2, UpTo
    <3>2. n \in 0..n
      BY <1>1
    <3> QED BY <3>1, <3>2
  <2>4. CASE h[n][a] = m[a] /\ \A j \in 1..n : t[j] # a
    BY <2>4
  <2>5. CASE \E k \in 1..n : /\ t[k] = a /\ h[n][a] = from[k]
                             /\ \A j \in (k + 1)..n : t[j] # a
    <3>1. PICK k \in 1..n : /\ t[k] = a /\ h[n][a] = from[k]
                            /\ \A j \in (k + 1)..n : t[j] # a
      BY <2>5
    <3>2. ASSUME NEW i \in 1..n, t[i] = a, \A j \in (i + 1)..n : t[j] # a PROVE i = k
      <4>1. ~(k \in (i + 1)..n) /\ ~(i \in (k + 1)..n)
        BY <3>1, <3>2
      <4> QED BY <1>1, <4>1
    <3> QED BY <3>1, <3>2
  <2> QED BY <2>3, <2>4, <2>5
<1> QED BY <1>11, <1>13, <1>14 DEF n, LastCopies

\* What lands after the others.
LEMMA LandedMore ==
    ASSUME NEW m \in Memories, NEW t \in Seq(Cells), NEW R \in Nat, Len(t) + 1 <= R,
           NEW from \in Rings(R), NEW c \in Cells, NEW p \in Picture
    PROVE  Landed(m, Append(t, c), [from EXCEPT ![Len(t) + 1] = p])
               = [Landed(m, t, from) EXCEPT ![c] = p]
<1> DEFINE n == Len(t)
           s == Append(t, c)
           to == [from EXCEPT ![n + 1] = p]
           x == Landed(m, t, from)
           y == Landed(m, s, to)
<1>1. /\ n \in Nat /\ n + 1 \in 1..R /\ n <= R /\ s \in Seq(Cells) /\ Len(s) = n + 1
      /\ s[n + 1] = c /\ \A i \in 1..n : s[i] = t[i]
  OBVIOUS
<1>2. to \in Rings(R) /\ to[n + 1] = p /\ \A i \in 1..n : to[i] = from[i]
  BY <1>1 DEF Rings
<1> HIDE DEF s, to, n
<1>3. LastCopies(x, m, t, from)
  BY <1>1, LandedAt DEF n
<1>4. LastCopies(y, m, s, to)
  BY <1>1, <1>2, LandedAt
<1> HIDE DEF x, y
<1>5. c \in Area
  BY DEF Area
<1>6. ASSUME NEW a \in Area PROVE y[a] = IF a = c THEN p ELSE x[a]
  <2>1. CASE a = c
    <3>1. n + 1 \in 1..(n + 1) /\ ((n + 1) + 1)..(n + 1) = {}
      BY <1>1
    <3> QED BY <1>1, <1>2, <1>4, <1>5, <2>1, <3>1 DEF LastCopies
  <2>2. CASE a # c /\ \A i \in 1..n : t[i] # a
    <3>1. \A i \in 1..(n + 1) : i \in 1..n \/ i = n + 1
      BY <1>1
    <3>2. \A i \in 1..(n + 1) : s[i] # a
      BY <1>1, <2>2, <3>1
    <3> QED BY <1>1, <1>3, <1>4, <2>2, <3>2 DEF LastCopies, n
  <2>3. CASE a # c /\ ~ \A i \in 1..n : t[i] # a
    <3>1. PICK i \in 1..n : t[i] = a /\ \A j \in (i + 1)..n : t[j] # a
      BY <2>3, LastPlace DEF n
    <3>2. /\ i \in 1..(n + 1)
          /\ \A j \in (i + 1)..(n + 1) : (j \in (i + 1)..n /\ j \in 1..n) \/ j = n + 1
      BY <1>1
    <3>3. s[i] = a /\ \A j \in (i + 1)..(n + 1) : s[j] # a
      BY <1>1, <2>3, <3>1, <3>2
    <3>4. x[a] = from[i]
      BY <1>3, <3>1 DEF LastCopies, n
    <3>5. y[a] = to[i]
      BY <1>1, <1>4, <3>2, <3>3 DEF LastCopies
    <3> QED BY <1>2, <2>3, <3>4, <3>5
  <2> QED BY <2>1, <2>2, <2>3
<1>7. y = [x EXCEPT ![c] = p]
  BY <1>3, <1>4, <1>5, <1>6 DEF LastCopies, Memories
<1> QED BY <1>7 DEF x, y, s, to, n

\* Other places keep what they had; a write to one of them commutes with the landing;
\* only the part of the ring in use matters.
LEMMA LandedElse ==
    ASSUME NEW m \in Memories, NEW t \in Seq(Cells), NEW R \in Nat, Len(t) <= R,
           NEW from \in Rings(R), NEW a \in Area, a \notin ToSet(t), NEW b \in Picture
    PROVE  /\ Landed(m, t, from)[a] = m[a]
           /\ Landed([m EXCEPT ![a] = b], t, from) = [Landed(m, t, from) EXCEPT ![a] = b]
<1> DEFINE x == Landed(m, t, from)
           w == [m EXCEPT ![a] = b]
           y == Landed(w, t, from)
<1>1. Len(t) \in Nat /\ \A i \in 1..Len(t) : t[i] # a
  BY DEF ToSet
<1>2. w \in Memories /\ w[a] = b /\ \A c \in Area : c # a => w[c] = m[c]
  BY DEF Memories
<1> HIDE DEF w
<1>3. LastCopies(x, m, t, from)
  BY LandedAt
<1>4. LastCopies(y, w, t, from)
  BY <1>2, LandedAt
<1> HIDE DEF x, y
<1>5. ASSUME NEW c \in Area PROVE y[c] = IF c = a THEN b ELSE x[c]
  <2>1. CASE c = a
    BY <1>1, <1>2, <1>4, <2>1 DEF LastCopies
  <2>2. CASE c # a /\ \A i \in 1..Len(t) : t[i] # c
    BY <1>2, <1>3, <1>4, <2>2 DEF LastCopies
  <2>3. CASE c # a /\ ~ \A i \in 1..Len(t) : t[i] # c
    <3>1. PICK i \in 1..Len(t) : t[i] = c /\ \A j \in (i + 1)..Len(t) : t[j] # c
      BY <2>3, LastPlace
    <3>2. x[c] = from[i]
      BY <1>3, <3>1 DEF LastCopies
    <3>3. y[c] = from[i]
      BY <1>4, <3>1 DEF LastCopies
    <3> QED BY <2>3, <3>2, <3>3
  <2> QED BY <2>1, <2>2, <2>3
<1>6. y = [x EXCEPT ![a] = b]
  BY <1>3, <1>4, <1>5 DEF LastCopies, Memories
<1>7. x[a] = m[a]
  BY <1>1, <1>3 DEF LastCopies
<1> QED BY <1>6, <1>7 DEF x, y, w

\* Nothing to land.
LEMMA LandedNone ==
    ASSUME NEW m \in Memories, NEW R \in Nat, NEW from \in Rings(R)
    PROVE  Landed(m, <<>>, from) = m
<1>1. <<>> \in Seq(Cells) /\ Len(<<>>) = 0 /\ Len(<<>>) <= R /\ \A i \in 1..Len(<<>>) : FALSE
  OBVIOUS
<1>2. LastCopies(Landed(m, <<>>, from), m, <<>>, from)
  BY <1>1, LandedAt
<1>3. \A a \in Area : Landed(m, <<>>, from)[a] = m[a]
  BY <1>1, <1>2 DEF LastCopies
<1> QED BY <1>2, <1>3 DEF LastCopies, Memories

-----------------------------------------------------------------------------
(* Runs: what the recorded commands leave in the EFB image and the readbacks. *)

Shown == [efb : Picture, back : Readbacks]
Now(v)   == [efb |-> v.efb, back |-> v.readback]
As(v, s) == [v EXCEPT !.efb = s.efb, !.readback = s.back]

\* One command, from what is shown before to what is shown after.
StepTo(v, s, c) ==
    [efb  |-> CASE c.op = "upload"   -> v.planes
                [] c.op = "dispatch" -> Drawn(v, s.efb, c.at, c.count)
                [] c.op = "clear"    -> Blank
                [] c.op \in {"xfb", "tex", "download"} -> s.efb,
     back |-> CASE c.op = "xfb"      -> [s.back EXCEPT !.xfb = [s.back.xfb EXCEPT ![c.at] = s.efb]]
                [] c.op = "tex"      -> [s.back EXCEPT !.tex = [s.back.tex EXCEPT ![c.at] = s.efb]]
                [] c.op = "download" -> [s.back EXCEPT !.plane = s.efb]
                [] c.op \in {"upload", "dispatch", "clear"} -> s.back]

\* The kinds of commands.
LEMMA CommandCases ==
    ASSUME NEW c \in Commands
    PROVE  \/ c.op \in {"upload", "clear", "download"}
           \/ c.op = "xfb" /\ c.at \in 1..XfbRing
           \/ c.op = "tex" /\ c.at \in 1..TexRing
           \/ c.op = "dispatch" /\ c.at \in Nat /\ c.count \in Nat /\ c.at + c.count <= DrawArena
<1>1. CASE c \in WholeCommands
  BY <1>1 DEF WholeCommands
<1>2. CASE c \in XfbCommands
  BY <1>2 DEF XfbCommands
<1>3. CASE c \in TexCommands
  BY <1>3 DEF TexCommands
<1>4. CASE c \in Dispatches
  <2>1. /\ c.op = "dispatch" /\ c.at \in 0..DrawArena /\ c.count \in 0..DrawArena
        /\ c.at + c.count <= DrawArena
    BY <1>4 DEF Dispatches
  <2> QED BY <2>1
<1> QED BY <1>1, <1>2, <1>3, <1>4 DEF Commands

\* A step keeps the types.
LEMMA StepToType ==
    ASSUME NEW v \in Renderers, NEW s \in Shown, NEW c \in Commands
    PROVE  StepTo(v, s, c) \in Shown
<1>1. s.efb \in Picture /\ s.back \in Readbacks
  BY DEF Shown
<1>2. /\ s.back.xfb \in [1..XfbRing -> Picture] /\ s.back.tex \in [1..TexRing -> Picture]
      /\ s.back.plane \in Picture
  BY <1>1 DEF Readbacks
<1>3. v.planes \in Picture /\ Blank \in Picture
  BY PicturesAssumption DEF Renderers, Blank, Picture
<1>4. CASE c.op \in {"upload", "clear"}
  BY <1>1, <1>3, <1>4 DEF StepTo, Shown
<1>5. CASE c.op = "download"
  <2>1. [s.back EXCEPT !.plane = s.efb] \in Readbacks
    BY <1>1, <1>2 DEF Readbacks
  <2> QED BY <1>1, <1>5, <2>1 DEF StepTo, Shown
<1>6. CASE c.op = "xfb" /\ c.at \in 1..XfbRing
  <2>1. [s.back.xfb EXCEPT ![c.at] = s.efb] \in [1..XfbRing -> Picture]
    BY <1>1, <1>2
  <2>2. [s.back EXCEPT !.xfb = [s.back.xfb EXCEPT ![c.at] = s.efb]] \in Readbacks
    BY <1>1, <1>2, <2>1 DEF Readbacks
  <2> QED BY <1>1, <1>6, <2>2 DEF StepTo, Shown
<1>7. CASE c.op = "tex" /\ c.at \in 1..TexRing
  <2>1. [s.back.tex EXCEPT ![c.at] = s.efb] \in [1..TexRing -> Picture]
    BY <1>1, <1>2
  <2>2. [s.back EXCEPT !.tex = [s.back.tex EXCEPT ![c.at] = s.efb]] \in Readbacks
    BY <1>1, <1>2, <2>1 DEF Readbacks
  <2> QED BY <1>1, <1>7, <2>2 DEF StepTo, Shown
<1>8. CASE c.op = "dispatch" /\ c.at \in Nat /\ c.count \in Nat /\ c.at + c.count <= DrawArena
  <2>1. Drawn(v, s.efb, c.at, c.count) \in Picture
    BY <1>1, <1>8, DrawnMore
  <2> QED BY <1>1, <1>8, <2>1 DEF StepTo, Shown
<1> QED BY <1>4, <1>5, <1>6, <1>7, <1>8, CommandCases

\* What is shown is all that a run changes.
LEMMA AsType ==
    ASSUME NEW v \in Renderers, NEW s \in Shown
    PROVE  /\ As(v, s) \in Renderers /\ Now(As(v, s)) = s /\ As(v, Now(v)) = v /\ Now(v) \in Shown
           /\ \A r \in Shown : As(As(v, s), r) = As(v, r)
           /\ \A packet : Sampled(As(v, s), packet) = Sampled(v, packet)
           /\ As(v, s).packets = v.packets /\ As(v, s).planes = v.planes
           /\ As(v, s).efb = s.efb /\ As(v, s).readback = s.back
<1>1. s.efb \in Picture /\ s.back \in Readbacks
  BY DEF Shown
<1>2. As(v, s) \in Renderers
  BY <1>1 DEF As, Renderers
<1>3. Now(As(v, s)) = s
  BY <1>1 DEF As, Now, Shown, Renderers
<1>4. As(v, Now(v)) = v
  BY DEF As, Now, Renderers
<1>5. Now(v) \in Shown
  BY DEF Now, Renderers, Shown
<1>6. ASSUME NEW r \in Shown PROVE As(As(v, s), r) = As(v, r)
  BY <1>6 DEF As, Renderers
<1>7. ASSUME NEW packet PROVE Sampled(As(v, s), packet) = Sampled(v, packet)
  <2>1. As(v, s).staging = v.staging
    BY DEF As, Renderers
  <2> QED BY <2>1 DEF Sampled
<1>8. /\ As(v, s).packets = v.packets /\ As(v, s).planes = v.planes
      /\ As(v, s).efb = s.efb /\ As(v, s).readback = s.back
  BY DEF As, Renderers
<1> QED BY <1>2, <1>3, <1>4, <1>5, <1>6, <1>7, <1>8

\* Execute takes that step.
LEMMA ExecuteStep ==
    ASSUME NEW v \in Renderers, NEW s \in Shown, NEW c \in Commands
    PROVE  Execute(As(v, s), c) = As(v, StepTo(v, s, c))
<1> DEFINE w == As(v, s)
           t == StepTo(v, s, c)
<1>1. /\ w \in Renderers /\ w.packets = v.packets /\ w.planes = v.planes
      /\ w.efb = s.efb /\ w.readback = s.back
      /\ \A packet : Sampled(w, packet) = Sampled(v, packet)
  BY AsType
<1>2. s.efb \in Picture /\ s.back \in Readbacks
  BY DEF Shown
<1>3. ASSUME NEW x \in Picture PROVE [w EXCEPT !.efb = x] = As(v, [efb |-> x, back |-> s.back])
  BY <1>2 DEF As, Renderers
<1>4. ASSUME NEW b PROVE [w EXCEPT !.readback = b] = As(v, [efb |-> s.efb, back |-> b])
  BY <1>2 DEF As, Renderers
<1> HIDE DEF w
<1>5. CASE c.op = "upload"
  <2>1. t = [efb |-> v.planes, back |-> s.back]
    BY <1>5 DEF StepTo
  <2>2. Execute(w, c) = [w EXCEPT !.efb = w.planes] /\ v.planes \in Picture
    BY <1>5 DEF Execute, Renderers
  <2> QED BY <1>1, <1>3, <2>1, <2>2 DEF w
<1>6. CASE c.op = "clear"
  <2>1. t = [efb |-> Blank, back |-> s.back]
    BY <1>6 DEF StepTo
  <2>2. Execute(w, c) = [w EXCEPT !.efb = Blank] /\ Blank \in Picture
    BY <1>6, PicturesAssumption DEF Execute, Blank, Picture
  <2> QED BY <1>1, <1>3, <2>1, <2>2 DEF w
<1>7. CASE c.op = "download"
  <2>1. t = [efb |-> s.efb, back |-> [s.back EXCEPT !.plane = s.efb]]
    BY <1>7 DEF StepTo
  <2>2. Execute(w, c) = [w EXCEPT !.readback = [w.readback EXCEPT !.plane = w.efb]]
    BY <1>7 DEF Execute
  <2> QED BY <1>1, <1>4, <2>1, <2>2 DEF w
<1>8. CASE c.op = "xfb" /\ c.at \in 1..XfbRing
  <2>1. t = [efb |-> s.efb, back |-> [s.back EXCEPT !.xfb = [s.back.xfb EXCEPT ![c.at] = s.efb]]]
    BY <1>8 DEF StepTo
  <2>2. Execute(w, c) = [w EXCEPT !.readback =
                            [w.readback EXCEPT !.xfb = [w.readback.xfb EXCEPT ![c.at] = w.efb]]]
    BY <1>8 DEF Execute
  <2> QED BY <1>1, <1>4, <2>1, <2>2 DEF w
<1>9. CASE c.op = "tex" /\ c.at \in 1..TexRing
  <2>1. t = [efb |-> s.efb, back |-> [s.back EXCEPT !.tex = [s.back.tex EXCEPT ![c.at] = s.efb]]]
    BY <1>9 DEF StepTo
  <2>2. Execute(w, c) = [w EXCEPT !.readback =
                            [w.readback EXCEPT !.tex = [w.readback.tex EXCEPT ![c.at] = w.efb]]]
    BY <1>9 DEF Execute
  <2> QED BY <1>1, <1>4, <2>1, <2>2 DEF w
<1>10. CASE c.op = "dispatch" /\ c.at \in Nat /\ c.count \in Nat /\ c.at + c.count <= DrawArena
  <2>1. t = [efb |-> Drawn(v, s.efb, c.at, c.count), back |-> s.back]
    BY <1>10 DEF StepTo
  <2>2. Execute(w, c) = [w EXCEPT !.efb = Drawn(w, w.efb, c.at, c.count)]
    BY <1>10 DEF Execute, Drawn, FoldLeft, MapThenFoldSet
  <2>3. Drawn(w, s.efb, c.at, c.count) = Drawn(v, s.efb, c.at, c.count)
    BY <1>1, <1>2, <1>10, DrawnSame
  <2>4. Drawn(v, s.efb, c.at, c.count) \in Picture
    BY <1>2, <1>10, DrawnMore
  <2> QED BY <1>1, <1>3, <2>1, <2>2, <2>3, <2>4 DEF w
<1> QED BY <1>5, <1>6, <1>7, <1>8, <1>9, <1>10, CommandCases DEF w

\* All recorded commands.
Ran(v) == FoldLeft(Execute, v, v.commands)
Shows(v) == Now(Ran(v))
RunSteps(v) == [i \in 1..Len(v.commands) |-> [s \in Shown |-> StepTo(v, s, v.commands[i])]]

\* They go along a trace.
LEMMA RanTrace ==
    ASSUME NEW v \in Renderers
    PROVE  /\ Ran(v) = As(v, Shows(v)) /\ Shows(v) \in Shown
           /\ \E g : Trace(g, Len(v.commands), Shown, Now(v), RunSteps(v))
                     /\ Shows(v) = g[Len(v.commands)]
<1> DEFINE seq == v.commands
           n == Len(seq)
           X == {As(v, s) : s \in Shown}
           f == [i \in 1..n |-> [x \in X |-> Execute(x, seq[i])]]
           Folds(it) == it = [s \in SUBSET DOMAIN seq |->
                                  IF s = {} THEN v
                                  ELSE Execute(it[s \ {Max(s)}], seq[Max(s)])]
<1>1. n \in Nat /\ DOMAIN seq = 1..n /\ \A i \in 1..n : seq[i] \in Commands
  <2>1. seq \in Seq(Commands)
    BY DEF Renderers
  <2> HIDE DEF seq
  <2> QED BY <2>1
<1>2. Ran(v) = (CHOOSE it : Folds(it))[DOMAIN seq]
  BY DEF Ran, FoldLeft, MapThenFoldSet
<1> HIDE DEF n, seq
<1>3. \A s \in Shown, i \in 1..n : /\ Execute(As(v, s), seq[i]) = As(v, StepTo(v, s, seq[i]))
                                   /\ StepTo(v, s, seq[i]) \in Shown
  BY <1>1, ExecuteStep, StepToType
<1>4. f \in Steps(n, X)
  <2>1. \A x \in X, i \in 1..n : Execute(x, seq[i]) \in X
    BY <1>3
  <2> HIDE DEF X
  <2> QED BY <2>1 DEF Steps
<1>5. v \in X
  <2>1. Now(v) \in Shown
    BY DEF Now, Renderers, Shown
  <2>2. As(v, Now(v)) = v
    BY <2>1, AsType
  <2> QED BY <2>1, <2>2
<1> HIDE DEF X
<1>6. PICK it : Solves(it, n, X, v, f)
  <2> HIDE DEF f
  <2> QED BY <1>1, <1>4, <1>5, FoldExists
<1>7. \A s \in SUBSET (1..n) : s # {} => Max(s) \in 1..n /\ s \ {Max(s)} \in SUBSET (1..n)
  BY <1>1, Greatest
<1>8. \E e : Folds(e)
  <2>1. ASSUME NEW s \in SUBSET (1..n)
        PROVE  it[s] = IF s = {} THEN v ELSE Execute(it[s \ {Max(s)}], seq[Max(s)])
    <3>1. CASE s = {}
      BY <1>6, <3>1 DEF Solves
    <3>2. CASE s # {}
      <4>1. it[s] = f[Max(s)][it[s \ {Max(s)}]] /\ it[s \ {Max(s)}] \in X
        BY <1>6, <1>7, <3>2 DEF Solves
      <4> QED BY <1>7, <3>2, <4>1
    <3> QED BY <3>1, <3>2
  <2>2. it = [s \in SUBSET (1..n) |-> it[s]]
    BY <1>6 DEF Solves
  <2>3. Folds(it)
    BY <1>1, <2>1, <2>2
  <2> QED BY <2>3
<1> DEFINE c == CHOOSE e : Folds(e)
<1>9. Folds(c)
  BY <1>8
<1> HIDE DEF c
<1>10. Follows(c, n, X, v, f)
  <2>1. c[{}] = v
    BY <1>1, <1>9
  <2>2. ASSUME NEW s \in SUBSET (1..n), s # {}, c[s \ {Max(s)}] \in X
        PROVE  c[s] = f[Max(s)][c[s \ {Max(s)}]]
    <3>1. c[s] = Execute(c[s \ {Max(s)}], seq[Max(s)])
      BY <1>1, <1>9, <2>2
    <3>2. Max(s) \in 1..n
      BY <1>7, <2>2
    <3> QED BY <2>2, <3>1, <3>2
  <2> QED BY <2>1, <2>2 DEF Follows
<1>11. PICK h : Trace(h, n, X, v, f) /\ h[n] = c[1..n]
  <2> HIDE DEF f
  <2> QED BY <1>1, <1>4, <1>5, <1>10, FoldTrace
<1>12. Ran(v) = h[n]
  BY <1>1, <1>2, <1>11 DEF c
<1> DEFINE g == [i \in 0..n |-> Now(h[i])]
<1>13. \A i \in 0..n : g[i] \in Shown /\ h[i] = As(v, g[i])
  <2> SUFFICES ASSUME NEW i \in 0..n PROVE Now(h[i]) \in Shown /\ h[i] = As(v, Now(h[i]))
    OBVIOUS
  <2>1. h[i] \in X
    BY <1>11 DEF Trace
  <2>2. PICK s \in Shown : h[i] = As(v, s)
    BY <2>1 DEF X
  <2> QED BY <2>2, AsType
<1>14. ASSUME NEW i \in 1..n PROVE g[i] = StepTo(v, g[i - 1], seq[i])
  <2>1. i - 1 \in 0..n /\ i \in 0..n
    BY <1>1
  <2>2. h[i] = f[i][h[i - 1]] /\ h[i - 1] \in X
    BY <1>11, <2>1 DEF Trace
  <2>3. h[i] = Execute(h[i - 1], seq[i])
    BY <2>2
  <2>4. g[i - 1] \in Shown /\ h[i - 1] = As(v, g[i - 1])
    BY <1>13, <2>1
  <2>5. h[i] = As(v, StepTo(v, g[i - 1], seq[i])) /\ StepTo(v, g[i - 1], seq[i]) \in Shown
    BY <1>3, <2>3, <2>4
  <2>6. g[i] = Now(h[i])
    BY <2>1
  <2> QED BY <2>5, <2>6, AsType
<1>15. Trace(g, n, Shown, Now(v), RunSteps(v))
  <2>1. g \in [0..n -> Shown]
    BY <1>13
  <2>2. g[0] = Now(v)
    <3>1. h[0] = v /\ 0 \in 0..n
      BY <1>1, <1>11 DEF Trace
    <3> QED BY <3>1
  <2>3. \A i \in 1..n : g[i] = RunSteps(v)[i][g[i - 1]]
    <3> SUFFICES ASSUME NEW i \in 1..n PROVE g[i] = RunSteps(v)[i][g[i - 1]]
      OBVIOUS
    <3>1. i - 1 \in 0..n
      BY <1>1
    <3>2. g[i - 1] \in Shown
      BY <1>13, <3>1
    <3> HIDE DEF g
    <3> QED BY <1>14, <3>2 DEF RunSteps, n, seq
  <2> HIDE DEF g
  <2> QED BY <2>1, <2>2, <2>3 DEF Trace
<1>16. n \in 0..n
  BY <1>1
<1>17. Shows(v) = g[n]
  BY <1>12, <1>16 DEF Shows
<1> QED BY <1>12, <1>13, <1>15, <1>16, <1>17 DEF n, seq

\* The packets of a dispatch sample the same in v as in w.
SameSamples(v, w, at, n) ==
    \A j \in at..(at + n - 1) : Sampled(v, v.packets[j]) = Sampled(w, w.packets[j])

\* In w the commands of v begin in the same way.
SameRun(v, w) ==
    /\ Now(v) = Now(w) /\ v.planes = w.planes
    /\ \A i \in 1..Len(v.commands) :
          LET c == v.commands[i] IN
              /\ w.commands[i] = c
              /\ c.op = "dispatch" => SameSamples(v, w, c.at, c.count)

\* A command leaves the same in both.
LEMMA StepToSame ==
    ASSUME NEW v \in Renderers, NEW w \in Renderers, NEW s \in Shown, NEW c \in Commands,
           v.planes = w.planes, c.op = "dispatch" => SameSamples(v, w, c.at, c.count)
    PROVE  StepTo(v, s, c) = StepTo(w, s, c)
<1>1. CASE c.op # "dispatch"
  <2>1. c.op \in {"upload", "clear", "download", "xfb", "tex"}
    BY <1>1, CommandCases
  <2> QED BY <2>1 DEF StepTo
<1>2. CASE c.op = "dispatch" /\ c.at \in Nat /\ c.count \in Nat /\ c.at + c.count <= DrawArena
  <2>1. s.efb \in Picture
    BY DEF Shown
  <2>2. Drawn(v, s.efb, c.at, c.count) = Drawn(w, s.efb, c.at, c.count)
    BY <1>2, <2>1, DrawnSame DEF SameSamples
  <2> QED BY <1>2, <2>2 DEF StepTo
<1> QED BY <1>1, <1>2, CommandCases

\* Then they show the same up to there.
LEMMA RanSame ==
    ASSUME NEW v \in Renderers, NEW w \in Renderers, SameRun(v, w)
    PROVE  /\ Len(w.commands) = Len(v.commands) => Shows(w) = Shows(v)
           /\ \A c \in Commands :
                 w.commands = Append(v.commands, c) => Shows(w) = StepTo(w, Shows(v), c)
<1> DEFINE n == Len(v.commands)
           m == Len(w.commands)
<1>1. /\ v.commands \in Seq(Commands) /\ w.commands \in Seq(Commands)
      /\ n \in Nat /\ m \in Nat /\ \A i \in 1..n : v.commands[i] \in Commands
  <2>1. v.commands \in Seq(Commands) /\ w.commands \in Seq(Commands)
    BY DEF Renderers
  <2> QED BY <2>1
<1> HIDE DEF n, m
<1>2. PICK h : Trace(h, n, Shown, Now(v), RunSteps(v)) /\ Shows(v) = h[n]
  BY RanTrace DEF n
<1>3. PICK e : Trace(e, m, Shown, Now(w), RunSteps(w)) /\ Shows(w) = e[m]
  BY RanTrace DEF m
<1>4. ASSUME n <= m PROVE h[n] = e[n]
  <2>1. ASSUME NEW i \in 1..n PROVE RunSteps(v)[i] = RunSteps(w)[i]
    <3>1. v.commands[i] \in Commands /\ w.commands[i] = v.commands[i] /\ i \in 1..m
      BY <1>1, <1>4 DEF SameRun, n
    <3>2. \A s \in Shown : StepTo(v, s, v.commands[i]) = StepTo(w, s, v.commands[i])
      <4>1. /\ v.planes = w.planes
            /\ v.commands[i].op = "dispatch"
                  => SameSamples(v, w, v.commands[i].at, v.commands[i].count)
        BY DEF SameRun, n
      <4> QED BY <3>1, <4>1, StepToSame
    <3> QED BY <3>1, <3>2 DEF RunSteps, n, m
  <2>2. Now(v) = Now(w)
    BY DEF SameRun
  <2> QED BY <1>1, <1>2, <1>3, <1>4, <2>1, <2>2, SameTrace
<1>5. ASSUME m = n PROVE Shows(w) = Shows(v)
  <2>1. n <= m
    BY <1>1, <1>5
  <2> QED BY <1>2, <1>3, <1>4, <1>5, <2>1
<1>6. ASSUME NEW c \in Commands, w.commands = Append(v.commands, c)
      PROVE  Shows(w) = StepTo(w, Shows(v), c)
  <2>1. m = n + 1 /\ w.commands[n + 1] = c
    BY <1>1, <1>6 DEF m, n
  <2>2. n <= m /\ n + 1 \in 1..m /\ (n + 1) - 1 = n
    BY <1>1, <2>1
  <2>3. e[n] = Shows(v) /\ Shows(v) \in Shown
    BY <1>2, <1>4, <2>2, RanTrace
  <2>4. e[n + 1] = RunSteps(w)[n + 1][e[n]]
    BY <1>3, <2>2 DEF Trace
  <2> QED BY <1>3, <2>1, <2>2, <2>3, <2>4 DEF RunSteps, m
<1> QED BY <1>5, <1>6 DEF n, m

\* Without commands nothing changes.
LEMMA RanNone ==
    ASSUME NEW v \in Renderers, v.commands = <<>>
    PROVE  Shows(v) = Now(v)
<1>1. PICK g : Trace(g, Len(v.commands), Shown, Now(v), RunSteps(v))
               /\ Shows(v) = g[Len(v.commands)]
  BY RanTrace
<1>2. Len(v.commands) = 0
  OBVIOUS
<1> QED BY <1>1, <1>2 DEF Trace

-----------------------------------------------------------------------------
(* What is recorded. *)

\* Nothing is recorded or awaited between a submission and the next call; what is
\* recorded is on the GPU and fits the arena and the rings.
Idle(v) == v.commands = <<>> /\ v.jobs = 0 /\ v.used = 0 /\ v.xfb = <<>> /\ v.tex = <<>>
DrawGood(v) ==
    /\ v.recording => v.valid
    /\ ~ v.recording => Idle(v)
    /\ v.used + v.jobs + (IF v.jobs = 0 THEN 0 ELSE 1) <= DrawArena
    /\ Len(v.xfb) <= XfbRing /\ Len(v.tex) <= TexRing
    /\ \A i \in 1..Len(v.commands) :
          v.commands[i].op = "dispatch" => v.commands[i].at + v.commands[i].count <= v.used

\* What there is when it has run: the present frame buffer, the readbacks, memory.
TotalEfb(v)  == Drawn(v, Shows(v).efb, v.used, v.jobs)
TotalBack(v) == Shows(v).back
TotalMemory(v) == Landed(Landed(v.memory, v.xfb, TotalBack(v).xfb), v.tex, TotalBack(v).tex)
Present(v) == IF v.valid THEN TotalEfb(v) ELSE v.soft

\* Their types.
LEMMA TotalType ==
    ASSUME NEW v \in Renderers, DrawGood(v)
    PROVE  /\ TotalEfb(v) \in Picture /\ TotalBack(v) \in Readbacks
           /\ TotalBack(v).xfb \in Rings(XfbRing) /\ TotalBack(v).tex \in Rings(TexRing)
           /\ Landed(v.memory, v.xfb, TotalBack(v).xfb) \in Memories
           /\ TotalMemory(v) \in Memories
           /\ v.memory \in Memories /\ v.xfb \in Seq(Cells) /\ v.tex \in Seq(Cells)
           /\ XfbRing \in Nat /\ TexRing \in Nat
<1>1. Shows(v) \in Shown
  BY RanTrace
<1>2. Shows(v).efb \in Picture /\ TotalBack(v) \in Readbacks
  BY <1>1 DEF Shown, TotalBack
<1>3. TotalBack(v).xfb \in Rings(XfbRing) /\ TotalBack(v).tex \in Rings(TexRing)
  BY <1>2 DEF Readbacks, Rings
<1>4. TotalEfb(v) \in Picture
  <2>1. v.used \in Nat /\ v.jobs \in Nat /\ DrawArena \in Nat
    BY ResidentAssumption DEF Renderers
  <2>2. v.used + v.jobs <= DrawArena
    BY <2>1 DEF DrawGood
  <2> QED BY <1>2, <2>1, <2>2, DrawnMore DEF TotalEfb
<1>5. v.memory \in Memories /\ v.xfb \in Seq(XfbCells) /\ v.tex \in Seq(TexCells)
  BY DEF Renderers, Memories
<1>6. v.xfb \in Seq(Cells) /\ v.tex \in Seq(Cells)
  BY <1>5, TargetsAssumption, SeqMonotonic
<1>7. Len(v.xfb) <= XfbRing /\ Len(v.tex) <= TexRing /\ XfbRing \in Nat /\ TexRing \in Nat
  BY ResidentAssumption DEF DrawGood
<1>8. Landed(v.memory, v.xfb, TotalBack(v).xfb) \in Memories
  BY <1>3, <1>5, <1>6, <1>7, LandedAt DEF LastCopies
<1>9. TotalMemory(v) \in Memories
  BY <1>3, <1>6, <1>7, <1>8, LandedAt DEF LastCopies, TotalMemory
<1> QED BY <1>2, <1>3, <1>4, <1>5, <1>6, <1>7, <1>8, <1>9

\* resident_emit_draw_batch: the triangles queued become a dispatch.
LEMMA EmittedIs ==
    ASSUME NEW v \in Renderers, DrawGood(v), v.recording
    PROVE  /\ Emitted(v) \in Renderers /\ DrawGood(Emitted(v))
           /\ Emitted(v).jobs = 0
           /\ Shows(Emitted(v)) = [efb |-> TotalEfb(v), back |-> TotalBack(v)]
           /\ TotalEfb(Emitted(v)) = TotalEfb(v) /\ TotalBack(Emitted(v)) = TotalBack(v)
           /\ \/ Emitted(v) = v /\ v.jobs = 0
              \/ /\ v.jobs # 0
                 /\ Emitted(v) = [v EXCEPT !.commands = Append(v.commands,
                                      [op |-> "dispatch", at |-> v.used, count |-> v.jobs]),
                                  !.used = v.used + v.jobs + 1, !.jobs = 0]
<1> DEFINE w == Emitted(v)
           c == [op |-> "dispatch", at |-> v.used, count |-> v.jobs]
<1>1. /\ v.used \in Nat /\ v.jobs \in Nat /\ DrawArena \in Nat /\ v.commands \in Seq(Commands)
      /\ v.used + v.jobs <= DrawArena
  <2>1. v.used \in Nat /\ v.jobs \in Nat /\ DrawArena \in Nat /\ v.commands \in Seq(Commands)
    BY ResidentAssumption DEF Renderers
  <2> QED BY <2>1 DEF DrawGood
<1>2. Shows(v) \in Shown /\ Shows(v).efb \in Picture
  BY RanTrace DEF Shown
<1>3. CASE v.jobs = 0
  <2>1. w = v
    BY <1>3 DEF Emitted
  <2>2. TotalEfb(v) = Shows(v).efb
    BY <1>1, <1>2, <1>3, DrawnMore DEF TotalEfb
  <2>3. Shows(v) = [efb |-> TotalEfb(v), back |-> TotalBack(v)]
    BY <1>2, <2>2 DEF Shown, TotalBack
  <2> QED BY <1>3, <2>1, <2>3
<1>4. CASE v.jobs # 0
  <2>1. w = [v EXCEPT !.commands = Append(v.commands, c), !.used = v.used + v.jobs + 1, !.jobs = 0]
    BY <1>4 DEF Emitted, Recording, Renderers
  <2>2. v.used + v.jobs + 1 <= DrawArena
    BY <1>1, <1>4 DEF DrawGood
  <2>3. c \in Commands
    <3>1. c \in Dispatches
      BY <1>1, <2>2 DEF Dispatches
    <3> QED BY <3>1 DEF Commands
  <2>4. w.commands = Append(v.commands, c) /\ w.used = v.used + v.jobs + 1 /\ w.jobs = 0
        /\ Now(w) = Now(v) /\ w.planes = v.planes /\ w.packets = v.packets /\ w.staging = v.staging
        /\ w.recording = v.recording /\ w.valid = v.valid /\ w.xfb = v.xfb /\ w.tex = v.tex
    BY <2>1 DEF Renderers, Now
  <2>5. w \in Renderers
    <3>1. Append(v.commands, c) \in Seq(Commands) /\ v.used + v.jobs + 1 \in Nat
      BY <1>1, <2>3
    <3> HIDE DEF c, w
    <3> QED BY <2>1, <3>1 DEF Renderers
  <2> HIDE DEF c
  <2>6. Len(w.commands) = Len(v.commands) + 1 /\ w.commands[Len(v.commands) + 1] = c
        /\ \A i \in 1..Len(v.commands) : w.commands[i] = v.commands[i]
    BY <1>1, <2>3, <2>4
  <2> HIDE DEF w
  <2>7. DrawGood(w)
    <3>1. ASSUME NEW i \in 1..Len(w.commands), w.commands[i].op = "dispatch"
          PROVE  w.commands[i].at + w.commands[i].count <= w.used
      <4>1. CASE i = Len(v.commands) + 1
        <5>1. w.commands[i].at = v.used /\ w.commands[i].count = v.jobs
          BY <2>6, <4>1 DEF c
        <5> QED BY <1>1, <2>4, <5>1
      <4>2. CASE i \in 1..Len(v.commands)
        <5>1. w.commands[i] = v.commands[i] /\ v.commands[i] \in Commands
          BY <1>1, <2>6, <4>2
        <5>2. v.commands[i].at + v.commands[i].count <= v.used
              /\ v.commands[i].at \in Nat /\ v.commands[i].count \in Nat
          BY <3>1, <4>2, <5>1, CommandCases DEF DrawGood
        <5> DEFINE a == v.commands[i].at
                   z == v.commands[i].count
        <5>3. v.used \in Nat /\ v.jobs \in Nat /\ w.used = v.used + v.jobs + 1
          BY <1>1, <2>4
        <5>4. w.commands[i].at = a /\ w.commands[i].count = z
          BY <5>1
        <5>5. a + z <= v.used /\ a \in Nat /\ z \in Nat
          BY <5>2
        <5> HIDE DEF a, z
        <5>6. a + z <= v.used + v.jobs + 1
          BY <5>3, <5>5
        <5> QED BY <5>3, <5>4, <5>6
      <4>3. i = Len(v.commands) + 1 \/ i \in 1..Len(v.commands)
        <5>1. Len(v.commands) \in Nat
          BY <1>1
        <5> QED BY <2>6, <5>1
      <4> QED BY <4>1, <4>2, <4>3
    <3>2. w.used + w.jobs + (IF w.jobs = 0 THEN 0 ELSE 1) <= DrawArena
      BY <1>1, <2>2, <2>4
    <3> QED BY <2>4, <3>1, <3>2 DEF DrawGood
  <2>8. \A packet : Sampled(v, packet) = Sampled(w, packet)
    BY <2>4 DEF Sampled
  <2>9. SameRun(v, w)
    BY <2>4, <2>6, <2>8 DEF SameRun, SameSamples
  <2>10. Shows(w) = StepTo(w, Shows(v), c)
    BY <2>3, <2>4, <2>5, <2>9, RanSame
  <2>11. StepTo(w, Shows(v), c) = [efb |-> Drawn(w, Shows(v).efb, v.used, v.jobs),
                                   back |-> Shows(v).back]
    BY DEF StepTo, c
  <2>12. Drawn(w, Shows(v).efb, v.used, v.jobs) = Drawn(v, Shows(v).efb, v.used, v.jobs)
    <3>1. \A j \in v.used..(v.used + v.jobs - 1) :
              Sampled(w, w.packets[j]) = Sampled(v, v.packets[j])
      BY <2>4, <2>8
    <3> DEFINE x == Shows(v).efb
    <3>2. /\ v \in Renderers /\ w \in Renderers /\ x \in Picture
          /\ v.used \in Nat /\ v.jobs \in Nat /\ v.used + v.jobs <= DrawArena
      BY <1>1, <1>2, <2>5
    <3> HIDE DEF x
    <3>3. Drawn(w, x, v.used, v.jobs) = Drawn(v, x, v.used, v.jobs)
      BY <3>1, <3>2, DrawnSame
    <3> QED BY <3>3 DEF x
  <2>13. Shows(w) = [efb |-> TotalEfb(v), back |-> TotalBack(v)]
    BY <2>10, <2>11, <2>12 DEF TotalEfb, TotalBack
  <2>14. TotalEfb(w) = TotalEfb(v)
    <3>1. Shows(w).efb = TotalEfb(v) /\ TotalEfb(v) \in Picture
      BY <2>13, TotalType
    <3>2. w.used \in Nat /\ w.used + 0 <= DrawArena /\ 0 \in Nat
      BY <1>1, <2>2, <2>4
    <3>3. Drawn(w, TotalEfb(v), w.used, 0) = TotalEfb(v)
      BY <2>5, <3>1, <3>2, DrawnMore
    <3>4. TotalEfb(w) = Drawn(w, Shows(w).efb, w.used, 0)
      BY <2>4 DEF TotalEfb
    <3> QED BY <3>1, <3>3, <3>4
  <2>15. TotalBack(w) = TotalBack(v)
    BY <2>13 DEF TotalBack
  <2> QED BY <1>4, <2>1, <2>4, <2>5, <2>7, <2>13, <2>14, <2>15 DEF w, c
<1> QED BY <1>3, <1>4

\* The packets a recorded dispatch or the next one paints from.
Waiting(v) ==
    {j \in Nat : \/ j \in v.used..(v.used + v.jobs - 1)
                 \/ \E i \in 1..Len(v.commands) :
                       LET c == v.commands[i]
                       IN  c.op = "dispatch" /\ j \in c.at..(c.at + c.count - 1)}

\* The fields of the queue that the lemmas below name.
LEMMA Queue ==
    ASSUME NEW v \in Renderers, DrawGood(v)
    PROVE  /\ v.used \in Nat /\ v.jobs \in Nat /\ DrawArena \in Nat /\ v.commands \in Seq(Commands)
           /\ v.used + v.jobs <= DrawArena
           /\ Shows(v) \in Shown /\ Shows(v).efb \in Picture
           /\ v.jobs = 0 => TotalEfb(v) = Shows(v).efb
<1>1. v.used \in Nat /\ v.jobs \in Nat /\ DrawArena \in Nat /\ v.commands \in Seq(Commands)
  BY ResidentAssumption DEF Renderers
<1>2. v.used + v.jobs <= DrawArena
  BY <1>1 DEF DrawGood
<1>3. Shows(v) \in Shown /\ Shows(v).efb \in Picture
  BY RanTrace DEF Shown
<1>4. ASSUME v.jobs = 0 PROVE TotalEfb(v) = Shows(v).efb
  BY <1>1, <1>2, <1>3, <1>4, DrawnMore DEF TotalEfb
<1> QED BY <1>1, <1>2, <1>3, <1>4

\* Emitting makes no packet wait.
LEMMA EmittedWaits ==
    ASSUME NEW v \in Renderers, DrawGood(v), v.recording
    PROVE  Waiting(Emitted(v)) \subseteq Waiting(v)
<1> DEFINE w == Emitted(v)
           c == [op |-> "dispatch", at |-> v.used, count |-> v.jobs]
<1>1. CASE w = v
  BY <1>1
<1>2. CASE w = [v EXCEPT !.commands = Append(v.commands, c),
                         !.used = v.used + v.jobs + 1, !.jobs = 0]
  <2>1. /\ w.commands = Append(v.commands, c) /\ w.used = v.used + v.jobs + 1 /\ w.jobs = 0
        /\ v.commands \in Seq(Commands) /\ v.used \in Nat /\ v.jobs \in Nat
    BY <1>2, Queue DEF Renderers
  <2> HIDE DEF w
  <2>2. ASSUME NEW j \in Waiting(w) PROVE j \in Waiting(v)
    <3>1. j \in Nat /\ j \notin w.used..(w.used + w.jobs - 1)
      BY <2>1 DEF Waiting
    <3>2. PICK i \in 1..Len(w.commands) : w.commands[i].op = "dispatch"
              /\ j \in w.commands[i].at..(w.commands[i].at + w.commands[i].count - 1)
      BY <3>1 DEF Waiting
    <3>3. CASE i \in 1..Len(v.commands)
      <4>1. w.commands[i] = v.commands[i]
        BY <2>1, <3>3
      <4> QED BY <3>1, <3>2, <3>3, <4>1 DEF Waiting
    <3>4. CASE i = Len(v.commands) + 1
      <4>1. w.commands[i] = c
        BY <2>1, <3>4
      <4>2. j \in v.used..(v.used + v.jobs - 1)
        BY <3>2, <4>1
      <4> QED BY <3>1, <4>2 DEF Waiting
    <3>5. i \in 1..Len(v.commands) \/ i = Len(v.commands) + 1
      BY <2>1
    <3> QED BY <3>3, <3>4, <3>5
  <2> QED BY <2>2 DEF w
<1> QED BY <1>1, <1>2, EmittedIs

\* A command other than a dispatch, recorded.
LEMMA Recorded ==
    ASSUME NEW v \in Renderers, DrawGood(v), v.recording, NEW op, NEW at, NEW count,
           [op |-> op, at |-> at, count |-> count] \in Commands, op # "dispatch"
    PROVE  LET c == [op |-> op, at |-> at, count |-> count]
               w == Recording(v, op, at, count)
           IN  /\ w = [v EXCEPT !.commands = Append(v.commands, c)]
               /\ w \in Renderers /\ DrawGood(w)
               /\ Shows(w) = StepTo(v, Shows(v), c)
               /\ v.jobs = 0 => TotalEfb(w) = StepTo(v, Shows(v), c).efb
               /\ Waiting(w) \subseteq Waiting(v)
<1> DEFINE c == [op |-> op, at |-> at, count |-> count]
           w == Recording(v, op, at, count)
<1>1. w = [v EXCEPT !.commands = Append(v.commands, c)]
  BY DEF Recording, Renderers
<1>0. v.used \in Nat /\ v.jobs \in Nat /\ DrawArena \in Nat /\ v.commands \in Seq(Commands)
      /\ c \in Commands /\ c.op # "dispatch"
  BY Queue
<1> HIDE DEF c, w
<1>2. w \in Renderers
  <2>1. Append(v.commands, c) \in Seq(Commands)
    BY <1>0
  <2> QED BY <1>1, <2>1 DEF Renderers
<1>3. /\ w.commands = Append(v.commands, c) /\ w.used = v.used /\ w.jobs = v.jobs
      /\ Now(w) = Now(v) /\ w.planes = v.planes /\ w.packets = v.packets /\ w.staging = v.staging
      /\ w.recording = v.recording /\ w.valid = v.valid /\ w.xfb = v.xfb /\ w.tex = v.tex
  BY <1>1 DEF Renderers, Now
<1>4. /\ Len(w.commands) = Len(v.commands) + 1 /\ w.commands[Len(v.commands) + 1] = c
      /\ Len(v.commands) \in Nat /\ \A i \in 1..Len(v.commands) : w.commands[i] = v.commands[i]
  BY <1>0, <1>3
<1>5. ASSUME NEW i \in 1..Len(w.commands), w.commands[i].op = "dispatch"
      PROVE  i \in 1..Len(v.commands) /\ w.commands[i] = v.commands[i]
  <2>1. i # Len(v.commands) + 1
    BY <1>0, <1>4, <1>5
  <2>2. i \in 1..Len(v.commands)
    BY <1>4, <2>1
  <2> QED BY <1>4, <2>2
<1>6. DrawGood(w)
  <2>1. \A i \in 1..Len(w.commands) : w.commands[i].op = "dispatch"
              => w.commands[i].at + w.commands[i].count <= w.used
    BY <1>3, <1>5 DEF DrawGood
  <2> QED BY <1>3, <2>1 DEF DrawGood
<1>7. Waiting(w) \subseteq Waiting(v)
  <2> SUFFICES ASSUME NEW j \in Waiting(w) PROVE j \in Waiting(v)
    OBVIOUS
  <2>1. CASE j \in w.used..(w.used + w.jobs - 1)
    BY <1>3, <2>1 DEF Waiting
  <2>2. ASSUME NEW i \in 1..Len(w.commands), w.commands[i].op = "dispatch",
               j \in w.commands[i].at..(w.commands[i].at + w.commands[i].count - 1)
        PROVE  j \in Waiting(v)
    <3>1. i \in 1..Len(v.commands) /\ w.commands[i] = v.commands[i]
      BY <1>5, <2>2
    <3> QED BY <2>2, <3>1 DEF Waiting
  <2> QED BY <2>1, <2>2 DEF Waiting
<1>8. \A packet : Sampled(v, packet) = Sampled(w, packet)
  BY <1>3 DEF Sampled
<1>9. SameRun(v, w)
  BY <1>3, <1>4, <1>8 DEF SameRun, SameSamples
<1>10. Shows(w) = StepTo(w, Shows(v), c)
  BY <1>0, <1>2, <1>3, <1>9, RanSame
<1>11. StepTo(w, Shows(v), c) = StepTo(v, Shows(v), c)
  <2>1. c.op \in {"upload", "clear", "download", "xfb", "tex"}
    BY <1>0, CommandCases
  <2> QED BY <1>3, <2>1 DEF StepTo
<1>12. v.jobs = 0 => TotalEfb(w) = StepTo(v, Shows(v), c).efb
  BY <1>2, <1>3, <1>6, <1>10, <1>11, Queue
<1> QED BY <1>1, <1>2, <1>6, <1>7, <1>10, <1>11, <1>12 DEF c, w

\* resident_submit_batch: everything recorded has run and landed.
Done(v) == [v EXCEPT !.commands = <<>>, !.recording = FALSE, !.used = 0, !.jobs = 0,
                     !.efb = TotalEfb(v), !.readback = TotalBack(v),
                     !.memory = TotalMemory(v), !.xfb = <<>>, !.tex = <<>>]

\* That is what Submitted does.
LEMMA SubmittedIs ==
    ASSUME NEW v \in Renderers, DrawGood(v)
    PROVE  Submitted(v) = Done(v)
<1> DEFINE e == IF v.recording THEN Emitted(v) ELSE v
<1>1. /\ e \in Renderers /\ e.jobs = 0
      /\ Shows(e) = [efb |-> TotalEfb(v), back |-> TotalBack(v)]
      /\ e = [v EXCEPT !.commands = e.commands, !.used = e.used, !.jobs = 0]
  <2>1. CASE v.recording
    <3>1. CASE Emitted(v) = v /\ v.jobs = 0
      BY <2>1, <3>1, EmittedIs DEF Renderers
    <3>2. CASE Emitted(v) = [v EXCEPT !.commands = Append(v.commands,
                                  [op |-> "dispatch", at |-> v.used, count |-> v.jobs]),
                                  !.used = v.used + v.jobs + 1, !.jobs = 0]
      <4>1. e \in Renderers /\ e.jobs = 0
            /\ Shows(e) = [efb |-> TotalEfb(v), back |-> TotalBack(v)]
        BY <2>1, EmittedIs
      <4>2. e = [v EXCEPT !.commands = e.commands, !.used = e.used, !.jobs = 0]
        BY <2>1, <3>2 DEF Renderers
      <4> QED BY <4>1, <4>2
    <3> QED BY <2>1, <3>1, <3>2, EmittedIs
  <2>2. CASE ~ v.recording
    <3>1. v.jobs = 0
      BY <2>2 DEF DrawGood, Idle
    <3>2. Shows(v) = [efb |-> TotalEfb(v), back |-> TotalBack(v)]
      BY <3>1, Queue DEF Shown, TotalBack
    <3> QED BY <2>2, <3>1, <3>2 DEF Renderers
  <2> QED BY <2>1, <2>2
<1> DEFINE ran == FoldLeft(Execute, e, e.commands)
           x == [ran EXCEPT !.commands = <<>>, !.recording = FALSE, !.used = 0]
<1>2. Submitted(v) = Materialized(x)
  BY DEF Submitted
<1> HIDE DEF e
<1>3. ran = As(e, Shows(e))
  <2>1. Ran(e) = As(e, Shows(e))
    BY <1>1, RanTrace
  <2> QED BY <2>1 DEF Ran
<1> HIDE DEF ran
<1>4. ran = [v EXCEPT !.commands = e.commands, !.used = e.used, !.jobs = 0,
                      !.efb = TotalEfb(v), !.readback = TotalBack(v)]
  <2>1. ran = [e EXCEPT !.efb = TotalEfb(v), !.readback = TotalBack(v)]
    BY <1>1, <1>3 DEF As
  <2> DEFINE commands == e.commands
             used == e.used
  <2>2. e = [v EXCEPT !.commands = commands, !.used = used, !.jobs = 0]
    BY <1>1
  <2> HIDE DEF commands, used
  <2>3. ran = [v EXCEPT !.commands = commands, !.used = used, !.jobs = 0,
                        !.efb = TotalEfb(v), !.readback = TotalBack(v)]
    BY <2>1, <2>2 DEF Renderers
  <2> QED BY <2>3 DEF commands, used
<1>5. x = [v EXCEPT !.commands = <<>>, !.recording = FALSE, !.used = 0, !.jobs = 0,
                    !.efb = TotalEfb(v), !.readback = TotalBack(v)]
  BY <1>4 DEF Renderers
<1> HIDE DEF x
<1>6. x.memory = v.memory /\ x.xfb = v.xfb /\ x.tex = v.tex /\ x.readback = TotalBack(v)
  BY <1>5 DEF Renderers
<1>7. Materialized(x) = [x EXCEPT !.memory = TotalMemory(v), !.xfb = <<>>, !.tex = <<>>]
  BY <1>5, <1>6 DEF Materialized, TotalMemory, Renderers
<1> DEFINE a == TotalEfb(v)
           b == TotalBack(v)
           m == TotalMemory(v)
<1>8. /\ x = [v EXCEPT !.commands = <<>>, !.recording = FALSE, !.used = 0, !.jobs = 0,
                       !.efb = a, !.readback = b]
      /\ Submitted(v) = [x EXCEPT !.memory = m, !.xfb = <<>>, !.tex = <<>>]
      /\ Done(v) = [v EXCEPT !.commands = <<>>, !.recording = FALSE, !.used = 0, !.jobs = 0,
                             !.efb = a, !.readback = b, !.memory = m, !.xfb = <<>>, !.tex = <<>>]
  BY <1>2, <1>5, <1>7 DEF Done
<1> HIDE DEF a, b, m
<1> QED BY <1>8 DEF Renderers

\* Nothing waits then, and what there is stays.
LEMMA DoneIs ==
    ASSUME NEW v \in Renderers, DrawGood(v)
    PROVE  /\ Done(v) \in Renderers /\ DrawGood(Done(v)) /\ Idle(Done(v)) /\ ~ Done(v).recording
           /\ Waiting(Done(v)) = {}
           /\ TotalEfb(Done(v)) = TotalEfb(v) /\ Present(Done(v)) = Present(v)
           /\ Done(v).memory = TotalMemory(v) /\ TotalMemory(Done(v)) = TotalMemory(v)
<1> DEFINE w == Done(v)
<1>1. TotalEfb(v) \in Picture /\ TotalBack(v) \in Readbacks /\ TotalMemory(v) \in [Area -> Picture]
  BY TotalType DEF Memories
<1>2. w \in Renderers
  <2>1. <<>> \in Seq(XfbCells) /\ <<>> \in Seq(TexCells) /\ <<>> \in Seq(Commands)
    OBVIOUS
  <2> QED BY <1>1, <2>1 DEF Done, Renderers
<1>3. /\ w.efb = TotalEfb(v) /\ w.readback = TotalBack(v) /\ w.memory = TotalMemory(v)
      /\ w.xfb = <<>> /\ w.tex = <<>> /\ w.commands = <<>> /\ w.recording = FALSE
      /\ w.used = 0 /\ w.jobs = 0 /\ w.valid = v.valid /\ w.soft = v.soft
  BY DEF Done, Renderers
<1> HIDE DEF w
<1>4. Idle(w) /\ DrawGood(w)
  <2>1. Len(<<>>) = 0 /\ DrawArena >= 0 /\ XfbRing >= 0 /\ TexRing >= 0
    BY ResidentAssumption
  <2> QED BY <1>3, <2>1 DEF Idle, DrawGood
<1>5. Waiting(w) = {}
  <2>1. Len(w.commands) = 0 /\ w.used..(w.used + w.jobs - 1) = {} /\ 1..0 = {}
    BY <1>3
  <2> QED BY <2>1 DEF Waiting
<1>6. Shows(w) = [efb |-> TotalEfb(v), back |-> TotalBack(v)]
  BY <1>2, <1>3, RanNone DEF Now
<1>7. TotalEfb(w) = TotalEfb(v) /\ TotalBack(w) = TotalBack(v)
  BY <1>2, <1>3, <1>4, <1>6, Queue DEF TotalBack
<1>8. TotalMemory(w) = TotalMemory(v)
  <2>1. TotalBack(w).xfb \in Rings(XfbRing) /\ TotalBack(w).tex \in Rings(TexRing)
        /\ w.memory \in Memories /\ XfbRing \in Nat /\ TexRing \in Nat
    BY <1>2, <1>4, TotalType
  <2> QED BY <1>3, <2>1, LandedNone DEF TotalMemory
<1> QED BY <1>2, <1>3, <1>4, <1>5, <1>7, <1>8 DEF w, Present

-----------------------------------------------------------------------------
(* Submitting, beginning and synchronising change nothing that will be seen. *)

Targets(v) == ToSet(v.xfb) \cup ToSet(v.tex)

SameArenas(v, w) ==
    /\ w.cow = v.cow /\ w.ok = v.ok
    /\ w.cache = v.cache /\ w.order = v.order /\ w.top = v.top
    /\ w.staging = v.staging /\ w.packets = v.packets

Later(v, w) ==
    /\ w \in Renderers /\ DrawGood(w)
    /\ Present(w) = Present(v) /\ TotalMemory(w) = TotalMemory(v)
    /\ SameArenas(v, w)
    /\ Waiting(w) \subseteq Waiting(v) /\ Targets(w) \subseteq Targets(v)
    /\ \A a \in Area : a \notin Targets(v) => w.memory[a] = v.memory[a]

\* One after the other.
LEMMA LaterStill ==
    ASSUME NEW v, NEW w, NEW x, Later(v, w), Later(w, x)
    PROVE  Later(v, x)
BY DEF Later, SameArenas

\* Without anything recorded what there is is there already.
LEMMA IdleIs ==
    ASSUME NEW v \in Renderers, Idle(v), v.recording => v.valid
    PROVE  /\ DrawGood(v) /\ Waiting(v) = {} /\ Targets(v) = {}
           /\ Shows(v) = Now(v) /\ TotalEfb(v) = v.efb /\ TotalBack(v) = v.readback
           /\ TotalMemory(v) = v.memory
<1>1. /\ v.commands = <<>> /\ v.jobs = 0 /\ v.used = 0 /\ v.xfb = <<>> /\ v.tex = <<>>
      /\ Len(<<>>) = 0 /\ DrawArena >= 0 /\ XfbRing >= 0 /\ TexRing >= 0
  BY ResidentAssumption DEF Idle
<1>2. DrawGood(v)
  BY <1>1 DEF DrawGood, Idle
<1>3. Waiting(v) = {}
  <2>1. Len(v.commands) = 0 /\ v.used..(v.used + v.jobs - 1) = {} /\ 1..0 = {}
    BY <1>1
  <2> QED BY <2>1 DEF Waiting
<1>4. Targets(v) = {}
  BY <1>1 DEF Targets, ToSet
<1>5. Shows(v) = Now(v)
  BY <1>1, RanNone
<1>6. TotalEfb(v) = v.efb /\ TotalBack(v) = v.readback
  BY <1>1, <1>2, <1>5, Queue DEF Now, TotalBack
<1>7. TotalMemory(v) = v.memory
  <2>1. TotalBack(v).xfb \in Rings(XfbRing) /\ TotalBack(v).tex \in Rings(TexRing)
        /\ v.memory \in Memories /\ XfbRing \in Nat /\ TexRing \in Nat
    BY <1>2, TotalType
  <2> QED BY <1>1, <2>1, LandedNone DEF TotalMemory
<1> QED BY <1>2, <1>3, <1>4, <1>5, <1>6, <1>7

\* An area that nothing is copied to keeps its content; written, it is written at the end.
LEMMA TotalElse ==
    ASSUME NEW v \in Renderers, DrawGood(v), NEW a \in Area, a \notin Targets(v)
    PROVE  TotalMemory(v)[a] = v.memory[a]
<1> DEFINE x == Landed(v.memory, v.xfb, TotalBack(v).xfb)
<1>1. /\ TotalBack(v).xfb \in Rings(XfbRing) /\ TotalBack(v).tex \in Rings(TexRing)
      /\ x \in Memories /\ v.memory \in Memories /\ v.xfb \in Seq(Cells) /\ v.tex \in Seq(Cells)
      /\ XfbRing \in Nat /\ TexRing \in Nat
  BY TotalType
<1>2. a \notin ToSet(v.xfb) /\ a \notin ToSet(v.tex) /\ Len(v.xfb) <= XfbRing
      /\ Len(v.tex) <= TexRing /\ Blank \in Picture
  BY PicturesAssumption DEF Targets, DrawGood, Blank, Picture
<1>3. /\ x[a] = v.memory[a]
      /\ Landed([v.memory EXCEPT ![a] = Blank], v.xfb, TotalBack(v).xfb) = [x EXCEPT ![a] = Blank]
  BY <1>1, <1>2, LandedElse
<1> HIDE DEF x
<1>4. /\ Landed(x, v.tex, TotalBack(v).tex)[a] = x[a]
      /\ Landed([x EXCEPT ![a] = Blank], v.tex, TotalBack(v).tex)
             = [Landed(x, v.tex, TotalBack(v).tex) EXCEPT ![a] = Blank]
  BY <1>1, <1>2, LandedElse
<1> QED BY <1>3, <1>4 DEF TotalMemory, x

\* resident_submit_batch.
LEMMA SubmittedLater ==
    ASSUME NEW v \in Renderers, DrawGood(v)
    PROVE  /\ Later(v, Submitted(v)) /\ Idle(Submitted(v)) /\ ~ Submitted(v).recording
           /\ Submitted(v).memory = TotalMemory(v) /\ Submitted(v).efb = TotalEfb(v)
           /\ Submitted(v).valid = v.valid /\ Submitted(v).soft = v.soft
           /\ Submitted(v).readback = TotalBack(v)
<1> DEFINE w == Done(v)
<1>1. Submitted(v) = w
  BY SubmittedIs
<1>2. /\ w \in Renderers /\ DrawGood(w) /\ Idle(w) /\ ~ w.recording /\ Waiting(w) = {}
      /\ Present(w) = Present(v) /\ w.memory = TotalMemory(v) /\ TotalMemory(w) = TotalMemory(v)
  BY DoneIs
<1>3. SameArenas(v, w) /\ w.efb = TotalEfb(v) /\ w.valid = v.valid /\ w.soft = v.soft
      /\ w.readback = TotalBack(v)
  BY DEF Done, SameArenas, Renderers
<1> HIDE DEF w
<1>4. Targets(w) = {}
  BY <1>2, IdleIs
<1>5. \A a \in Area : a \notin Targets(v) => w.memory[a] = v.memory[a]
  BY <1>2, TotalElse
<1> QED BY <1>1, <1>2, <1>3, <1>4, <1>5 DEF Later

\* resident_begin_commands.
LEMMA BegunLater ==
    ASSUME NEW v \in Renderers, DrawGood(v)
    PROVE  /\ Later(v, Begun(v)) /\ Begun(v).recording /\ Begun(v).valid
           /\ Begun(v).xfb = v.xfb /\ Begun(v).tex = v.tex
           /\ Begun(v).used = v.used /\ Begun(v).jobs = v.jobs
           /\ Begun(v).memory = v.memory
<1> DEFINE w == Begun(v)
<1>1. CASE v.recording
  <2>1. w = v
    BY <1>1 DEF Begun
  <2> QED BY <1>1, <2>1 DEF Later, SameArenas, DrawGood
<1>2. CASE ~ v.recording
  <2>1. Idle(v) /\ v.commands = <<>> /\ v.jobs = 0 /\ v.used = 0 /\ v.xfb = <<>> /\ v.tex = <<>>
    BY <1>2 DEF DrawGood, Idle
  <2>2. /\ Waiting(v) = {} /\ Targets(v) = {} /\ Shows(v) = Now(v)
        /\ TotalEfb(v) = v.efb /\ TotalMemory(v) = v.memory
    BY <1>2, <2>1, IdleIs
  <2>3. CASE v.valid
    <3>1. w = [v EXCEPT !.recording = TRUE]
      BY <1>2, <2>3 DEF Begun
    <3>2. w \in Renderers
      BY <3>1 DEF Renderers
    <3>3. /\ SameArenas(v, w) /\ w.recording = TRUE /\ w.valid = v.valid /\ w.efb = v.efb
          /\ w.memory = v.memory /\ w.commands = <<>> /\ w.jobs = 0 /\ w.used = 0
          /\ w.xfb = <<>> /\ w.tex = <<>>
      BY <2>1, <3>1 DEF SameArenas, Renderers
    <3> HIDE DEF w
    <3>4. Idle(w)
      BY <3>3 DEF Idle
    <3>5. /\ DrawGood(w) /\ Waiting(w) = {} /\ Targets(w) = {}
          /\ TotalEfb(w) = w.efb /\ TotalMemory(w) = w.memory
      BY <2>3, <3>2, <3>3, <3>4, IdleIs
    <3>6. Present(w) = Present(v)
      BY <2>2, <2>3, <3>3, <3>5 DEF Present
    <3> QED BY <2>1, <2>2, <2>3, <3>2, <3>3, <3>5, <3>6 DEF Later, w
  <2>4. CASE ~ v.valid
    <3> DEFINE u == [v EXCEPT !.recording = TRUE, !.planes = v.soft, !.valid = TRUE]
               c == [op |-> "upload", at |-> 0, count |-> 0]
    <3>1. w = Recording(u, "upload", 0, 0)
      BY <1>2, <2>4 DEF Begun
    <3>2. u \in Renderers /\ v.soft \in Picture
      BY DEF Renderers
    <3>3. /\ SameArenas(v, u) /\ u.recording = TRUE /\ u.valid = TRUE /\ u.readback = v.readback
          /\ u.memory = v.memory /\ u.commands = <<>> /\ u.jobs = 0 /\ u.used = 0
          /\ u.xfb = <<>> /\ u.tex = <<>> /\ u.planes = v.soft
      BY <2>1 DEF SameArenas, Renderers
    <3> HIDE DEF w, u
    <3>4. Idle(u)
      BY <3>3 DEF Idle
    <3>5. /\ DrawGood(u) /\ Waiting(u) = {} /\ Shows(u) = Now(u) /\ TotalBack(u) = u.readback
          /\ TotalMemory(u) = u.memory
      BY <3>2, <3>3, <3>4, IdleIs
    <3>6. c \in Commands
      BY DEF Commands, WholeCommands
    <3>7. /\ w = [u EXCEPT !.commands = Append(u.commands, c)]
          /\ w \in Renderers /\ DrawGood(w) /\ Waiting(w) \subseteq Waiting(u)
          /\ Shows(w) = StepTo(u, Shows(u), c) /\ TotalEfb(w) = StepTo(u, Shows(u), c).efb
      <4>1. u.recording /\ u.jobs = 0 /\ "upload" # "dispatch"
        BY <3>3
      <4> QED BY <3>1, <3>2, <3>5, <3>6, <4>1, Recorded
    <3>8. StepTo(u, Shows(u), c) = [efb |-> v.soft, back |-> v.readback]
      BY <3>3, <3>5 DEF StepTo, Now
    <3>9. /\ SameArenas(u, w) /\ w.recording = TRUE /\ w.valid = TRUE /\ w.memory = u.memory
          /\ w.jobs = 0 /\ w.used = 0 /\ w.xfb = <<>> /\ w.tex = <<>>
      BY <3>2, <3>3, <3>7 DEF SameArenas, Renderers
    <3>10. TotalMemory(w) = TotalMemory(u)
      BY <3>3, <3>5, <3>7, <3>8, <3>9 DEF TotalMemory, TotalBack
    <3>11. Present(w) = Present(v)
      BY <2>4, <3>7, <3>8, <3>9 DEF Present
    <3>12. Targets(w) = Targets(v) /\ Waiting(w) \subseteq Waiting(v)
      BY <2>1, <3>5, <3>7, <3>9 DEF Targets
    <3>13. SameArenas(v, w)
      BY <3>3, <3>9 DEF SameArenas
    <3> QED BY <2>1, <2>2, <3>3, <3>5, <3>7, <3>9, <3>10, <3>11, <3>12, <3>13 DEF Later, w
  <2> QED BY <2>3, <2>4
<1> QED BY <1>1, <1>2

\* resident_emit_draw_batch.
LEMMA EmittedLater ==
    ASSUME NEW v \in Renderers, DrawGood(v), v.recording
    PROVE  /\ Later(v, Emitted(v)) /\ Emitted(v).recording /\ Emitted(v).jobs = 0
           /\ Emitted(v).xfb = v.xfb /\ Emitted(v).tex = v.tex /\ Emitted(v).valid
           /\ Emitted(v).memory = v.memory
           /\ Shows(Emitted(v)) = [efb |-> Present(v), back |-> TotalBack(v)]
<1> DEFINE w == Emitted(v)
<1>1. /\ w \in Renderers /\ DrawGood(w) /\ w.jobs = 0
      /\ Shows(w) = [efb |-> TotalEfb(v), back |-> TotalBack(v)]
      /\ TotalEfb(w) = TotalEfb(v) /\ TotalBack(w) = TotalBack(v)
      /\ Waiting(w) \subseteq Waiting(v)
  BY EmittedIs, EmittedWaits
<1>2. /\ SameArenas(v, w) /\ w.recording = v.recording /\ w.valid = v.valid
      /\ w.memory = v.memory /\ w.xfb = v.xfb /\ w.tex = v.tex
  <2>1. CASE w = v
    BY <2>1 DEF SameArenas
  <2>2. CASE w = [v EXCEPT !.commands = Append(v.commands,
                             [op |-> "dispatch", at |-> v.used, count |-> v.jobs]),
                         !.used = v.used + v.jobs + 1, !.jobs = 0]
    BY <2>2 DEF SameArenas, Renderers
  <2> QED BY <2>1, <2>2, EmittedIs
<1>3. v.valid
  BY DEF DrawGood
<1> HIDE DEF w
<1>4. Present(w) = Present(v) /\ Present(v) = TotalEfb(v)
  BY <1>1, <1>2, <1>3 DEF Present
<1>5. TotalMemory(w) = TotalMemory(v) /\ Targets(w) = Targets(v)
  BY <1>1, <1>2 DEF TotalMemory, Targets
<1> QED BY <1>1, <1>2, <1>3, <1>4, <1>5 DEF Later, w

\* resident_sync_to_software: the software planes become the frame buffer there is.
LEMMA SyncedLater ==
    ASSUME NEW v \in Renderers, DrawGood(v)
    PROVE  /\ Later(v, Synced(v)) /\ Idle(Synced(v)) /\ ~ Synced(v).recording
           /\ Synced(v).memory = TotalMemory(v) /\ Synced(v).soft = Present(v)
<1>1. CASE ~ v.valid
  <2>1. Synced(v) = v /\ Present(v) = v.soft
    BY <1>1 DEF Synced, Present
  <2>2. ~ v.recording /\ Idle(v)
    BY <1>1 DEF DrawGood
  <2>3. TotalMemory(v) = v.memory
    BY <2>2, IdleIs
  <2> QED BY <2>1, <2>2, <2>3 DEF Later, SameArenas
<1>2. CASE v.valid
  <2> DEFINE b == Begun(v)
             e == Emitted(b)
             c == [op |-> "download", at |-> 0, count |-> 0]
             r == Recording(e, "download", 0, 0)
             w == Submitted(r)
             s == [w EXCEPT !.soft = w.readback.plane]
  <2>0. Synced(v) = s
    BY <1>2 DEF Synced
  <2>1. Later(v, b) /\ b.recording /\ b \in Renderers /\ DrawGood(b)
    BY BegunLater DEF Later
  <2> HIDE DEF b
  <2>2. /\ Later(b, e) /\ e.recording /\ e.valid /\ e \in Renderers /\ DrawGood(e) /\ e.jobs = 0
        /\ Shows(e) = [efb |-> Present(b), back |-> TotalBack(b)]
    BY <2>1, EmittedLater DEF Later
  <2> HIDE DEF e
  <2>3. c \in Commands
    BY DEF Commands, WholeCommands
  <2>4. /\ r = [e EXCEPT !.commands = Append(e.commands, c)]
        /\ r \in Renderers /\ DrawGood(r) /\ Waiting(r) \subseteq Waiting(e)
        /\ Shows(r) = StepTo(e, Shows(e), c) /\ TotalEfb(r) = StepTo(e, Shows(e), c).efb
    BY <2>2, <2>3, Recorded
  <2>5. /\ SameArenas(e, r) /\ r.recording = e.recording /\ r.valid = e.valid
        /\ r.memory = e.memory /\ r.xfb = e.xfb /\ r.tex = e.tex
    BY <2>2, <2>4 DEF SameArenas, Renderers
  <2> HIDE DEF r
  <2>6. StepTo(e, Shows(e), c)
            = [efb |-> Shows(e).efb, back |-> [Shows(e).back EXCEPT !.plane = Shows(e).efb]]
    BY DEF StepTo
  <2>7. Shows(e) \in Shown /\ TotalEfb(e) = Shows(e).efb
    BY <2>2, Queue
  <2>8. /\ TotalBack(r).xfb = TotalBack(e).xfb /\ TotalBack(r).tex = TotalBack(e).tex
        /\ TotalBack(r).plane = TotalEfb(e) /\ TotalEfb(r) = TotalEfb(e)
    BY <2>4, <2>6, <2>7 DEF TotalBack, Shown, Readbacks
  <2>9. TotalMemory(r) = TotalMemory(e) /\ Present(r) = Present(e) /\ Targets(r) = Targets(e)
    BY <2>2, <2>5, <2>8 DEF TotalMemory, Present, Targets
  <2>10. Later(e, r)
    BY <2>4, <2>5, <2>9 DEF Later
  <2>11. Later(v, r)
    BY <2>1, <2>2, <2>10, LaterStill
  <2>12. /\ Later(r, w) /\ Idle(w) /\ ~ w.recording /\ w.valid = r.valid
         /\ w.memory = TotalMemory(r) /\ w.efb = TotalEfb(r) /\ w.readback = TotalBack(r)
    BY <2>4, SubmittedLater
  <2> HIDE DEF w
  <2>13. Later(v, w)
    BY <2>11, <2>12, LaterStill
  <2>14. w \in Renderers /\ w.valid /\ w.readback.plane \in Picture
    BY <2>2, <2>5, <2>12 DEF Later, Renderers, Readbacks
  <2>15. s \in Renderers
    BY <2>14 DEF Renderers
  <2>16. /\ SameArenas(w, s) /\ s.recording = w.recording /\ s.valid = w.valid /\ s.efb = w.efb
         /\ s.memory = w.memory /\ s.commands = w.commands /\ s.jobs = w.jobs /\ s.used = w.used
         /\ s.xfb = w.xfb /\ s.tex = w.tex /\ s.soft = w.readback.plane
    BY <2>14 DEF SameArenas, Renderers
  <2> HIDE DEF s
  <2>17. Idle(s)
    BY <2>12, <2>16 DEF Idle
  <2>18. /\ DrawGood(s) /\ Waiting(s) = {} /\ Targets(s) = {}
         /\ TotalEfb(s) = s.efb /\ TotalMemory(s) = s.memory
    BY <2>12, <2>15, <2>16, <2>17, IdleIs
  <2>19. TotalEfb(w) = w.efb /\ TotalMemory(w) = w.memory
    BY <2>12, <2>14, IdleIs
  <2>20. Present(s) = Present(w) /\ TotalMemory(s) = TotalMemory(w)
    BY <2>14, <2>16, <2>18, <2>19 DEF Present
  <2>21. Later(w, s)
    BY <2>15, <2>16, <2>18, <2>20 DEF Later
  <2>22. s.memory = TotalMemory(v)
    BY <2>11, <2>12, <2>16 DEF Later
  <2>23. s.soft = Present(v)
    BY <2>2, <2>5, <2>8, <2>9, <2>11, <2>12, <2>16 DEF Later, Present
  <2> QED BY <2>0, <2>12, <2>13, <2>16, <2>17, <2>21, <2>22, <2>23, LaterStill
<1> QED BY <1>1, <1>2

\* What is recorded shows the same as long as the waiting packets sample the same.
SameQueue(v, w) ==
    /\ w.commands = v.commands /\ w.planes = v.planes /\ w.efb = v.efb
    /\ w.readback = v.readback /\ w.used = v.used /\ w.jobs = v.jobs
    /\ \A j \in Waiting(v) : Sampled(w, w.packets[j]) = Sampled(v, v.packets[j])

\* So the frame buffer and the readbacks are the same in the end.
LEMMA SameRecorded ==
    ASSUME NEW v \in Renderers, NEW w \in Renderers, DrawGood(v), SameQueue(v, w)
    PROVE  /\ Shows(w) = Shows(v) /\ TotalBack(w) = TotalBack(v)
           /\ TotalEfb(w) = TotalEfb(v) /\ Waiting(w) = Waiting(v)
<1>1. Waiting(w) = Waiting(v)
  BY DEF SameQueue, Waiting
<1>2. /\ v.used \in Nat /\ v.jobs \in Nat /\ v.commands \in Seq(Commands)
      /\ v.used + v.jobs <= DrawArena /\ Shows(v).efb \in Picture
  BY Queue
<1>3. SameRun(v, w)
  <2>1. ASSUME NEW i \in 1..Len(v.commands), v.commands[i].op = "dispatch"
        PROVE  SameSamples(v, w, v.commands[i].at, v.commands[i].count)
    <3>1. v.commands[i] \in Commands
      BY <1>2
    <3>2. v.commands[i].at \in Nat /\ v.commands[i].count \in Nat
      BY <2>1, <3>1, CommandCases
    <3>3. ASSUME NEW j \in v.commands[i].at..(v.commands[i].at + v.commands[i].count - 1)
          PROVE  j \in Waiting(v)
      <4>1. j \in Nat
        BY <3>2
      <4> QED BY <2>1, <4>1 DEF Waiting
    <3> QED BY <3>3 DEF SameSamples, SameQueue
  <2>2. Now(v) = Now(w) /\ v.planes = w.planes /\ w.commands = v.commands
    BY DEF SameQueue, Now
  <2> QED BY <2>1, <2>2 DEF SameRun
<1>4. Shows(w) = Shows(v)
  BY <1>3, RanSame DEF SameQueue
<1>5. TotalEfb(w) = TotalEfb(v)
  <2>1. \A j \in v.used..(v.used + v.jobs - 1) :
            Sampled(v, v.packets[j]) = Sampled(w, w.packets[j])
    <3>1. \A j \in v.used..(v.used + v.jobs - 1) : j \in Waiting(v)
      BY <1>2 DEF Waiting
    <3> QED BY <3>1 DEF SameQueue
  <2>2. Drawn(v, Shows(v).efb, v.used, v.jobs) = Drawn(w, Shows(v).efb, v.used, v.jobs)
    BY <1>2, <2>1, DrawnSame
  <2> QED BY <1>4, <2>2 DEF TotalEfb, SameQueue
<1> QED BY <1>1, <1>4, <1>5 DEF TotalBack

\* A change outside the queue, which leaves the queue's limits alone.
LEMMA SameGood ==
    ASSUME NEW v, NEW w, DrawGood(v),
           w.commands = v.commands, w.used = v.used, w.jobs = v.jobs,
           w.recording = v.recording, w.valid = v.valid, w.xfb = v.xfb, w.tex = v.tex
    PROVE  DrawGood(w)
BY DEF DrawGood, Idle

-----------------------------------------------------------------------------
(* The copies. *)

\* One command after what is recorded, with p the frame buffer there is.
Ringed(v, w) ==
    /\ w \in Renderers /\ DrawGood(w) /\ w.recording /\ w.valid /\ w.jobs = 0
    /\ SameArenas(v, w) /\ Waiting(w) \subseteq Waiting(v)
    /\ w.memory = v.memory /\ w.xfb = v.xfb /\ w.tex = v.tex

\* The clear of a copy.
LEMMA Cleared ==
    ASSUME NEW v \in Renderers, DrawGood(v), v.recording, v.jobs = 0
    PROVE  /\ Ringed(v, Recording(v, "clear", 0, 0))
           /\ TotalEfb(Recording(v, "clear", 0, 0)) = Blank
           /\ TotalBack(Recording(v, "clear", 0, 0)) = TotalBack(v)
<1> DEFINE c == [op |-> "clear", at |-> 0, count |-> 0]
           w == Recording(v, "clear", 0, 0)
<1>1. c \in Commands
  BY DEF Commands, WholeCommands
<1>2. /\ w = [v EXCEPT !.commands = Append(v.commands, c)]
      /\ w \in Renderers /\ DrawGood(w) /\ Waiting(w) \subseteq Waiting(v)
      /\ Shows(w) = StepTo(v, Shows(v), c) /\ TotalEfb(w) = StepTo(v, Shows(v), c).efb
  BY <1>1, Recorded
<1>3. /\ SameArenas(v, w) /\ w.recording = v.recording /\ w.valid = v.valid /\ w.jobs = v.jobs
      /\ w.memory = v.memory /\ w.xfb = v.xfb /\ w.tex = v.tex
  BY <1>2 DEF SameArenas, Renderers
<1> HIDE DEF w
<1>4. StepTo(v, Shows(v), c) = [efb |-> Blank, back |-> Shows(v).back]
  BY DEF StepTo
<1>5. v.valid
  BY DEF DrawGood
<1>6. w.recording /\ w.valid
  BY <1>3, <1>5
<1>7. Ringed(v, w)
  BY <1>2, <1>3, <1>6 DEF Ringed
<1>8. TotalEfb(w) = Blank /\ TotalBack(w) = TotalBack(v)
  BY <1>2, <1>4 DEF TotalBack
<1> QED BY <1>7, <1>8 DEF w

\* A copy of a frame takes the next place of its ring.
LEMMA FrameCopied ==
    ASSUME NEW v \in Renderers, DrawGood(v), v.recording, v.jobs = 0, Len(v.xfb) < XfbRing
    PROVE  LET w == Recording(v, "xfb", Len(v.xfb) + 1, 0) IN
           /\ Ringed(v, w) /\ TotalEfb(w) = TotalEfb(v)
           /\ TotalBack(w).xfb = [TotalBack(v).xfb EXCEPT ![Len(v.xfb) + 1] = TotalEfb(v)]
           /\ TotalBack(w).tex = TotalBack(v).tex
<1> DEFINE n == Len(v.xfb) + 1
           c == [op |-> "xfb", at |-> n, count |-> 0]
           w == Recording(v, "xfb", n, 0)
<1>0. n \in 1..XfbRing
  <2>1. v.xfb \in Seq(XfbCells) /\ XfbRing \in Nat
    BY ResidentAssumption DEF Renderers
  <2> QED BY <2>1
<1> HIDE DEF n
<1>1. c \in Commands
  BY <1>0 DEF Commands, XfbCommands
<1>2. /\ w = [v EXCEPT !.commands = Append(v.commands, c)]
      /\ w \in Renderers /\ DrawGood(w) /\ Waiting(w) \subseteq Waiting(v)
      /\ Shows(w) = StepTo(v, Shows(v), c) /\ TotalEfb(w) = StepTo(v, Shows(v), c).efb
  BY <1>1, Recorded
<1>3. /\ SameArenas(v, w) /\ w.recording = v.recording /\ w.valid = v.valid /\ w.jobs = v.jobs
      /\ w.memory = v.memory /\ w.xfb = v.xfb /\ w.tex = v.tex
  BY <1>2 DEF SameArenas, Renderers
<1> HIDE DEF w
<1>4. StepTo(v, Shows(v), c)
          = [efb |-> Shows(v).efb,
             back |-> [Shows(v).back EXCEPT !.xfb = [Shows(v).back.xfb EXCEPT ![n] = Shows(v).efb]]]
  BY DEF StepTo
<1>5. v.valid
  BY DEF DrawGood
<1>6. TotalEfb(v) = Shows(v).efb /\ Shows(v).back \in Readbacks
  BY Queue DEF Shown
<1>7. /\ TotalBack(w).xfb = [TotalBack(v).xfb EXCEPT ![n] = TotalEfb(v)]
      /\ TotalBack(w).tex = TotalBack(v).tex
  <2> DEFINE y == [TotalBack(v).xfb EXCEPT ![n] = TotalEfb(v)]
  <2>1. TotalBack(w) = [TotalBack(v) EXCEPT !.xfb = y]
    BY <1>2, <1>4, <1>6 DEF TotalBack
  <2> HIDE DEF y
  <2>2. TotalBack(v) \in Readbacks
    BY <1>6 DEF TotalBack
  <2>3. TotalBack(w).xfb = y /\ TotalBack(w).tex = TotalBack(v).tex
    BY <2>1, <2>2 DEF Readbacks
  <2> QED BY <2>3 DEF y
<1>8. w.recording /\ w.valid
  BY <1>3, <1>5
<1>9. Ringed(v, w)
  BY <1>2, <1>3, <1>8 DEF Ringed
<1>10. TotalEfb(w) = TotalEfb(v)
  BY <1>2, <1>4, <1>6
<1> QED BY <1>7, <1>9, <1>10 DEF w, n

\* So does the copy of a texture.
LEMMA TextureCopied ==
    ASSUME NEW v \in Renderers, DrawGood(v), v.recording, v.jobs = 0, Len(v.tex) < TexRing
    PROVE  LET w == Recording(v, "tex", Len(v.tex) + 1, 0) IN
           /\ Ringed(v, w) /\ TotalEfb(w) = TotalEfb(v)
           /\ TotalBack(w).tex = [TotalBack(v).tex EXCEPT ![Len(v.tex) + 1] = TotalEfb(v)]
           /\ TotalBack(w).xfb = TotalBack(v).xfb
<1> DEFINE n == Len(v.tex) + 1
           c == [op |-> "tex", at |-> n, count |-> 0]
           w == Recording(v, "tex", n, 0)
<1>0. n \in 1..TexRing
  <2>1. v.tex \in Seq(TexCells) /\ TexRing \in Nat
    BY ResidentAssumption DEF Renderers
  <2> QED BY <2>1
<1> HIDE DEF n
<1>1. c \in Commands
  BY <1>0 DEF Commands, TexCommands
<1>2. /\ w = [v EXCEPT !.commands = Append(v.commands, c)]
      /\ w \in Renderers /\ DrawGood(w) /\ Waiting(w) \subseteq Waiting(v)
      /\ Shows(w) = StepTo(v, Shows(v), c) /\ TotalEfb(w) = StepTo(v, Shows(v), c).efb
  BY <1>1, Recorded
<1>3. /\ SameArenas(v, w) /\ w.recording = v.recording /\ w.valid = v.valid /\ w.jobs = v.jobs
      /\ w.memory = v.memory /\ w.xfb = v.xfb /\ w.tex = v.tex
  BY <1>2 DEF SameArenas, Renderers
<1> HIDE DEF w
<1>4. StepTo(v, Shows(v), c)
          = [efb |-> Shows(v).efb,
             back |-> [Shows(v).back EXCEPT !.tex = [Shows(v).back.tex EXCEPT ![n] = Shows(v).efb]]]
  BY DEF StepTo
<1>5. v.valid
  BY DEF DrawGood
<1>6. TotalEfb(v) = Shows(v).efb /\ Shows(v).back \in Readbacks
  BY Queue DEF Shown
<1>7. /\ TotalBack(w).tex = [TotalBack(v).tex EXCEPT ![n] = TotalEfb(v)]
      /\ TotalBack(w).xfb = TotalBack(v).xfb
  <2> DEFINE y == [TotalBack(v).tex EXCEPT ![n] = TotalEfb(v)]
  <2>1. TotalBack(w) = [TotalBack(v) EXCEPT !.tex = y]
    BY <1>2, <1>4, <1>6 DEF TotalBack
  <2> HIDE DEF y
  <2>2. TotalBack(v) \in Readbacks
    BY <1>6 DEF TotalBack
  <2>3. TotalBack(w).tex = y /\ TotalBack(w).xfb = TotalBack(v).xfb
    BY <2>1, <2>2 DEF Readbacks
  <2> QED BY <2>3 DEF y
<1>8. w.recording /\ w.valid
  BY <1>3, <1>5
<1>9. Ringed(v, w)
  BY <1>2, <1>3, <1>8 DEF Ringed
<1>10. TotalEfb(w) = TotalEfb(v)
  BY <1>2, <1>4, <1>6
<1> QED BY <1>7, <1>9, <1>10 DEF w, n

\* What a copy to c does, and nothing else.
Copied(v, w, c, clear) ==
    /\ w \in Renderers /\ DrawGood(w)
    /\ SameArenas(v, w)
    /\ Waiting(w) \subseteq Waiting(v) /\ Targets(w) \subseteq Targets(v) \cup {c}
    /\ Present(w) = (IF clear THEN Blank ELSE Present(v))
    /\ TotalMemory(w) = [TotalMemory(v) EXCEPT ![c] = Present(v)]

\* The target of a copy is appended to its ring.
Targeted(x, y, c) ==
    \/ c \in XfbCells /\ Len(x.xfb) + 1 <= XfbRing /\ y = [x EXCEPT !.xfb = Append(x.xfb, c)]
    \/ c \in TexCells /\ Len(x.tex) + 1 <= TexRing /\ y = [x EXCEPT !.tex = Append(x.tex, c)]

\* That alone changes nothing that is shown.
LEMMA Appended ==
    ASSUME NEW e \in Renderers, NEW x, Ringed(e, x), NEW c,
           NEW y \in Renderers, Targeted(x, y, c)
    PROVE  /\ DrawGood(y) /\ SameArenas(e, y) /\ Waiting(y) \subseteq Waiting(e)
           /\ Targets(y) \subseteq Targets(e) \cup {c}
           /\ TotalEfb(y) = TotalEfb(x) /\ TotalBack(y) = TotalBack(x) /\ y.valid
<1>1. /\ x \in Renderers /\ DrawGood(x) /\ x.recording /\ x.valid /\ x.jobs = 0
      /\ SameArenas(e, x) /\ Waiting(x) \subseteq Waiting(e)
      /\ x.memory = e.memory /\ x.xfb = e.xfb /\ x.tex = e.tex
      /\ x.xfb \in Seq(XfbCells) /\ x.tex \in Seq(TexCells)
  BY DEF Ringed, Renderers
<1>2. /\ y.commands = x.commands /\ y.planes = x.planes /\ y.efb = x.efb
      /\ y.readback = x.readback /\ y.used = x.used /\ y.jobs = x.jobs
      /\ y.packets = x.packets /\ y.staging = x.staging /\ y.memory = x.memory
      /\ y.recording = x.recording /\ y.valid = x.valid /\ SameArenas(x, y)
      /\ \/ y.tex = x.tex /\ c \in XfbCells /\ y.xfb = Append(x.xfb, c) /\ Len(x.xfb) + 1 <= XfbRing
         \/ y.xfb = x.xfb /\ c \in TexCells /\ y.tex = Append(x.tex, c) /\ Len(x.tex) + 1 <= TexRing
  <2> DEFINE p == Append(x.xfb, c)
             q == Append(x.tex, c)
  <2>1. \/ c \in XfbCells /\ Len(x.xfb) + 1 <= XfbRing /\ y = [x EXCEPT !.xfb = p]
        \/ c \in TexCells /\ Len(x.tex) + 1 <= TexRing /\ y = [x EXCEPT !.tex = q]
    BY DEF Targeted
  <2>2. x \in Renderers
    BY <1>1
  <2> HIDE DEF p, q
  <2>3. CASE c \in XfbCells /\ Len(x.xfb) + 1 <= XfbRing /\ y = [x EXCEPT !.xfb = p]
    BY <2>2, <2>3 DEF Renderers, SameArenas, p
  <2>4. CASE c \in TexCells /\ Len(x.tex) + 1 <= TexRing /\ y = [x EXCEPT !.tex = q]
    BY <2>2, <2>4 DEF Renderers, SameArenas, q
  <2> QED BY <2>1, <2>3, <2>4
<1>3. \A packet : Sampled(y, packet) = Sampled(x, packet)
  BY <1>2 DEF Sampled
<1>4. SameQueue(x, y)
  BY <1>2, <1>3 DEF SameQueue
<1>5. TotalEfb(y) = TotalEfb(x) /\ TotalBack(y) = TotalBack(x) /\ Waiting(y) = Waiting(x)
  BY <1>1, <1>4, SameRecorded
<1>6. Len(y.xfb) <= XfbRing /\ Len(y.tex) <= TexRing
  <2>1. Len(x.xfb) <= XfbRing /\ Len(x.tex) <= TexRing
    BY <1>1 DEF DrawGood
  <2> QED BY <1>1, <1>2, <2>1
<1>7. DrawGood(y)
  BY <1>1, <1>2, <1>6 DEF DrawGood
<1>8. Targets(y) \subseteq Targets(e) \cup {c}
  <2>1. \/ ToSet(y.xfb) \subseteq ToSet(x.xfb) \cup {c} /\ y.tex = x.tex
        \/ ToSet(y.tex) \subseteq ToSet(x.tex) \cup {c} /\ y.xfb = x.xfb
    <3>1. CASE y.tex = x.tex /\ c \in XfbCells /\ y.xfb = Append(x.xfb, c)
      <4>1. \A i \in DOMAIN y.xfb : y.xfb[i] = c \/ (i \in DOMAIN x.xfb /\ y.xfb[i] = x.xfb[i])
        BY <1>1, <3>1
      <4> QED BY <3>1, <4>1 DEF ToSet
    <3>2. CASE y.xfb = x.xfb /\ c \in TexCells /\ y.tex = Append(x.tex, c)
      <4>1. \A i \in DOMAIN y.tex : y.tex[i] = c \/ (i \in DOMAIN x.tex /\ y.tex[i] = x.tex[i])
        BY <1>1, <3>2
      <4> QED BY <3>2, <4>1 DEF ToSet
    <3> QED BY <1>2, <3>1, <3>2
  <2> QED BY <1>1, <2>1 DEF Targets
<1>9. SameArenas(e, y)
  BY <1>1, <1>2 DEF SameArenas
<1>10. Waiting(y) \subseteq Waiting(e) /\ y.valid
  BY <1>1, <1>2, <1>5
<1> QED BY <1>5, <1>7, <1>8, <1>9, <1>10

\* gx_vulkan_resident_efb_copy.
FrameCopy(v, c, clear) ==
    LET e == Emitted(Begun(IF Len(v.xfb) = XfbRing THEN Submitted(v) ELSE v))
        w == Recording(e, "xfb", Len(e.xfb) + 1, 0)
    IN  [(IF clear THEN Recording(w, "clear", 0, 0) ELSE w) EXCEPT !.xfb = Append(@, c)]

\* Before a copy: what was recorded is submitted when the ring is full, then emitted.
LEMMA BeforeCopy ==
    ASSUME NEW v \in Renderers, DrawGood(v), NEW full \in BOOLEAN
    PROVE  LET e == Emitted(Begun(IF full THEN Submitted(v) ELSE v)) IN
           /\ Later(v, e) /\ e \in Renderers /\ DrawGood(e) /\ e.recording /\ e.valid /\ e.jobs = 0
           /\ TotalEfb(e) = Present(v)
           /\ full => e.xfb = <<>> /\ e.tex = <<>>
           /\ ~ full => e.xfb = v.xfb /\ e.tex = v.tex
<1> DEFINE u == IF full THEN Submitted(v) ELSE v
           b == Begun(u)
           e == Emitted(b)
<1>1. /\ Later(v, u) /\ u \in Renderers /\ DrawGood(u)
      /\ full => u.xfb = <<>> /\ u.tex = <<>>
      /\ ~ full => u.xfb = v.xfb /\ u.tex = v.tex
  <2>1. CASE full
    BY <2>1, SubmittedLater DEF Later, Idle
  <2>2. CASE ~ full
    BY <2>2 DEF Later, SameArenas
  <2> QED BY <2>1, <2>2
<1> HIDE DEF u
<1>2. Later(u, b) /\ b \in Renderers /\ DrawGood(b) /\ b.recording /\ b.xfb = u.xfb /\ b.tex = u.tex
  BY <1>1, BegunLater DEF Later
<1> HIDE DEF b
<1>3. /\ Later(b, e) /\ e \in Renderers /\ DrawGood(e) /\ e.recording /\ e.valid /\ e.jobs = 0
      /\ e.xfb = b.xfb /\ e.tex = b.tex
  BY <1>2, EmittedLater DEF Later
<1> HIDE DEF e
<1>4. Later(v, e)
  BY <1>1, <1>2, <1>3, LaterStill
<1>5. TotalEfb(e) = Present(v)
  BY <1>3, <1>4 DEF Later, Present
<1> QED BY <1>1, <1>2, <1>3, <1>4, <1>5 DEF u, b, e

\* It copies the present frame buffer to c, and clears it when asked to.
LEMMA FrameCopyIs ==
    ASSUME NEW v \in Renderers, DrawGood(v), NEW c \in XfbCells, NEW clear \in BOOLEAN
    PROVE  Copied(v, FrameCopy(v, c, clear), c, clear)
<1> DEFINE full == Len(v.xfb) = XfbRing
           e == Emitted(Begun(IF full THEN Submitted(v) ELSE v))
           n == Len(e.xfb) + 1
           w == Recording(e, "xfb", n, 0)
           x == IF clear THEN Recording(w, "clear", 0, 0) ELSE w
           y == [x EXCEPT !.xfb = Append(x.xfb, c)]
<1>0. y = FrameCopy(v, c, clear)
  BY DEF FrameCopy
<1>1. /\ Later(v, e) /\ e \in Renderers /\ DrawGood(e) /\ e.recording /\ e.valid /\ e.jobs = 0
      /\ TotalEfb(e) = Present(v)
      /\ full => e.xfb = <<>>
      /\ ~ full => e.xfb = v.xfb
  BY BeforeCopy
<1>2. Len(e.xfb) < XfbRing
  <2>1. v.xfb \in Seq(XfbCells) /\ Len(v.xfb) <= XfbRing /\ XfbRing \in Nat \ {0}
    BY ResidentAssumption DEF Renderers, DrawGood
  <2> QED BY <1>1, <2>1
<1> HIDE DEF full, e
<1>3. /\ Ringed(e, w) /\ TotalEfb(w) = TotalEfb(e)
      /\ TotalBack(w).xfb = [TotalBack(e).xfb EXCEPT ![n] = TotalEfb(e)]
      /\ TotalBack(w).tex = TotalBack(e).tex
  BY <1>1, <1>2, FrameCopied
<1> HIDE DEF w
<1>4. /\ w \in Renderers /\ DrawGood(w) /\ w.recording /\ w.jobs = 0
      /\ w.xfb = e.xfb /\ w.memory = e.memory /\ w.tex = e.tex
  BY <1>3 DEF Ringed
<1>5. /\ Ringed(e, x) /\ TotalBack(x) = TotalBack(w)
      /\ TotalEfb(x) = (IF clear THEN Blank ELSE TotalEfb(e))
  <2>1. CASE clear
    <3>1. Ringed(w, x) /\ TotalEfb(x) = Blank /\ TotalBack(x) = TotalBack(w)
      BY <1>4, <2>1, Cleared
    <3>2. Ringed(e, x)
      BY <1>3, <3>1 DEF Ringed, SameArenas
    <3> QED BY <2>1, <3>1, <3>2
  <2>2. CASE ~ clear
    BY <1>3, <2>2
  <2> QED BY <2>1, <2>2
<1> HIDE DEF x
<1>6. x \in Renderers /\ x.xfb = e.xfb /\ x.memory = e.memory /\ x.tex = e.tex
  BY <1>5 DEF Ringed
<1>7. y \in Renderers
  <2>1. Append(x.xfb, c) \in Seq(XfbCells)
    BY <1>6 DEF Renderers
  <2> QED BY <1>6, <2>1 DEF Renderers
<1>8. y.xfb = Append(e.xfb, c) /\ y.tex = e.tex /\ y.memory = e.memory
  BY <1>6 DEF Renderers
<1>9. /\ DrawGood(y) /\ SameArenas(e, y) /\ Waiting(y) \subseteq Waiting(e)
      /\ Targets(y) \subseteq Targets(e) \cup {c}
      /\ TotalEfb(y) = TotalEfb(x) /\ TotalBack(y) = TotalBack(x) /\ y.valid
  <2>1. Len(x.xfb) + 1 <= XfbRing
    <3>1. e.xfb \in Seq(XfbCells) /\ XfbRing \in Nat
      BY <1>1, ResidentAssumption DEF Renderers
    <3> QED BY <1>2, <1>6, <3>1
  <2> HIDE DEF y
  <2>2. Targeted(x, y, c)
    BY <2>1 DEF y, Targeted
  <2> QED BY <1>1, <1>5, <1>7, <2>2, Appended
<1> HIDE DEF y
<1>10. TotalMemory(y) = [TotalMemory(e) EXCEPT ![c] = TotalEfb(e)]
  <2> DEFINE from == TotalBack(e).xfb
             p == TotalEfb(e)
             l == Landed(e.memory, e.xfb, from)
  <2>1. /\ p \in Picture /\ from \in Rings(XfbRing) /\ TotalBack(e).tex \in Rings(TexRing)
        /\ l \in Memories /\ e.memory \in Memories /\ e.xfb \in Seq(Cells) /\ e.tex \in Seq(Cells)
        /\ XfbRing \in Nat /\ TexRing \in Nat
    BY <1>1, TotalType
  <2>2. c \in Cells /\ c \in Area /\ c \notin ToSet(e.tex)
    <3>1. e.tex \in Seq(TexCells) /\ c \in Cells /\ c \notin TexCells
      BY <1>1, TargetsAssumption DEF Renderers
    <3> QED BY <3>1 DEF ToSet, Area
  <2>3. Len(e.xfb) + 1 <= XfbRing /\ Len(e.tex) <= TexRing
    <3>1. Len(e.xfb) \in Nat
      BY <2>1
    <3> QED BY <1>1, <1>2, <2>1, <3>1 DEF DrawGood
  <2> HIDE DEF from, p
  <2>4. Landed(e.memory, Append(e.xfb, c), [from EXCEPT ![Len(e.xfb) + 1] = p])
            = [l EXCEPT ![c] = p]
    BY <2>1, <2>2, <2>3, LandedMore
  <2>5. /\ TotalBack(y).xfb = [from EXCEPT ![Len(e.xfb) + 1] = p]
        /\ TotalBack(y).tex = TotalBack(e).tex
    BY <1>3, <1>5, <1>9 DEF from, p
  <2>6. TotalMemory(y) = Landed([l EXCEPT ![c] = p], e.tex, TotalBack(e).tex)
    BY <1>8, <2>4, <2>5 DEF TotalMemory
  <2> HIDE DEF l
  <2> DEFINE to == TotalBack(e).tex
             t == e.tex
  <2> HIDE DEF to, t
  <2>7. /\ Landed(l, t, to)[c] = l[c]
        /\ Landed([l EXCEPT ![c] = p], t, to) = [Landed(l, t, to) EXCEPT ![c] = p]
    <3>1. /\ l \in Memories /\ t \in Seq(Cells) /\ TexRing \in Nat /\ Len(t) <= TexRing
          /\ to \in Rings(TexRing) /\ c \in Area /\ c \notin ToSet(t) /\ p \in Picture
      BY <2>1, <2>2, <2>3 DEF to, t
    <3> QED BY <3>1, LandedElse
  <2> QED BY <2>6, <2>7 DEF TotalMemory, l, from, p, to, t
<1>11. TotalMemory(e) = TotalMemory(v) /\ SameArenas(v, e) /\ Waiting(e) \subseteq Waiting(v)
       /\ Targets(e) \subseteq Targets(v)
  BY <1>1 DEF Later
<1>12. Present(y) = (IF clear THEN Blank ELSE Present(v))
  BY <1>1, <1>5, <1>9 DEF Present
<1>13. SameArenas(v, y)
  BY <1>9, <1>11 DEF SameArenas
<1>14. Copied(v, y, c, clear)
  BY <1>1, <1>7, <1>9, <1>10, <1>11, <1>12, <1>13 DEF Copied
<1> QED BY <1>0, <1>14

\* gx_vulkan_resident_efb_tex_copy.
TextureCopy(v, c) ==
    LET e == Emitted(Begun(IF Len(v.tex) = TexRing THEN Submitted(v) ELSE v))
    IN  [Recording(e, "tex", Len(e.tex) + 1, 0) EXCEPT !.tex = Append(@, c)]

\* It copies the present frame buffer to c.
LEMMA TextureCopyIs ==
    ASSUME NEW v \in Renderers, DrawGood(v), NEW c \in TexCells
    PROVE  Copied(v, TextureCopy(v, c), c, FALSE)
<1> DEFINE full == Len(v.tex) = TexRing
           e == Emitted(Begun(IF full THEN Submitted(v) ELSE v))
           n == Len(e.tex) + 1
           x == Recording(e, "tex", n, 0)
           y == [x EXCEPT !.tex = Append(x.tex, c)]
<1>0. y = TextureCopy(v, c)
  BY DEF TextureCopy
<1>1. /\ Later(v, e) /\ e \in Renderers /\ DrawGood(e) /\ e.recording /\ e.valid /\ e.jobs = 0
      /\ TotalEfb(e) = Present(v)
      /\ full => e.tex = <<>>
      /\ ~ full => e.tex = v.tex
  BY BeforeCopy
<1>2. Len(e.tex) < TexRing
  <2>1. v.tex \in Seq(TexCells) /\ Len(v.tex) <= TexRing /\ TexRing \in Nat \ {0}
    BY ResidentAssumption DEF Renderers, DrawGood
  <2> QED BY <1>1, <2>1
<1> HIDE DEF full, e
<1>3. /\ Ringed(e, x) /\ TotalEfb(x) = TotalEfb(e)
      /\ TotalBack(x).tex = [TotalBack(e).tex EXCEPT ![n] = TotalEfb(e)]
      /\ TotalBack(x).xfb = TotalBack(e).xfb
  BY <1>1, <1>2, TextureCopied
<1> HIDE DEF x
<1>6. x \in Renderers /\ x.xfb = e.xfb /\ x.memory = e.memory /\ x.tex = e.tex
  BY <1>3 DEF Ringed
<1>7. y \in Renderers
  <2>1. Append(x.tex, c) \in Seq(TexCells)
    BY <1>6 DEF Renderers
  <2> QED BY <1>6, <2>1 DEF Renderers
<1>8. y.tex = Append(e.tex, c) /\ y.xfb = e.xfb /\ y.memory = e.memory
  BY <1>6 DEF Renderers
<1>9. /\ DrawGood(y) /\ SameArenas(e, y) /\ Waiting(y) \subseteq Waiting(e)
      /\ Targets(y) \subseteq Targets(e) \cup {c}
      /\ TotalEfb(y) = TotalEfb(x) /\ TotalBack(y) = TotalBack(x) /\ y.valid
  <2>1. Len(x.tex) + 1 <= TexRing
    <3>1. e.tex \in Seq(TexCells) /\ TexRing \in Nat
      BY <1>1, ResidentAssumption DEF Renderers
    <3> QED BY <1>2, <1>6, <3>1
  <2> HIDE DEF y
  <2>2. Targeted(x, y, c)
    BY <2>1 DEF y, Targeted
  <2> QED BY <1>1, <1>3, <1>7, <2>2, Appended
<1> HIDE DEF y
<1>10. TotalMemory(y) = [TotalMemory(e) EXCEPT ![c] = TotalEfb(e)]
  <2> DEFINE from == TotalBack(e).tex
             p == TotalEfb(e)
             l == Landed(e.memory, e.xfb, TotalBack(e).xfb)
  <2>1. /\ p \in Picture /\ from \in Rings(TexRing) /\ l \in Memories /\ e.tex \in Seq(Cells)
        /\ TexRing \in Nat
    BY <1>1, TotalType
  <2>2. c \in Cells
    BY TargetsAssumption
  <2>3. Len(e.tex) + 1 <= TexRing
    <3>1. Len(e.tex) \in Nat
      BY <2>1
    <3> QED BY <1>2, <2>1, <3>1
  <2> HIDE DEF from, p, l
  <2>4. Landed(l, Append(e.tex, c), [from EXCEPT ![Len(e.tex) + 1] = p])
            = [Landed(l, e.tex, from) EXCEPT ![c] = p]
    BY <2>1, <2>2, <2>3, LandedMore
  <2>5. TotalBack(y).tex = [from EXCEPT ![Len(e.tex) + 1] = p]
        /\ TotalBack(y).xfb = TotalBack(e).xfb
    BY <1>3, <1>9 DEF from, p
  <2>6. TotalMemory(y) = Landed(l, Append(e.tex, c), [from EXCEPT ![Len(e.tex) + 1] = p])
    BY <1>8, <2>5 DEF TotalMemory, l
  <2> QED BY <2>4, <2>6 DEF TotalMemory, l, from, p
<1>11. TotalMemory(e) = TotalMemory(v) /\ SameArenas(v, e) /\ Waiting(e) \subseteq Waiting(v)
       /\ Targets(e) \subseteq Targets(v)
  BY <1>1 DEF Later
<1>12. Present(y) = Present(v)
  BY <1>1, <1>3, <1>9 DEF Present
<1>13. SameArenas(v, y)
  BY <1>9, <1>11 DEF SameArenas
<1>14. Copied(v, y, c, FALSE)
  BY <1>1, <1>7, <1>9, <1>10, <1>11, <1>12, <1>13 DEF Copied
<1> QED BY <1>0, <1>14

\* The guest or a palette load writes what nothing will be copied to.
LEMMA WrittenIs ==
    ASSUME NEW v \in Renderers, DrawGood(v), NEW a \in Area, a \notin Targets(v), NEW b \in Picture,
           NEW w, w = [v EXCEPT !.memory = [v.memory EXCEPT ![a] = b]]
    PROVE  /\ w \in Renderers /\ DrawGood(w)
           /\ SameArenas(v, w) /\ Waiting(w) = Waiting(v) /\ Targets(w) = Targets(v)
           /\ Present(w) = Present(v) /\ TotalMemory(w) = [TotalMemory(v) EXCEPT ![a] = b]
<1>1. w \in Renderers
  <2>1. v.memory \in [Area -> Picture]
    BY DEF Renderers
  <2>2. [v.memory EXCEPT ![a] = b] \in [Area -> Picture]
    BY <2>1
  <2> QED BY <2>2 DEF Renderers
<1>2. /\ w.commands = v.commands /\ w.planes = v.planes /\ w.efb = v.efb /\ w.soft = v.soft
      /\ w.readback = v.readback /\ w.used = v.used /\ w.jobs = v.jobs
      /\ w.packets = v.packets /\ w.staging = v.staging
      /\ w.recording = v.recording /\ w.valid = v.valid /\ w.xfb = v.xfb /\ w.tex = v.tex
      /\ SameArenas(v, w) /\ w.memory = [v.memory EXCEPT ![a] = b]
  BY DEF Renderers, SameArenas
<1>3. \A packet : Sampled(w, packet) = Sampled(v, packet)
  BY <1>2 DEF Sampled
<1>4. SameQueue(v, w)
  BY <1>2, <1>3 DEF SameQueue
<1>5. TotalEfb(w) = TotalEfb(v) /\ TotalBack(w) = TotalBack(v) /\ Waiting(w) = Waiting(v)
  BY <1>1, <1>4, SameRecorded
<1>6. DrawGood(w)
  BY <1>2, SameGood
<1>7. Present(w) = Present(v) /\ Targets(w) = Targets(v)
  BY <1>2, <1>5 DEF Present, Targets
<1>8. TotalMemory(w) = [TotalMemory(v) EXCEPT ![a] = b]
  <2> DEFINE from == TotalBack(v).xfb
             to == TotalBack(v).tex
             l == Landed(v.memory, v.xfb, from)
             m == v.memory
             s == v.xfb
             t == v.tex
  <2>1. /\ from \in Rings(XfbRing) /\ to \in Rings(TexRing) /\ l \in Memories /\ m \in Memories
        /\ s \in Seq(Cells) /\ t \in Seq(Cells) /\ XfbRing \in Nat /\ TexRing \in Nat
    BY TotalType
  <2>2. a \notin ToSet(s) /\ a \notin ToSet(t) /\ Len(s) <= XfbRing /\ Len(t) <= TexRing
    BY DEF Targets, DrawGood
  <2> HIDE DEF from, to, m, s, t
  <2>0. l = Landed(m, s, from)
    BY DEF m, s
  <2> HIDE DEF l
  <2>3. /\ Landed(m, s, from)[a] = m[a]
        /\ Landed([m EXCEPT ![a] = b], s, from) = [Landed(m, s, from) EXCEPT ![a] = b]
    BY <2>1, <2>2, LandedElse
  <2>4. /\ Landed(l, t, to)[a] = l[a]
        /\ Landed([l EXCEPT ![a] = b], t, to) = [Landed(l, t, to) EXCEPT ![a] = b]
    BY <2>1, <2>2, LandedElse
  <2>5. TotalMemory(w) = Landed(Landed([m EXCEPT ![a] = b], s, from), t, to)
    BY <1>2, <1>5 DEF TotalMemory, m, s, t, from, to
  <2>6. TotalMemory(v) = Landed(l, t, to)
    BY DEF TotalMemory, l, m, s, t, from, to
  <2> QED BY <2>0, <2>3, <2>4, <2>5, <2>6
<1> QED BY <1>1, <1>2, <1>5, <1>6, <1>7, <1>8

\* The software planes are the frame buffer.
InPlanes(v, p, m) ==
    [Synced(v) EXCEPT !.valid = FALSE, !.soft = p, !.memory = m, !.ok = TRUE]

\* After synchronising, the software planes and memory are written.
LEMMA SoftwareIs ==
    ASSUME NEW v \in Renderers, DrawGood(v), NEW p \in Picture, NEW m \in Memories,
           NEW w, w = InPlanes(v, p, m)
    PROVE  /\ w \in Renderers /\ DrawGood(w) /\ Present(w) = p /\ TotalMemory(w) = m
           /\ Waiting(w) = {} /\ Targets(w) = {} /\ w.memory = m /\ w.ok
           /\ w.cache = v.cache /\ w.order = v.order /\ w.top = v.top /\ w.staging = v.staging
<1> DEFINE s == Synced(v)
<1>1. s \in Renderers /\ SameArenas(v, s) /\ Idle(s) /\ ~ s.recording
  BY SyncedLater DEF Later
<1> HIDE DEF s
<1>2. w = [s EXCEPT !.valid = FALSE, !.soft = p, !.memory = m, !.ok = TRUE]
  BY DEF s, InPlanes
<1>3. w \in Renderers
  BY <1>1, <1>2, ZenonT(40) DEF Renderers, Memories
<1>4. /\ w.commands = s.commands /\ w.used = s.used /\ w.jobs = s.jobs /\ w.xfb = s.xfb
      /\ w.tex = s.tex /\ w.recording = s.recording /\ w.valid = FALSE /\ w.soft = p
      /\ w.memory = m /\ w.ok
      /\ w.cache = s.cache /\ w.order = s.order /\ w.top = s.top /\ w.staging = s.staging
  BY <1>1, <1>2 DEF Renderers
<1>5. Idle(w) /\ ~ w.recording
  BY <1>1, <1>4 DEF Idle
<1>6. DrawGood(w) /\ Waiting(w) = {} /\ Targets(w) = {} /\ TotalMemory(w) = w.memory
  BY <1>3, <1>5, IdleIs
<1>7. Present(w) = p
  BY <1>4 DEF Present
<1>8. w.cache = v.cache /\ w.order = v.order /\ w.top = v.top /\ w.staging = v.staging
  BY <1>1, <1>4 DEF SameArenas
<1> QED BY <1>3, <1>4, <1>6, <1>7, <1>8

-----------------------------------------------------------------------------
(* The texture arenas. *)

\* The bytes of an entry are where the arena says.
Staged(v, k, e) ==
    \A b \in e.offset..(e.offset + Length[e.area] - 1) : v.staging[k][b] = e.bytes

\* An entry in use is in the order of use. A version of the present epoch is in the part of
\* the arena given out, and once uploaded holds the bytes of the entry.
EntryGood(v, k, i) ==
    LET e == v.cache[k][i] IN
    /\ e.area # NoArea => Kind(e.area) = k /\ i \in ToSet(v.order[k])
    /\ e.current => e.area # NoArea /\ e.offset + e.capacity <= v.top[k]
    /\ e.current /\ ~ e.dirty => e.capacity >= Length[e.area] /\ Staged(v, k, e)

\* Two entries are of two areas, and in two places of the arena.
Apart(e, g) ==
    /\ e.area = g.area => e.area = NoArea
    /\ e.current /\ g.current =>
          e.offset + e.capacity <= g.offset \/ g.offset + g.capacity <= e.offset

KindGood(v, k) ==
    /\ IsInjective(v.order[k])
    /\ \A i \in 1..Slots[k] : EntryGood(v, k, i)
    /\ \A i, j \in 1..Slots[k] : i # j => Apart(v.cache[k][i], v.cache[k][j])

\* What a waiting packet samples is in the part of the arenas given out.
WaitsGood(v) ==
    \A j \in Waiting(v) : \A n \in 1..Len(v.packets[j]) :
        LET b == v.packets[j][n] IN b.offset + b.length <= v.top[b.kind]

ArenasGood(v) == WaitsGood(v) /\ \A k \in Kinds : KindGood(v, k)

\* They stay so when no one touches the arenas.
LEMMA ArenasKept ==
    ASSUME NEW v, NEW w, ArenasGood(v),
           w.cache = v.cache, w.order = v.order, w.top = v.top, w.staging = v.staging,
           Waiting(w) \subseteq Waiting(v), Waiting(w) = {} \/ w.packets = v.packets
    PROVE  ArenasGood(w)
BY DEF ArenasGood, WaitsGood, KindGood, EntryGood, Staged

\* Submitting, beginning and synchronising do not.
LEMMA ArenasLater ==
    ASSUME NEW v, NEW w, ArenasGood(v), SameArenas(v, w), Waiting(w) \subseteq Waiting(v)
    PROVE  ArenasGood(w)
BY ArenasKept DEF SameArenas

Good(v) == v \in Renderers /\ DrawGood(v) /\ ArenasGood(v)

\* What the calls of a draw keep.
Onward(v, w) ==
    /\ Good(w)
    /\ Present(w) = Present(v) /\ TotalMemory(w) = TotalMemory(v)
    /\ Targets(w) \subseteq Targets(v)
    /\ \A a \in Area : a \notin Targets(v) => w.memory[a] = v.memory[a]

\* One call after another.
LEMMA OnwardStill ==
    ASSUME NEW v, NEW w, NEW x, Onward(v, w), Onward(w, x)
    PROVE  Onward(v, x)
BY DEF Onward

\* Submitting, beginning and synchronising are such calls.
LEMMA OnwardLater ==
    ASSUME NEW v, NEW w, Good(v), Later(v, w)
    PROVE  Onward(v, w)
<1>1. ArenasGood(w)
  BY ArenasLater DEF Good, Later
<1> QED BY <1>1 DEF Onward, Later, Good

-----------------------------------------------------------------------------
(* The order of use. *)

\* Who is used after a member of E is one.
Closed(o, E) == \A p, q \in 1..Len(o) : p < q /\ o[p] \in E => o[q] \in E

\* An entry stamped goes to the end.
LEMMA StampedOrder ==
    ASSUME NEW N \in Nat, NEW o \in Seq(1..N), IsInjective(o), NEW i \in 1..N
    PROVE  LET s == Append(RemoveFirst(o, i), i) IN
           /\ s \in Seq(1..N) /\ IsInjective(s)
           /\ ToSet(s) = ToSet(o) \cup {i}
           /\ \A E : Closed(o, E) => Closed(s, E \cup {i})
<1> DEFINE n == Len(o)
           r == RemoveFirst(o, i)
           s == Append(r, i)
<1>1. n \in Nat /\ DOMAIN o = 1..n /\ \A x \in 1..n : o[x] \in 1..N
  OBVIOUS
<1>2. \A x, y \in 1..n : o[x] = o[y] => x = y
  BY <1>1 DEF IsInjective
<1>3. CASE ~ \E x \in 1..n : o[x] = i
  <2>1. r = o
    BY <1>3 DEF RemoveFirst
  <2>2. /\ s \in Seq(1..N) /\ Len(s) = n + 1 /\ s[n + 1] = i /\ DOMAIN s = 1..(n + 1)
        /\ \A x \in 1..n : s[x] = o[x]
    BY <2>1
  <2> HIDE DEF s, r, n
  <2>3. \A x \in 1..(n + 1) : x \in 1..n \/ x = n + 1
    BY <1>1
  <2>4. ASSUME NEW x \in 1..(n + 1), NEW y \in 1..(n + 1), s[x] = s[y] PROVE x = y
    BY <1>2, <1>3, <2>2, <2>3, <2>4
  <2>5. IsInjective(s)
    BY <2>2, <2>4 DEF IsInjective
  <2>6. ToSet(s) = ToSet(o) \cup {i}
    <3>1. n + 1 \in 1..(n + 1) /\ \A x \in 1..n : x \in 1..(n + 1)
      BY <1>1
    <3> QED BY <1>1, <2>2, <2>3, <3>1 DEF ToSet
  <2>7. ASSUME NEW E, Closed(o, E) PROVE Closed(s, E \cup {i})
    <3> SUFFICES ASSUME NEW p \in 1..(n + 1), NEW q \in 1..(n + 1), p < q, s[p] \in E \cup {i}
                 PROVE  s[q] \in E \cup {i}
      BY <2>2 DEF Closed
    <3>1. p \in 1..n
      BY <1>1
    <3>2. CASE q = n + 1
      BY <2>2, <3>2
    <3>3. CASE q \in 1..n
      BY <1>3, <2>2, <2>7, <3>1, <3>3 DEF Closed, n
    <3> QED BY <2>3, <3>2, <3>3
  <2> QED BY <2>2, <2>5, <2>6, <2>7 DEF s, r
<1>4. ASSUME NEW p \in 1..n, o[p] = i PROVE
           /\ s \in Seq(1..N) /\ IsInjective(s)
           /\ ToSet(s) = ToSet(o) \cup {i}
           /\ \A E : Closed(o, E) => Closed(s, E \cup {i})
  <2>1. r = RemoveAt(o, p)
    <3>1. r = RemoveAt(o, SelectInSeq(o, LAMBDA x : x = i))
      BY <1>4 DEF RemoveFirst
    <3>2. SelectInSeq(o, LAMBDA x : x = i) = p
      <4>1. {x \in 1..Len(o) : o[x] = i} = {p}
        BY <1>2, <1>4
      <4>2. Min({p}) = p
        <5>1. p <= p
          BY <1>1
        <5> QED BY <5>1 DEF Min
      <4> QED BY <4>1, <4>2 DEF SelectInSeq
    <3> QED BY <3>1, <3>2
  <2>2. /\ r \in Seq(1..N) /\ Len(r) = n - 1
        /\ \A x \in 1..(n - 1) : r[x] = IF x < p THEN o[x] ELSE o[x + 1]
    <3> DEFINE a == SubSeq(o, 1, p - 1)
               b == SubSeq(o, p + 1, n)
    <3>1. a \in Seq(1..N) /\ Len(a) = p - 1 /\ \A x \in 1..(p - 1) : a[x] = o[x]
      BY <1>1
    <3>2. b \in Seq(1..N) /\ Len(b) = n - p /\ \A x \in 1..(n - p) : b[x] = o[p + x]
      <4>1. p + 1 \in Int /\ n \in Int /\ \A x \in (p + 1)..n : o[x] \in 1..N
        BY <1>1
      <4>2. /\ b \in Seq(1..N)
            /\ Len(b) = IF p + 1 <= n THEN n - (p + 1) + 1 ELSE 0
            /\ \A x \in 1..(n - (p + 1) + 1) : b[x] = o[(p + 1) + x - 1]
        BY <4>1, SubSeqProperties
      <4> HIDE DEF b, n
      <4>3. n - (p + 1) + 1 = n - p /\ \A x \in Int : (p + 1) + x - 1 = p + x
        BY <1>1
      <4> QED BY <1>1, <4>2, <4>3
    <3>3. r = a \o b
      BY <2>1 DEF RemoveAt
    <3> HIDE DEF a, b, r, n
    <3>0. /\ r \in Seq(1..N) /\ Len(r) = Len(a) + Len(b)
          /\ \A x \in 1..(Len(a) + Len(b)) :
                r[x] = IF x <= Len(a) THEN a[x] ELSE b[x - Len(a)]
      BY <3>1, <3>2, <3>3, ConcatProperties
    <3>4. r \in Seq(1..N) /\ Len(r) = n - 1
      BY <1>1, <3>0, <3>1, <3>2
    <3>5. ASSUME NEW x \in 1..(n - 1) PROVE r[x] = IF x < p THEN o[x] ELSE o[x + 1]
      <4>1. CASE x < p
        <5>1. x \in 1..(p - 1) /\ x <= Len(a) /\ x \in 1..(Len(a) + Len(b))
          BY <1>1, <3>1, <3>2, <4>1
        <5> QED BY <3>0, <3>1, <4>1, <5>1
      <4>2. CASE ~(x < p)
        <5>1. x \in 1..(Len(a) + Len(b)) /\ ~(x <= Len(a)) /\ x - Len(a) \in 1..(n - p)
              /\ p + (x - Len(a)) = x + 1
          BY <1>1, <3>1, <3>2, <4>2
        <5>2. r[x] = b[x - Len(a)]
          BY <3>0, <5>1
        <5> QED BY <3>2, <4>2, <5>1, <5>2
      <4> QED BY <4>1, <4>2
    <3> QED BY <3>4, <3>5
  <2> HIDE DEF r, n
  <2>3. /\ s \in Seq(1..N) /\ Len(s) = n /\ s[n] = i /\ DOMAIN s = 1..n
        /\ \A x \in 1..(n - 1) : s[x] = IF x < p THEN o[x] ELSE o[x + 1]
    BY <1>1, <2>2
  <2> HIDE DEF s
  <2>4. \A x \in 1..n : x = n \/ x \in 1..(n - 1)
    BY <1>1
  <2>5. \A x \in 1..(n - 1) : s[x] # i
    <3> SUFFICES ASSUME NEW x \in 1..(n - 1) PROVE s[x] # i
      OBVIOUS
    <3>1. x \in 1..n /\ x + 1 \in 1..n
      BY <1>1
    <3> QED BY <1>1, <1>2, <1>4, <2>3, <3>1
  <2>6. IsInjective(s)
    <3>1. ASSUME NEW x \in 1..n, NEW y \in 1..n, s[x] = s[y] PROVE x = y
      <4>1. CASE x \in 1..(n - 1) /\ y \in 1..(n - 1)
        <5> DEFINE z(u) == IF u < p THEN u ELSE u + 1
        <5>1. z(x) \in 1..n /\ z(y) \in 1..n /\ (z(x) = z(y) => x = y)
          BY <1>1, <4>1
        <5>2. s[x] = o[z(x)] /\ s[y] = o[z(y)]
          BY <2>3, <4>1
        <5> HIDE DEF z
        <5> QED BY <1>2, <3>1, <5>1, <5>2
      <4> QED BY <2>3, <2>4, <2>5, <3>1, <4>1
    <3> QED BY <2>3, <3>1 DEF IsInjective
  <2>7. ToSet(s) = ToSet(o) \cup {i}
    <3>1. ASSUME NEW x \in 1..n PROVE s[x] \in ToSet(o)
      <4>1. CASE x = n
        BY <1>1, <1>4, <2>3, <4>1 DEF ToSet
      <4>2. CASE x \in 1..(n - 1)
        <5>1. x \in 1..n /\ x + 1 \in 1..n
          BY <1>1, <4>2
        <5> QED BY <1>1, <2>3, <4>2, <5>1 DEF ToSet
      <4> QED BY <2>4, <4>1, <4>2
    <3>2. ASSUME NEW y \in 1..n PROVE o[y] \in ToSet(s)
      <4>1. CASE y < p
        <5>1. y \in 1..(n - 1)
          BY <1>1, <4>1
        <5> QED BY <2>3, <4>1, <5>1 DEF ToSet
      <4>2. CASE y = p
        <5>1. n \in 1..n
          BY <1>1
        <5> QED BY <1>4, <2>3, <4>2, <5>1 DEF ToSet
      <4>3. CASE y > p
        <5>1. y - 1 \in 1..(n - 1) /\ ~(y - 1 < p) /\ (y - 1) + 1 = y /\ y - 1 \in 1..n
          BY <1>1, <4>3
        <5>2. s[y - 1] = o[y]
          BY <2>3, <5>1
        <5> QED BY <2>3, <5>1, <5>2 DEF ToSet
      <4> QED BY <1>1, <4>1, <4>2, <4>3
    <3>3. i \in ToSet(o)
      BY <1>1, <1>4 DEF ToSet
    <3>4. ToSet(s) \subseteq ToSet(o)
      BY <2>3, <3>1 DEF ToSet
    <3>5. ToSet(o) \subseteq ToSet(s)
      BY <1>1, <3>2 DEF ToSet
    <3> QED BY <3>3, <3>4, <3>5
  <2>8. ASSUME NEW E, Closed(o, E) PROVE Closed(s, E \cup {i})
    <3> SUFFICES ASSUME NEW x \in 1..n, NEW y \in 1..n, x < y, s[x] \in E \cup {i}
                 PROVE  s[y] \in E \cup {i}
      BY <2>3 DEF Closed
    <3>1. x \in 1..(n - 1) /\ x \in 1..n /\ x + 1 \in 1..n
      BY <1>1
    <3>2. s[x] \in E
      BY <2>5, <3>1
    <3>3. CASE y = n
      BY <2>3, <3>3
    <3>4. CASE y \in 1..(n - 1)
      <4> DEFINE z(u) == IF u < p THEN u ELSE u + 1
      <4>1. z(x) \in 1..n /\ z(y) \in 1..n /\ z(x) < z(y)
        BY <1>1, <3>1, <3>4
      <4>2. s[x] = o[z(x)] /\ s[y] = o[z(y)]
        BY <2>3, <3>1, <3>4
      <4> HIDE DEF z
      <4> QED BY <2>8, <3>2, <4>1, <4>2 DEF Closed, n
    <3> QED BY <2>4, <3>3, <3>4
  <2> QED BY <2>3, <2>6, <2>7, <2>8
<1> QED BY <1>3, <1>4

\* Fewer areas than entries, all closed under use, leave one to take.
LEMMA VictimElse ==
    ASSUME NEW N \in Nat, NEW o \in Seq(1..N), NEW E, NEW S, IsFiniteSet(S), Cardinality(S) < N,
           NEW f, \A i \in E : f[i] \in S, \A i, j \in E : f[i] = f[j] => i = j,
           Closed(o, E), E \subseteq ToSet(o), E \subseteq 1..N
    PROVE  LET free == 1..N \ ToSet(o)
               i == IF free # {} THEN CHOOSE x \in free : \A j \in free : j <= x ELSE Head(o)
           IN  i \in 1..N /\ i \notin E
<1> DEFINE free == 1..N \ ToSet(o)
<1>1. CASE free # {}
  <2>1. free \in SUBSET (1..N)
    OBVIOUS
  <2>2. Max(free) \in free /\ \A y \in free : Max(free) >= y
    BY <1>1, <2>1, Greatest
  <2> DEFINE i == CHOOSE x \in free : \A j \in free : j <= x
  <2>3. \E x \in free : \A j \in free : j <= x
    <3>1. \A j \in free : j <= Max(free)
      BY <2>1, <2>2
    <3> QED BY <2>2, <3>1
  <2>4. i \in free
    BY <2>3
  <2> QED BY <1>1, <2>4
<1>2. CASE free = {}
  <2>1. 1..N \subseteq ToSet(o)
    BY <1>2
  <2>2. Len(o) \in Nat /\ DOMAIN o = 1..Len(o)
    OBVIOUS
  <2>3. N # 0
    <3>1. Cardinality(S) \in Nat
      BY FS_CardinalityType
    <3> QED BY <3>1
  <2>4. 1 \in 1..N /\ 1 \in ToSet(o)
    BY <2>1, <2>3
  <2>5. Len(o) >= 1
    BY <2>2, <2>4 DEF ToSet
  <2>6. Head(o) = o[1] /\ o[1] \in 1..N
    BY <2>2, <2>5
  <2>7. ASSUME o[1] \in E PROVE FALSE
    <3>1. \A x \in 1..Len(o) : o[x] \in E
      <4> SUFFICES ASSUME NEW x \in 1..Len(o) PROVE o[x] \in E
        OBVIOUS
      <4>1. 1 \in 1..Len(o) /\ (x = 1 \/ 1 < x)
        BY <2>2, <2>5
      <4> QED BY <2>7, <4>1 DEF Closed
    <3>2. \A i \in 1..N : i \in E
      BY <2>1, <2>2, <3>1 DEF ToSet
    <3> DEFINE g == [i \in 1..N |-> f[i]]
    <3>3. g \in Injection(1..N, S)
      <4>1. g \in [1..N -> S]
        BY <3>2
      <4>2. \A i, j \in DOMAIN g : g[i] = g[j] => i = j
        BY <3>2
      <4> QED BY <4>1, <4>2 DEF Injection, IsInjective
    <3> HIDE DEF g
    <3>5. IsFiniteSet(1..N) /\ Cardinality(1..N) = N
      BY FS_Interval
    <3>6. Cardinality(1..N) <= Cardinality(S)
      BY <3>3, FS_Injection
    <3>7. Cardinality(S) \in Nat
      BY FS_CardinalityType
    <3> QED BY <3>5, <3>6, <3>7
  <2> QED BY <1>2, <2>6, <2>7
<1> QED BY <1>1, <1>2

-----------------------------------------------------------------------------
(* Validating textures and palettes. *)

\* One entry, one order or one top is changed.
Put(f, k, x) == [f EXCEPT ![k] = x]

\* An entry of the cache is replaced.
LEMMA CachePut ==
    ASSUME NEW c \in Caches, NEW k \in Kinds, NEW i \in 1..Slots[k], NEW e \in Entries
    PROVE  /\ Put(c, k, Put(c[k], i, e)) \in Caches
           /\ Put(c, k, Put(c[k], i, e))[k][i] = e
           /\ \A j \in 1..Slots[k] : j # i => Put(c, k, Put(c[k], i, e))[k][j] = c[k][j]
           /\ \A l \in Kinds : l # k => Put(c, k, Put(c[k], i, e))[l] = c[l]
<1> DEFINE r == [c[k] EXCEPT ![i] = e]
           d == [c EXCEPT ![k] = r]
           U == UNION {[1..Slots[l] -> Entries] : l \in Kinds}
<1>1. c \in [Kinds -> U] /\ \A l \in Kinds : c[l] \in [1..Slots[l] -> Entries]
  BY DEF Caches
<1>2. /\ r \in [1..Slots[k] -> Entries]
      /\ r[i] = e /\ \A j \in 1..Slots[k] : j # i => r[j] = c[k][j]
  <2>1. c[k] \in [1..Slots[k] -> Entries]
    BY <1>1
  <2> QED BY <2>1
<1>3. r \in U
  BY <1>2
<1>0. d = Put(c, k, Put(c[k], i, e))
  BY DEF Put
<1> HIDE DEF r, U
<1>4. d \in [Kinds -> U] /\ d[k] = r /\ \A l \in Kinds : l # k => d[l] = c[l]
  BY <1>1, <1>3
<1> HIDE DEF d
<1>5. \A l \in Kinds : d[l] \in [1..Slots[l] -> Entries]
  BY <1>1, <1>2, <1>4
<1>6. d \in Caches
  BY <1>4, <1>5 DEF Caches, U
<1> QED BY <1>0, <1>2, <1>4, <1>6

\* The order of use of a kind is replaced.
LEMMA OrderPut ==
    ASSUME NEW o \in Orders, NEW k \in Kinds, NEW s \in Seq(1..Slots[k])
    PROVE  /\ Put(o, k, s) \in Orders
           /\ Put(o, k, s)[k] = s
           /\ \A l \in Kinds : l # k => Put(o, k, s)[l] = o[l]
<1> USE DEF Put
<1>1. o \in [Kinds -> Seq(Nat)] /\ \A l \in Kinds : o[l] \in Seq(1..Slots[l])
  BY DEF Orders
<1>2. s \in Seq(Nat)
  <2>1. \A x \in 1..Slots[k] : x \in Nat
    BY ResidentAssumption
  <2> QED BY <2>1, SeqMonotonic
<1>3. [o EXCEPT ![k] = s] \in [Kinds -> Seq(Nat)]
  BY <1>1, <1>2
<1> QED BY <1>1, <1>3 DEF Orders

\* The top of an arena is moved.
LEMMA TopPut ==
    ASSUME NEW t \in Tops, NEW k \in Kinds, NEW n \in Nat, n <= ArenaSize[k]
    PROVE  /\ Put(t, k, n) \in Tops
           /\ Put(t, k, n)[k] = n
           /\ \A l \in Kinds : l # k => Put(t, k, n)[l] = t[l]
<1> USE DEF Put
<1>1. t \in [Kinds -> Nat] /\ \A l \in Kinds : t[l] <= ArenaSize[l]
  BY DEF Tops
<1>2. [t EXCEPT ![k] = n] \in [Kinds -> Nat]
  BY <1>1
<1> QED BY <1>1, <1>2 DEF Tops

\* Nothing else changes with the arenas when the waiting packets sample the same.
Arenas(v, w) ==
    w = [v EXCEPT !.cache = w.cache, !.order = w.order, !.top = w.top, !.staging = w.staging]

\* So what there is stays, and with it the limits of the queue.
LEMMA Rearranged ==
    ASSUME NEW v \in Renderers, DrawGood(v), NEW w \in Renderers, Arenas(v, w),
           \/ w.staging = v.staging
           \/ \A j \in Waiting(v) : Sampled(w, v.packets[j]) = Sampled(v, v.packets[j])
    PROVE  /\ DrawGood(w) /\ Present(w) = Present(v) /\ TotalMemory(w) = TotalMemory(v)
           /\ Waiting(w) = Waiting(v) /\ Targets(w) = Targets(v)
           /\ w.memory = v.memory /\ w.packets = v.packets /\ w.ok = v.ok /\ w.cow = v.cow
           /\ w.recording = v.recording
<1>9. /\ w.commands = v.commands /\ w.planes = v.planes /\ w.efb = v.efb /\ w.soft = v.soft
      /\ w.readback = v.readback /\ w.used = v.used /\ w.jobs = v.jobs
      /\ w.packets = v.packets /\ w.memory = v.memory
      /\ w.recording = v.recording /\ w.valid = v.valid /\ w.xfb = v.xfb /\ w.tex = v.tex
      /\ w.ok = v.ok /\ w.cow = v.cow
  BY DEF Renderers, Arenas
<1>10. SameQueue(v, w)
  <2>1. CASE w.staging = v.staging
    <3>1. \A packet : Sampled(w, packet) = Sampled(v, packet)
      BY <2>1 DEF Sampled
    <3> QED BY <1>9, <3>1 DEF SameQueue
  <2>2. CASE \A j \in Waiting(v) : Sampled(w, v.packets[j]) = Sampled(v, v.packets[j])
    BY <1>9, <2>2 DEF SameQueue
  <2> QED BY <2>1, <2>2
<1>11. TotalEfb(w) = TotalEfb(v) /\ TotalBack(w) = TotalBack(v) /\ Waiting(w) = Waiting(v)
  BY <1>10, SameRecorded
<1>12. DrawGood(w)
  BY <1>9, SameGood
<1>13. Present(w) = Present(v) /\ Targets(w) = Targets(v) /\ TotalMemory(w) = TotalMemory(v)
  BY <1>9, <1>11 DEF Present, Targets, TotalMemory
<1> QED BY <1>9, <1>11, <1>12, <1>13

\* An entry stays good with its place and its bytes.
LEMMA EntrySame ==
    ASSUME NEW v, NEW w, NEW k, NEW i, EntryGood(v, k, i),
           w.cache[k][i] = v.cache[k][i], ToSet(v.order[k]) \subseteq ToSet(w.order[k]),
           w.top[k] = v.top[k], w.staging[k] = v.staging[k]
    PROVE  EntryGood(w, k, i)
BY DEF EntryGood, Staged

\* The entry of an area holds what memory holds, and nothing will be copied there.
Holds(v, a) ==
    /\ a \notin Targets(v)
    /\ \E i \in 1..Slots[Kind(a)] :
          v.cache[Kind(a)][i].area = a /\ v.cache[Kind(a)][i].bytes = v.memory[a]

\* The entries of S are the ones used last.
Of(v, k, S) == {i \in 1..Slots[k] : v.cache[k][i].area \in S}
Recent(v, S) == \A k \in Kinds : Closed(v.order[k], Of(v, k, S))

\* Area is a set of areas with a kind each.
LEMMA AreaKind ==
    ASSUME NEW a \in Area
    PROVE  /\ Kind(a) \in Kinds /\ a # NoArea
           /\ Length[a] \in Nat \ {0} /\ Slots[Kind(a)] \in Nat /\ ArenaSize[Kind(a)] \in Nat
<1>1. a \in Cells \cup Palettes
  BY DEF Area
<1>2. Kind(a) \in Kinds
  BY DEF Kind, Kinds
<1> QED BY <1>1, <1>2, ResidentAssumption, AreasAssumption

\* The entry that validate_texture_binding or validate_tlut_binding leaves.
Taken(v, k, i, a) ==
    LET e == v.cache[k][i]
    IN  IF e.area = a /\ e.bytes = v.memory[a] THEN e
        ELSE [e EXCEPT !.area = a, !.bytes = v.memory[a], !.dirty = TRUE]

TakenOver(v, k, i, a) == [Stamped(v, k, i) EXCEPT !.cache[k][i] = Taken(v, k, i, a)]

\* It is one that the areas of S can spare.
Takes(v, a, i, S) ==
    /\ Good(v) /\ a \notin Targets(v)
    /\ \A j \in 1..Slots[Kind(a)] : v.cache[Kind(a)][j].area = a => j = i
    /\ \A b \in S : Holds(v, b)
    /\ Recent(v, S)
    /\ a \in S \/ v.cache[Kind(a)][i].area \notin S
    /\ a \in S => v.cache[Kind(a)][i].area = a

\* Then they keep theirs, and a has its own.
LEMMA EntryTaken ==
    ASSUME NEW v, NEW a \in Area, NEW S \in SUBSET Area, NEW i \in 1..Slots[Kind(a)],
           Takes(v, a, i, S), NEW w, w = TakenOver(v, Kind(a), i, a)
    PROVE  /\ Onward(v, w) /\ w.ok = v.ok
           /\ \A b \in S \cup {a} : Holds(w, b)
           /\ Recent(w, S \cup {a})
<1> DEFINE k == Kind(a)
           e == v.cache[k][i]
           g == Taken(v, k, i, a)
           s == Append(RemoveFirst(v.order[k], i), i)
           c == Put(v.cache, k, Put(v.cache[k], i, g))
           o == Put(v.order, k, s)
<1>0. /\ k \in Kinds /\ a # NoArea /\ Slots[k] \in Nat
      /\ v \in Renderers /\ DrawGood(v) /\ ArenasGood(v)
      /\ v.cache \in Caches /\ v.order \in Orders /\ v.memory \in [Area -> Picture]
  BY AreaKind DEF Good, Renderers, Takes
<1>21. /\ Good(v) /\ a \notin Targets(v)
       /\ \A j \in 1..Slots[Kind(a)] : v.cache[Kind(a)][j].area = a => j = i
       /\ \A b \in S : Holds(v, b)
       /\ Recent(v, S)
       /\ a \in S \/ v.cache[Kind(a)][i].area \notin S
       /\ a \in S => v.cache[Kind(a)][i].area = a
  BY DEF Takes
<1>1. w = [v EXCEPT !.order = o, !.cache = c]
  BY <1>0 DEF TakenOver, Stamped, Renderers, Put
<1>2. /\ e \in Entries /\ v.order[k] \in Seq(1..Slots[k]) /\ KindGood(v, k)
      /\ IsInjective(v.order[k]) /\ EntryGood(v, k, i)
  <2>1. v.cache[k] \in [1..Slots[k] -> Entries]
    BY <1>0 DEF Caches
  <2>2. v.order[k] \in Seq(1..Slots[k])
    BY <1>0 DEF Orders
  <2> QED BY <1>0, <2>1, <2>2 DEF ArenasGood, KindGood
<1>3. /\ g \in Entries /\ g.area = a /\ g.bytes = v.memory[a]
      /\ g.offset = e.offset /\ g.capacity = e.capacity /\ g.current = e.current
      /\ g.dirty = FALSE => g = e
  <2>1. v.memory[a] \in Picture
    BY <1>0
  <2> HIDE DEF k
  <2> QED BY <1>2, <2>1 DEF Taken, Entries
<1> HIDE DEF g, k
<1>4. /\ s \in Seq(1..Slots[k]) /\ IsInjective(s) /\ ToSet(s) = ToSet(v.order[k]) \cup {i}
      /\ \A E : Closed(v.order[k], E) => Closed(s, E \cup {i})
  <2> DEFINE N == Slots[k]
             q == v.order[k]
  <2>1. N \in Nat /\ q \in Seq(1..N) /\ IsInjective(q) /\ i \in 1..N
    BY <1>0, <1>2 DEF k
  <2> HIDE DEF N, q
  <2>2. LET t == Append(RemoveFirst(q, i), i) IN
        /\ t \in Seq(1..N) /\ IsInjective(t) /\ ToSet(t) = ToSet(q) \cup {i}
        /\ \A E : Closed(q, E) => Closed(t, E \cup {i})
    BY <2>1, StampedOrder
  <2> QED BY <2>2 DEF N, q
<1> HIDE DEF s
<1>5. o \in Orders /\ o[k] = s /\ \A l \in Kinds : l # k => o[l] = v.order[l]
  BY <1>0, <1>4, OrderPut
<1>6. /\ c \in Caches
      /\ c[k][i] = g /\ \A j \in 1..Slots[k] : j # i => c[k][j] = v.cache[k][j]
      /\ \A l \in Kinds : l # k => c[l] = v.cache[l]
  <2>1. i \in 1..Slots[k]
    BY DEF k
  <2> QED BY <1>0, <1>3, <2>1, CachePut
<1> HIDE DEF o, c
<1>7. c[k][i] = g /\ \A j \in 1..Slots[k] : j # i => c[k][j] = v.cache[k][j]
  BY <1>6
<1>8. w \in Renderers
  BY <1>0, <1>1, <1>5, <1>6 DEF Renderers
<1>9. Arenas(v, w) /\ w.staging = v.staging /\ w.top = v.top /\ w.order = o /\ w.cache = c
  BY <1>0, <1>1 DEF Renderers, Arenas
<1> HIDE DEF e
<1>10. /\ DrawGood(w) /\ Present(w) = Present(v) /\ TotalMemory(w) = TotalMemory(v)
       /\ Waiting(w) = Waiting(v) /\ Targets(w) = Targets(v)
       /\ w.memory = v.memory /\ w.packets = v.packets /\ w.ok = v.ok
  BY <1>0, <1>8, <1>9, Rearranged
<1>14. ASSUME NEW l \in Kinds, NEW j \in 1..Slots[l] PROVE EntryGood(w, l, j)
  <2>1. EntryGood(v, l, j)
    BY <1>0 DEF ArenasGood, KindGood
  <2>2. CASE l # k
    <3>1. w.cache[l][j] = v.cache[l][j] /\ w.order[l] = v.order[l]
      BY <1>5, <1>6, <1>9, <2>2
    <3> QED BY <1>9, <2>1, <3>1, EntrySame
  <2>3. CASE l = k /\ j # i
    <3>1. w.cache[l][j] = v.cache[l][j] /\ ToSet(v.order[l]) \subseteq ToSet(w.order[l])
      BY <1>4, <1>5, <1>7, <1>9, <2>3
    <3> QED BY <1>9, <2>1, <3>1, EntrySame
  <2>4. CASE l = k /\ j = i
    <3>1. w.cache[l][j] = g /\ i \in ToSet(w.order[l])
      BY <1>4, <1>5, <1>7, <1>9, <2>4
    <3>2. v.cache[l][j] = e
      BY <2>4 DEF e
    <3>3. g.current => g.offset + g.capacity <= w.top[l]
      BY <1>3, <1>9, <2>1, <3>2 DEF EntryGood
    <3>4. g.current /\ ~ g.dirty => g.capacity >= Length[g.area] /\ Staged(w, l, g)
      <4>1. CASE g.dirty = FALSE
        <5>1. g = e
          BY <1>3, <4>1
        <5> QED BY <1>9, <2>1, <3>2, <5>1 DEF EntryGood, Staged
      <4>2. g.dirty = FALSE \/ g.dirty = TRUE
        BY <1>3 DEF Entries
      <4> QED BY <4>1, <4>2
    <3>5. g.area = a /\ Kind(g.area) = l
      BY <1>3, <2>4 DEF k
    <3> QED BY <1>0, <2>4, <3>1, <3>3, <3>4, <3>5 DEF EntryGood
  <2> QED BY <2>2, <2>3, <2>4
<1>15. ASSUME NEW l \in Kinds, NEW j \in 1..Slots[l], NEW h \in 1..Slots[l], j # h
       PROVE  Apart(w.cache[l][j], w.cache[l][h])
  <2>1. Apart(v.cache[l][j], v.cache[l][h])
    BY <1>0, <1>15 DEF ArenasGood, KindGood
  <2>2. CASE l # k
    BY <1>6, <1>9, <2>1, <2>2
  <2>3. CASE l = k /\ j # i /\ h # i
    BY <1>7, <1>9, <2>1, <2>3
  <2>4. CASE l = k /\ j = i
    <3>1. w.cache[l][j] = g /\ w.cache[l][h] = v.cache[l][h] /\ v.cache[l][j] = e
      BY <1>7, <1>9, <1>15, <2>4 DEF e
    <3>2. v.cache[l][h].area # a
      BY <1>21, <1>15, <2>4 DEF k
    <3> QED BY <1>3, <2>1, <3>1, <3>2 DEF Apart
  <2>5. CASE l = k /\ h = i
    <3>1. w.cache[l][h] = g /\ w.cache[l][j] = v.cache[l][j] /\ v.cache[l][h] = e
      BY <1>7, <1>9, <1>15, <2>5 DEF e
    <3>2. v.cache[l][j].area # a
      BY <1>21, <1>15, <2>5 DEF k
    <3> QED BY <1>3, <2>1, <3>1, <3>2 DEF Apart
  <2> QED BY <2>2, <2>3, <2>4, <2>5
<1>16. ASSUME NEW l \in Kinds PROVE KindGood(w, l)
  <2>1. IsInjective(w.order[l])
    <3>1. CASE l = k
      BY <1>4, <1>5, <1>9, <3>1
    <3>2. CASE l # k
      BY <1>0, <1>5, <1>9, <3>2 DEF ArenasGood, KindGood
    <3> QED BY <3>1, <3>2
  <2> QED BY <1>14, <1>15, <2>1 DEF KindGood
<1>17. ArenasGood(w)
  <2>1. WaitsGood(w)
    BY <1>0, <1>9, <1>10 DEF ArenasGood, WaitsGood
  <2> QED BY <1>16, <2>1 DEF ArenasGood
<1>18. Onward(v, w)
  BY <1>8, <1>10, <1>17 DEF Onward, Good
<1>19. ASSUME NEW b \in S \cup {a} PROVE Holds(w, b)
  <2>1. CASE b = a
    <3>1. w.cache[Kind(b)][i].area = b /\ w.cache[Kind(b)][i].bytes = w.memory[b]
      BY <1>3, <1>7, <1>9, <1>10, <2>1 DEF k
    <3>2. b \notin Targets(w) /\ i \in 1..Slots[Kind(b)]
      BY <1>21, <1>10, <2>1
    <3> QED BY <3>1, <3>2 DEF Holds
  <2>2. CASE b # a
    <3>1. Holds(v, b) /\ b \in Area /\ Kind(b) \in Kinds
      BY <1>21, <2>2, AreaKind
    <3>2. PICK j \in 1..Slots[Kind(b)] :
              v.cache[Kind(b)][j].area = b /\ v.cache[Kind(b)][j].bytes = v.memory[b]
      BY <3>1 DEF Holds
    <3>3. w.cache[Kind(b)][j] = v.cache[Kind(b)][j]
      <4>1. CASE Kind(b) # k
        BY <1>6, <1>9, <3>1, <4>1
      <4>2. CASE Kind(b) = k /\ j # i
        BY <1>7, <1>9, <4>2
      <4>3. CASE Kind(b) = k /\ j = i
        <5>1. v.cache[Kind(a)][i].area = b /\ b \in S
          BY <2>2, <3>2, <4>3 DEF k
        <5> QED BY <1>21, <2>2, <5>1
      <4> QED BY <4>1, <4>2, <4>3
    <3>4. b \notin Targets(w)
      BY <1>10, <3>1 DEF Holds
    <3> QED BY <1>10, <3>2, <3>3, <3>4 DEF Holds
  <2> QED BY <2>1, <2>2
<1>20. ASSUME NEW l \in Kinds PROVE Closed(w.order[l], Of(w, l, S \cup {a}))
  <2>1. Closed(v.order[l], Of(v, l, S))
    BY <1>21 DEF Recent
  <2>2. CASE l = k
    <3>1. Of(w, k, S \cup {a}) = Of(v, k, S) \cup {i}
      <4>1. i \in Of(w, k, S \cup {a}) /\ i \in 1..Slots[k]
        BY <1>3, <1>7, <1>9 DEF Of, k
      <4>2. ASSUME NEW j \in 1..Slots[k], j # i
            PROVE  j \in Of(w, k, S \cup {a}) <=> j \in Of(v, k, S)
        <5>1. w.cache[k][j] = v.cache[k][j] /\ v.cache[k][j].area # a
          BY <1>21, <1>7, <1>9, <4>2 DEF k
        <5> QED BY <5>1 DEF Of
      <4>3. Of(w, k, S \cup {a}) \subseteq 1..Slots[k] /\ Of(v, k, S) \subseteq 1..Slots[k]
        BY DEF Of
      <4> QED BY <4>1, <4>2, <4>3
    <3>2. Closed(v.order[k], Of(v, k, S))
      BY <2>1, <2>2
    <3>3. Closed(s, Of(v, k, S) \cup {i})
      BY <1>4, <3>2
    <3> QED BY <1>5, <1>9, <2>2, <3>1, <3>3
  <2>3. CASE l # k
    <3>1. w.cache[l] = v.cache[l] /\ w.order[l] = v.order[l]
      BY <1>5, <1>6, <1>9, <2>3
    <3>2. Of(w, l, S \cup {a}) = Of(v, l, S)
      <4>1. ASSUME NEW j \in 1..Slots[l] PROVE v.cache[l][j].area # a
        <5>1. EntryGood(v, l, j)
          BY <1>0 DEF ArenasGood, KindGood
        <5> QED BY <1>0, <2>3, <5>1 DEF EntryGood, k
      <4> QED BY <3>1, <4>1 DEF Of
    <3> QED BY <2>1, <3>1, <3>2
  <2> QED BY <2>2, <2>3
<1> QED BY <1>10, <1>18, <1>19, <1>20 DEF Recent

\* What holds still holds with the same entries.
LEMMA HoldsStill ==
    ASSUME NEW v, NEW w, Onward(v, w), w.cache = v.cache, NEW a \in Area, Holds(v, a)
    PROVE  Holds(w, a)
BY DEF Holds, Onward

\* Copies go to cells.
LEMMA TargetsType ==
    ASSUME NEW v \in Renderers
    PROVE  Targets(v) \subseteq Cells
<1>1. v.xfb \in Seq(XfbCells) /\ v.tex \in Seq(TexCells)
  BY DEF Renderers
<1>2. ToSet(v.xfb) \subseteq XfbCells /\ ToSet(v.tex) \subseteq TexCells
  BY <1>1 DEF ToSet
<1> QED BY <1>2, TargetsAssumption DEF Targets

\* validate_texture_binding, validate_tlut_binding.
LEMMA ValidatedIs ==
    ASSUME NEW v, Good(v), NEW a \in Area,
           NEW S \in SUBSET Area, \A b \in S : Holds(v, b), Recent(v, S), IsFiniteSet(S),
           a \notin S => Cardinality({b \in S : Kind(b) = Kind(a)}) < Slots[Kind(a)]
    PROVE  LET w == Validated(v, a) IN
           /\ Onward(v, w) /\ w.ok = v.ok
           /\ \A b \in S \cup {a} : Holds(w, b)
           /\ Recent(w, S \cup {a})
<1> DEFINE w == IF Kind(a) = "texture" /\ PendingOverlap(v, a) THEN Submitted(v) ELSE v
           k == Kind(a)
           i == IF EntryOf(w, a) # {} THEN CHOOSE j \in EntryOf(w, a) : TRUE ELSE Victim(w, k)
           y == TakenOver(w, k, i, a)
<1>0. k \in Kinds /\ a # NoArea /\ Slots[k] \in Nat
  BY AreaKind
<1>1. Validated(v, a) = y
  BY DEF Validated, TakenOver, Taken
<1>2. /\ Onward(v, w) /\ w.cache = v.cache /\ w.order = v.order /\ w.ok = v.ok
      /\ a \notin Targets(w)
  <2>1. CASE Kind(a) = "texture" /\ PendingOverlap(v, a)
    <3>1. w = Submitted(v)
      BY <2>1
    <3>2. Later(v, w) /\ Idle(w)
      BY <3>1, SubmittedLater DEF Good
    <3>3. Targets(w) = {}
      BY <3>2 DEF Idle, Targets, ToSet
    <3> QED BY <3>2, <3>3, OnwardLater DEF Later, SameArenas
  <2>2. CASE Kind(a) # "texture"
    <3>1. a \notin Cells
      BY <2>2 DEF Kind
    <3>2. w = v /\ a \notin Targets(v)
      BY <2>2, <3>1, TargetsType DEF Good
    <3> QED BY <3>2 DEF Onward
  <2>3. CASE ~ PendingOverlap(v, a)
    <3>1. w = v /\ a \notin Targets(v)
      BY <2>3 DEF PendingOverlap, Targets
    <3> QED BY <3>1 DEF Onward
  <2> QED BY <2>1, <2>2, <2>3
<1> HIDE DEF w
<1>3. Good(w) /\ w \in Renderers /\ KindGood(w, k)
  BY <1>0, <1>2 DEF Onward, Good, ArenasGood
<1>4. \A b \in S : Holds(w, b)
  BY <1>2, HoldsStill
<1>5. Recent(w, S)
  BY <1>2 DEF Recent, Of
<1>6. EntryOf(w, a) = {j \in 1..Slots[k] : w.cache[k][j].area = a}
  BY DEF EntryOf
<1>7. /\ i \in 1..Slots[k]
      /\ \A j \in 1..Slots[k] : w.cache[k][j].area = a => j = i
      /\ a \in S \/ w.cache[k][i].area \notin S
      /\ a \in S => w.cache[k][i].area = a
  <2>1. CASE EntryOf(w, a) # {}
    <3>1. i \in EntryOf(w, a)
      BY <2>1
    <3> HIDE DEF i
    <3>2. i \in 1..Slots[k] /\ w.cache[k][i].area = a
      BY <1>6, <3>1
    <3>3. ASSUME NEW j \in 1..Slots[k], w.cache[k][j].area = a PROVE j = i
      BY <1>0, <1>3, <3>2, <3>3 DEF KindGood, Apart
    <3> QED BY <3>2, <3>3
  <2>2. CASE EntryOf(w, a) = {}
    <3>1. \A j \in 1..Slots[k] : w.cache[k][j].area # a
      BY <1>6, <2>2
    <3>2. a \notin S
      BY <1>4, <3>1 DEF Holds
    <3>3. i = Victim(w, k)
      BY <2>2
    <3> DEFINE N == Slots[k]
               o == w.order[k]
               E == Of(w, k, S)
               R == {b \in S : Kind(b) = k}
               f == [j \in 1..N |-> w.cache[k][j].area]
               free == 1..N \ ToSet(o)
    <3>4. i = IF free # {} THEN CHOOSE x \in free : \A j \in free : j <= x ELSE Head(o)
      BY <3>3 DEF Victim
    <3> HIDE DEF i
    <3>5. N \in Nat /\ o \in Seq(1..N)
      <4>1. w.order \in Orders
        BY <1>3 DEF Renderers
      <4> QED BY <1>0, <4>1 DEF Orders
    <3>6. IsFiniteSet(R) /\ Cardinality(R) < N
      <4>1. R \in SUBSET S
        OBVIOUS
      <4> QED BY <3>2, <4>1, FS_Subset
    <3>7. \A j \in E : f[j] \in R
      <4> SUFFICES ASSUME NEW j \in E PROVE f[j] \in R
        OBVIOUS
      <4>1. j \in 1..N /\ w.cache[k][j].area \in S /\ EntryGood(w, k, j)
        BY <1>3 DEF Of, KindGood
      <4>2. w.cache[k][j].area # NoArea
        BY <4>1, AreaKind
      <4> QED BY <4>1, <4>2 DEF EntryGood
    <3>8. ASSUME NEW j \in E, NEW h \in E, f[j] = f[h] PROVE j = h
      <4>1. j \in 1..N /\ h \in 1..N /\ w.cache[k][j].area \in S
            /\ w.cache[k][j].area = w.cache[k][h].area
        BY <3>8 DEF Of
      <4>2. w.cache[k][j].area # NoArea
        BY <4>1, AreaKind
      <4> QED BY <1>3, <4>1, <4>2 DEF KindGood, Apart
    <3>9. Closed(o, E) /\ E \subseteq 1..N
      BY <1>0, <1>5 DEF Recent, Of
    <3>10. E \subseteq ToSet(o)
      <4> SUFFICES ASSUME NEW j \in E PROVE j \in ToSet(o)
        OBVIOUS
      <4>1. j \in 1..N /\ w.cache[k][j].area \in S /\ EntryGood(w, k, j)
        BY <1>3 DEF Of, KindGood
      <4>2. w.cache[k][j].area # NoArea
        BY <4>1, AreaKind
      <4> QED BY <4>1, <4>2 DEF EntryGood
    <3> HIDE DEF N, o, E, R, f
    <3>11. i \in 1..N /\ i \notin E
      BY <3>4, <3>5, <3>6, <3>7, <3>8, <3>9, <3>10, VictimElse
    <3> QED BY <3>1, <3>2, <3>11 DEF N, E, Of
  <2> QED BY <2>1, <2>2
<1> HIDE DEF i
<1>9. /\ i \in 1..Slots[Kind(a)]
      /\ \A j \in 1..Slots[Kind(a)] : w.cache[Kind(a)][j].area = a => j = i
      /\ a \in S \/ w.cache[Kind(a)][i].area \notin S
      /\ a \in S => w.cache[Kind(a)][i].area = a
  BY <1>7
<1>10. /\ Onward(w, y) /\ y.ok = w.ok
       /\ \A b \in S \cup {a} : Holds(y, b)
       /\ Recent(y, S \cup {a})
  <2>1. Takes(w, a, i, S)
    BY <1>2, <1>3, <1>4, <1>5, <1>9 DEF Takes
  <2> QED BY <1>9, <2>1, EntryTaken
<1> HIDE DEF y
<1>11. Onward(v, y) /\ y.ok = v.ok
  BY <1>2, <1>10, OnwardStill
<1> QED BY <1>1, <1>10, <1>11

-----------------------------------------------------------------------------
(* The areas of a draw. *)

\* Both orders name the areas of the draw.
LEMMA DrawAreas ==
    ASSUME NEW d \in Draws
    PROVE  /\ Areas(d) \subseteq Area
           /\ UnitOrder(d) \in Seq(Area) /\ ToSet(UnitOrder(d)) = Areas(d)
           /\ Bound(d) \in Seq(Area) /\ ToSet(Bound(d)) = Areas(d)
           /\ IsFiniteSet(Areas(d))
<1> DEFINE Units == [texture : Cells, palette : Palettes \cup {NoPalette}]
           n == Len(d)
<1>1. n \in Nat /\ DOMAIN d = 1..n /\ \A i \in 1..n : d[i] \in Units
  <2>1. d \in Seq(Units)
    BY DrawsAssumption
  <2> HIDE DEF Units
  <2> QED BY <2>1
<1>2. \A i \in 1..n : d[i].texture \in Area /\ (d[i].palette # NoPalette => d[i].palette \in Area)
  BY <1>1 DEF Area
<1>3. Areas(d) \subseteq Area
  BY <1>1, <1>2 DEF Areas
<1> HIDE DEF n
<1>4. UnitOrder(d) \in Seq(Area) /\ ToSet(UnitOrder(d)) = Areas(d)
  <2> DEFINE s == [i \in DOMAIN d |-> IF d[i].palette = NoPalette THEN <<d[i].texture>>
                                      ELSE <<d[i].texture, d[i].palette>>]
  <2>1. s \in Seq(Seq(Area))
    <3>1. \A i \in 1..n : s[i] \in Seq(Area)
      BY <1>1, <1>2
    <3> HIDE DEF s
    <3>2. s = [i \in 1..n |-> s[i]]
      BY <1>1 DEF s
    <3> QED BY <1>1, <3>1, <3>2
  <2>2. UnitOrder(d) = FlattenSeq(s)
    BY DEF UnitOrder
  <2>3. /\ DOMAIN s = 1..n
        /\ \A i \in 1..n : ToSet(s[i]) = {d[i].texture} \cup ({d[i].palette} \ {NoPalette})
    <3>1. ASSUME NEW i \in 1..n
          PROVE ToSet(s[i]) = {d[i].texture} \cup ({d[i].palette} \ {NoPalette})
      <4>1. CASE d[i].palette = NoPalette
        <5>1. s[i] = <<d[i].texture>>
          BY <1>1, <4>1
        <5> DEFINE a == d[i].texture
                   p == d[i].palette
        <5>2. s[i] = <<a>> /\ p = NoPalette
          BY <4>1, <5>1
        <5> HIDE DEF a, p, s
        <5>3. ToSet(<<a>>) = {a}
          BY DEF ToSet
        <5>4. ToSet(s[i]) = {a} \cup ({p} \ {NoPalette})
          BY <5>2, <5>3
        <5> QED BY <5>4 DEF a, p
      <4>2. CASE d[i].palette # NoPalette
        <5>1. s[i] = <<d[i].texture, d[i].palette>>
          BY <1>1, <4>2
        <5>2. DOMAIN <<d[i].texture, d[i].palette>> = {1, 2}
          OBVIOUS
        <5> QED BY <4>2, <5>1, <5>2 DEF ToSet
      <4> QED BY <4>1, <4>2
    <3> QED BY <1>1, <3>1
  <2> HIDE DEF s
  <2>4. FlattenSeq(s) \in Seq(Area) /\ ToSet(FlattenSeq(s)) = UNION {ToSet(s[i]) : i \in 1..n}
    BY <2>1, <2>3, Flatten
  <2>5. UNION {ToSet(s[i]) : i \in 1..n} = Areas(d)
    BY <1>1, <2>3 DEF Areas
  <2> QED BY <2>2, <2>4, <2>5
<1>5. Bound(d) \in Seq(Area) /\ ToSet(Bound(d)) = Areas(d)
  <2> DEFINE t == [i \in DOMAIN d |-> d[i].texture]
             s == [i \in DOMAIN d |-> IF d[i].palette = NoPalette THEN <<>>
                                              ELSE <<d[i].palette>>]
             p == FlattenSeq(s)
  <2>1. s \in Seq(Seq(Area))
    <3>1. \A i \in 1..n : s[i] \in Seq(Area)
      BY <1>1, <1>2
    <3> HIDE DEF s
    <3>2. s = [i \in 1..n |-> s[i]]
      BY <1>1 DEF s
    <3> QED BY <1>1, <3>1, <3>2
  <2>2. Bound(d) = t \o p
    BY DEF Bound
  <2>3. DOMAIN s = 1..n /\ \A i \in 1..n : ToSet(s[i]) = {d[i].palette} \ {NoPalette}
    <3>1. ASSUME NEW i \in 1..n PROVE ToSet(s[i]) = {d[i].palette} \ {NoPalette}
      <4>1. CASE d[i].palette = NoPalette
        <5>1. s[i] = <<>> /\ DOMAIN <<>> = {}
          BY <1>1, <4>1
        <5> QED BY <4>1, <5>1 DEF ToSet
      <4>2. CASE d[i].palette # NoPalette
        <5>1. s[i] = <<d[i].palette>>
          BY <1>1, <4>2
        <5> QED BY <4>2, <5>1 DEF ToSet
      <4> QED BY <4>1, <4>2
    <3> QED BY <1>1, <3>1
  <2> HIDE DEF s
  <2>4. p \in Seq(Area) /\ ToSet(p) = UNION {ToSet(s[i]) : i \in 1..n}
    BY <2>1, <2>3, Flatten
  <2> HIDE DEF p
  <2>5. t \in Seq(Area) /\ ToSet(t) = {d[i].texture : i \in 1..n}
    BY <1>1, <1>2 DEF ToSet
  <2> HIDE DEF t
  <2>6. t \o p \in Seq(Area) /\ ToSet(t \o p) = ToSet(t) \cup ToSet(p)
    <3>1. /\ t \o p \in Seq(Area) /\ Len(t \o p) = Len(t) + Len(p)
          /\ \A i \in 1..(Len(t) + Len(p)) :
                (t \o p)[i] = IF i <= Len(t) THEN t[i] ELSE p[i - Len(t)]
      BY <2>4, <2>5, ConcatProperties
    <3>2. Len(t) \in Nat /\ Len(p) \in Nat /\ DOMAIN t = 1..Len(t) /\ DOMAIN p = 1..Len(p)
          /\ DOMAIN (t \o p) = 1..(Len(t) + Len(p))
      BY <2>4, <2>5, <3>1
    <3>3. ASSUME NEW i \in 1..(Len(t) + Len(p)) PROVE (t \o p)[i] \in ToSet(t) \cup ToSet(p)
      <4>1. CASE i <= Len(t)
        <5>1. i \in 1..Len(t) /\ (t \o p)[i] = t[i]
          BY <3>1, <3>2, <4>1
        <5> QED BY <3>2, <5>1 DEF ToSet
      <4>2. CASE ~(i <= Len(t))
        <5>1. i - Len(t) \in 1..Len(p) /\ (t \o p)[i] = p[i - Len(t)]
          BY <3>1, <3>2, <4>2
        <5> QED BY <3>2, <5>1 DEF ToSet
      <4> QED BY <4>1, <4>2
    <3>4. ASSUME NEW i \in 1..Len(t) PROVE t[i] \in ToSet(t \o p)
      <4>1. i \in 1..(Len(t) + Len(p)) /\ (t \o p)[i] = t[i]
        BY <3>1, <3>2
      <4> QED BY <3>2, <4>1 DEF ToSet
    <3>5. ASSUME NEW i \in 1..Len(p) PROVE p[i] \in ToSet(t \o p)
      <4>1. /\ i + Len(t) \in 1..(Len(t) + Len(p)) /\ ~(i + Len(t) <= Len(t))
            /\ (i + Len(t)) - Len(t) = i
        BY <3>2
      <4>2. (t \o p)[i + Len(t)] = p[i]
        BY <3>1, <4>1
      <4> QED BY <3>2, <4>1, <4>2 DEF ToSet
    <3>6. ToSet(t \o p) \subseteq ToSet(t) \cup ToSet(p)
      BY <3>2, <3>3 DEF ToSet
    <3>7. ToSet(t) \subseteq ToSet(t \o p) /\ ToSet(p) \subseteq ToSet(t \o p)
      <4>1. \A x \in ToSet(t) : \E i \in 1..Len(t) : x = t[i]
        BY <3>2 DEF ToSet
      <4>2. \A x \in ToSet(p) : \E i \in 1..Len(p) : x = p[i]
        BY <3>2 DEF ToSet
      <4> QED BY <3>4, <3>5, <4>1, <4>2
    <3> QED BY <3>1, <3>6, <3>7
  <2>7. ToSet(t) \cup ToSet(p) = Areas(d)
    BY <1>1, <2>3, <2>4, <2>5 DEF Areas
  <2> QED BY <2>2, <2>6, <2>7
<1>6. IsFiniteSet(Areas(d))
  <2> DEFINE s == Bound(d)
             g == [i \in 1..Len(s) |-> s[i]]
  <2>1. Len(s) \in Nat /\ DOMAIN s = 1..Len(s)
    BY <1>5
  <2>2. g \in Surjection(1..Len(s), ToSet(s))
    <3>1. g \in [1..Len(s) -> ToSet(s)]
      BY <2>1 DEF ToSet
    <3>2. \A x \in ToSet(s) : \E i \in 1..Len(s) : g[i] = x
      BY <2>1 DEF ToSet
    <3> QED BY <3>1, <3>2 DEF Surjection
  <2>3. IsFiniteSet(1..Len(s))
    BY <2>1, FS_Interval
  <2> HIDE DEF g, s
  <2>4. IsFiniteSet(ToSet(s))
    BY <2>2, <2>3, FS_Surjection
  <2> QED BY <1>5, <2>4 DEF s
<1> QED BY <1>3, <1>4, <1>5, <1>6

\* Fewer areas of a draw than entries of a kind, when one is left out.
LEMMA Room ==
    ASSUME NEW d \in Draws, NEW a \in Areas(d), NEW S \in SUBSET Areas(d), a \notin S
    PROVE  IsFiniteSet(S) /\ Cardinality({b \in S : Kind(b) = Kind(a)}) < Slots[Kind(a)]
<1> DEFINE k == Kind(a)
           all == {b \in Areas(d) : Kind(b) = k}
           some == {b \in S : Kind(b) = k}
<1>1. IsFiniteSet(Areas(d)) /\ k \in Kinds /\ Slots[k] \in Nat /\ Areas(d) \subseteq Area
  BY DrawAreas, AreaKind
<1>2. all \in SUBSET Areas(d) /\ a \in all /\ S \in SUBSET Areas(d)
  OBVIOUS
<1>3. IsFiniteSet(all) /\ IsFiniteSet(S)
  <2> HIDE DEF all
  <2> QED BY <1>1, <1>2, FS_Subset
<1>4. Slots[k] >= Cardinality(all)
  BY <1>1, CacheAssumption
<1>5. some \in SUBSET (all \ {a})
  OBVIOUS
<1> HIDE DEF all, some, k
<1>6. IsFiniteSet(all \ {a}) /\ Cardinality(all \ {a}) = Cardinality(all) - 1
  BY <1>2, <1>3, FS_RemoveElement
<1>7. IsFiniteSet(some) /\ Cardinality(some) <= Cardinality(all \ {a})
  BY <1>5, <1>6, FS_Subset
<1>8. Cardinality(all) \in Nat /\ Cardinality(some) \in Nat
  BY <1>3, <1>7, FS_CardinalityType
<1>9. Cardinality(some) < Slots[k]
  BY <1>1, <1>4, <1>6, <1>7, <1>8
<1> QED BY <1>3, <1>9 DEF some, k

\* validate_draw_textures: in the end every area of the draw has its entry.
LEMMA DrawValidatedIs ==
    ASSUME NEW v, Good(v), NEW d \in Draws
    PROVE  LET w == DrawValidated(v, d) IN
           /\ Onward(v, w) /\ w.ok = v.ok
           /\ \A a \in Areas(d) : Holds(w, a)
<1> DEFINE seq == UnitOrder(d)
           n == Len(seq)
           X == {w \in Renderers : Onward(v, w) /\ w.ok = v.ok}
           f == [i \in 1..n |-> [x \in X |-> Validated(x, seq[i])]]
           Folds(it) == it = [s \in SUBSET DOMAIN seq |->
                                  IF s = {} THEN v
                                  ELSE Validated(it[s \ {Max(s)}], seq[Max(s)])]
<1>0. seq \in Seq(Area) /\ ToSet(seq) = Areas(d) /\ Areas(d) \subseteq Area
  BY DrawAreas
<1>1. DrawValidated(v, d) = (CHOOSE it : Folds(it))[DOMAIN seq]
  BY DEF DrawValidated, FoldLeft, MapThenFoldSet
<1> HIDE DEF seq
<1>2. n \in Nat /\ DOMAIN seq = 1..n /\ \A i \in 1..n : seq[i] \in Areas(d) /\ seq[i] \in Area
  <2>1. n \in Nat /\ DOMAIN seq = 1..n
    BY <1>0
  <2> QED BY <1>0, <2>1 DEF ToSet
<1> HIDE DEF n
<1>3. ASSUME NEW x \in X, NEW i \in 1..n, NEW S \in SUBSET Areas(d),
             \A b \in S : Holds(x, b), Recent(x, S)
      PROVE  /\ Validated(x, seq[i]) \in X
             /\ \A b \in S \cup {seq[i]} : Holds(Validated(x, seq[i]), b)
             /\ Recent(Validated(x, seq[i]), S \cup {seq[i]})
  <2>1. Good(x) /\ Onward(v, x) /\ x.ok = v.ok
    BY DEF Onward
  <2>2. S \in SUBSET Area /\ IsFiniteSet(S)
    <3>1. IsFiniteSet(Areas(d))
      BY DrawAreas
    <3> QED BY <1>0, <3>1, FS_Subset
  <2>3. seq[i] \notin S => Cardinality({b \in S : Kind(b) = Kind(seq[i])}) < Slots[Kind(seq[i])]
    BY <1>2, Room
  <2> DEFINE w == Validated(x, seq[i])
  <2>4. /\ Onward(x, w) /\ w.ok = x.ok
        /\ \A b \in S \cup {seq[i]} : Holds(w, b)
        /\ Recent(w, S \cup {seq[i]})
    BY <1>2, <1>3, <2>1, <2>2, <2>3, ValidatedIs
  <2> HIDE DEF w
  <2>5. Onward(v, w) /\ w \in Renderers /\ w.ok = v.ok
    BY <2>1, <2>4, OnwardStill DEF Onward, Good
  <2>6. w \in X
    BY <2>5
  <2> HIDE DEF X
  <2> QED BY <2>4, <2>6 DEF w
<1>4. v \in X
  BY DEF Good, Onward
<1>5. \A x \in X, i \in 1..n : Validated(x, seq[i]) \in X
  <2> SUFFICES ASSUME NEW x \in X, NEW i \in 1..n PROVE Validated(x, seq[i]) \in X
    OBVIOUS
  <2>1. {} \in SUBSET Areas(d) /\ (\A b \in {} : Holds(x, b)) /\ Recent(x, {})
    BY DEF Recent, Of, Closed
  <2> HIDE DEF X
  <2> QED BY <1>3, <2>1
<1> HIDE DEF X
<1>6. f \in Steps(n, X)
  BY <1>5 DEF Steps
<1>7. PICK it : Solves(it, n, X, v, f)
  <2> HIDE DEF f
  <2> QED BY <1>2, <1>4, <1>6, FoldExists
<1>8. \A s \in SUBSET (1..n) : s # {} => Max(s) \in 1..n /\ s \ {Max(s)} \in SUBSET (1..n)
  BY <1>2, Greatest
<1>9. \E e : Folds(e)
  <2>1. ASSUME NEW s \in SUBSET (1..n)
        PROVE  it[s] = IF s = {} THEN v ELSE Validated(it[s \ {Max(s)}], seq[Max(s)])
    <3>1. CASE s = {}
      BY <1>7, <3>1 DEF Solves
    <3>2. CASE s # {}
      <4>1. it[s] = f[Max(s)][it[s \ {Max(s)}]] /\ it[s \ {Max(s)}] \in X
        BY <1>7, <1>8, <3>2 DEF Solves
      <4> QED BY <1>8, <3>2, <4>1
    <3> QED BY <3>1, <3>2
  <2>2. it = [s \in SUBSET (1..n) |-> it[s]]
    BY <1>7 DEF Solves
  <2>3. Folds(it)
    BY <1>2, <2>1, <2>2
  <2> QED BY <2>3
<1> DEFINE c == CHOOSE e : Folds(e)
<1>10. Folds(c)
  BY <1>9
<1> HIDE DEF c
<1>11. Follows(c, n, X, v, f)
  <2>1. c[{}] = v
    BY <1>2, <1>10
  <2>2. ASSUME NEW s \in SUBSET (1..n), s # {}, c[s \ {Max(s)}] \in X
        PROVE  c[s] = f[Max(s)][c[s \ {Max(s)}]]
    <3>1. c[s] = Validated(c[s \ {Max(s)}], seq[Max(s)])
      BY <1>2, <1>10, <2>2
    <3>2. Max(s) \in 1..n
      BY <1>8, <2>2
    <3> QED BY <2>2, <3>1, <3>2
  <2> QED BY <2>1, <2>2 DEF Follows
<1>12. PICK h : Trace(h, n, X, v, f) /\ h[n] = c[1..n]
  <2> HIDE DEF f
  <2> QED BY <1>2, <1>4, <1>6, <1>11, FoldTrace
<1>13. DrawValidated(v, d) = h[n]
  BY <1>1, <1>2, <1>12 DEF c
<1> DEFINE S(i) == {seq[j] : j \in 1..i}
           T == {i \in 0..n : (\A b \in S(i) : Holds(h[i], b)) /\ Recent(h[i], S(i))}
<1>14. 0 \in T
  <2>1. S(0) = {} /\ 0 \in 0..n
    BY <1>2
  <2>2. Recent(h[0], {})
    BY DEF Recent, Of, Closed
  <2> QED BY <2>1, <2>2
<1>15. ASSUME NEW i \in 1..n, i - 1 \in T PROVE i \in T
  <2>1. /\ i \in 0..n /\ i - 1 \in 0..n
        /\ S(i) = S(i - 1) \cup {seq[i]} /\ S(i - 1) \in SUBSET Areas(d)
    <3>1. i \in 0..n /\ i - 1 \in 0..n /\ 1..i = (1..(i - 1)) \cup {i} /\ 1..(i - 1) \subseteq 1..n
      BY <1>2
    <3> QED BY <1>2, <3>1
  <2>2. h[i - 1] \in X /\ h[i] = f[i][h[i - 1]]
    BY <1>12, <2>1 DEF Trace
  <2>3. h[i] = Validated(h[i - 1], seq[i])
    BY <2>2
  <2>4. (\A b \in S(i - 1) : Holds(h[i - 1], b)) /\ Recent(h[i - 1], S(i - 1))
    BY <1>15
  <2> HIDE DEF S
  <2>5. (\A b \in S(i) : Holds(h[i], b)) /\ Recent(h[i], S(i))
    BY <1>3, <2>1, <2>2, <2>3, <2>4
  <2> QED BY <2>1, <2>5
<1> HIDE DEF T
<1>16. \A i \in 0..n : i \in T
  BY <1>2, <1>14, <1>15, UpTo
<1>17. n \in 0..n /\ S(n) = Areas(d)
  BY <1>0, <1>2 DEF ToSet
<1>18. \A a \in Areas(d) : Holds(h[n], a)
  BY <1>16, <1>17 DEF T
<1>19. h[n] \in X
  BY <1>12, <1>17 DEF Trace
<1> QED BY <1>13, <1>18, <1>19 DEF X

-----------------------------------------------------------------------------
(* Staging textures and palettes. *)

\* A stretch of an arena is filled.
Filled(s, k, o, n, b) ==
    Put(s, k, [x \in DOMAIN s[k] |-> IF x \in o..(o + n - 1) THEN b ELSE s[k][x]])

\* Inside it is b, outside nothing is changed.
LEMMA FilledIs ==
    ASSUME NEW s \in Stagings, NEW k \in Kinds, NEW o \in Nat, NEW n \in Nat, NEW b \in Picture,
           o + n <= ArenaSize[k]
    PROVE  LET r == Filled(s, k, o, n, b) IN
           /\ r \in Stagings
           /\ \A x \in o..(o + n - 1) : r[k][x] = b
           /\ \A x \in 0..(ArenaSize[k] - 1) : x \notin o..(o + n - 1) => r[k][x] = s[k][x]
           /\ \A l \in Kinds : l # k => r[l] = s[l]
<1> DEFINE r == [x \in DOMAIN s[k] |-> IF x \in o..(o + n - 1) THEN b ELSE s[k][x]]
           d == [s EXCEPT ![k] = r]
           U == UNION {[0..(ArenaSize[l] - 1) -> Picture] : l \in Kinds}
<1>1. s \in [Kinds -> U] /\ \A l \in Kinds : s[l] \in [0..(ArenaSize[l] - 1) -> Picture]
  BY DEF Stagings
<1>2. ArenaSize[k] \in Nat
  BY ResidentAssumption
<1>3. /\ r \in [0..(ArenaSize[k] - 1) -> Picture]
      /\ \A x \in o..(o + n - 1) : r[x] = b
      /\ \A x \in 0..(ArenaSize[k] - 1) : x \notin o..(o + n - 1) => r[x] = s[k][x]
  <2>1. DOMAIN s[k] = 0..(ArenaSize[k] - 1) /\ o..(o + n - 1) \subseteq 0..(ArenaSize[k] - 1)
    BY <1>1, <1>2
  <2> QED BY <1>1, <2>1
<1>4. r \in U
  BY <1>3
<1>5. d = Filled(s, k, o, n, b)
  BY DEF Put, Filled
<1> HIDE DEF r, U
<1>6. d \in [Kinds -> U] /\ d[k] = r /\ \A l \in Kinds : l # k => d[l] = s[l]
  BY <1>1, <1>4
<1> HIDE DEF d
<1>7. \A l \in Kinds : d[l] \in [0..(ArenaSize[l] - 1) -> Picture]
  BY <1>1, <1>3, <1>6
<1>8. d \in Stagings
  BY <1>6, <1>7 DEF Stagings, U
<1> QED BY <1>3, <1>5, <1>6, <1>8

\* A packet samples the same when its stretches are elsewhere.
Elsewhere(packet, k, o) ==
    \A m \in 1..Len(packet) : packet[m].kind = k => packet[m].offset + packet[m].length <= o

\* Filling what is above them does not change what it samples.
LEMMA SampledElsewhere ==
    ASSUME NEW v \in Renderers, NEW w, NEW packet \in Seq(Stretches),
           NEW k \in Kinds, NEW o \in Nat, NEW n \in Nat, NEW b \in Picture,
           o + n <= ArenaSize[k], w.staging = Filled(v.staging, k, o, n, b),
           Elsewhere(packet, k, o)
    PROVE  Sampled(w, packet) = Sampled(v, packet)
<1> DEFINE bytes(u, m) == [x \in 1..packet[m].length |->
                              u.staging[packet[m].kind][packet[m].offset + x - 1]]
<1>1. v.staging \in Stagings
  BY DEF Renderers
<1>2. DOMAIN packet = 1..Len(packet) /\ \A m \in 1..Len(packet) : packet[m] \in Stretches
  OBVIOUS
<1>3. ASSUME NEW m \in 1..Len(packet), NEW x \in 1..packet[m].length
      PROVE  w.staging[packet[m].kind][packet[m].offset + x - 1]
                 = v.staging[packet[m].kind][packet[m].offset + x - 1]
  <2> DEFINE p == packet[m]
             y == p.offset + x - 1
  <2>1. /\ p.kind \in Kinds /\ p.offset \in Nat /\ p.length \in Nat
        /\ p.offset + p.length <= ArenaSize[p.kind]
        /\ p.kind = k => p.offset + p.length <= o
    BY <1>2 DEF Stretches, Elsewhere
  <2>2. ArenaSize[p.kind] \in Nat
    BY <2>1, ResidentAssumption
  <2>3. y \in 0..(ArenaSize[p.kind] - 1) /\ (p.kind = k => y \notin o..(o + n - 1))
    <3>1. x \in 1..p.length
      OBVIOUS
    <3> HIDE DEF p
    <3> DEFINE f == p.offset
               z == p.length
               size == ArenaSize[p.kind]
    <3>2. f \in Nat /\ z \in Nat /\ size \in Nat /\ f + z <= size /\ x \in 1..z
          /\ (p.kind = k => f + z <= o)
      BY <2>1, <2>2, <3>1
    <3>3. y = f + x - 1
      OBVIOUS
    <3> HIDE DEF f, z, size, y
    <3>4. y \in 0..(size - 1)
      BY <3>2, <3>3
    <3>5. p.kind = k => y \notin o..(o + n - 1)
      BY <3>2, <3>3
    <3> QED BY <3>4, <3>5 DEF size
  <2> HIDE DEF p, y
  <2>4. w.staging[p.kind][y] = v.staging[p.kind][y]
    <3>1. CASE p.kind = k
      BY <1>1, <2>3, <3>1, FilledIs
    <3>2. CASE p.kind # k
      BY <1>1, <2>1, <3>2, FilledIs
    <3> QED BY <3>1, <3>2
  <2> QED BY <2>4 DEF p, y
<1>4. \A m \in DOMAIN packet : bytes(w, m) = bytes(v, m)
  BY <1>2, <1>3
<1>5. [m \in DOMAIN packet |-> bytes(w, m)] = [m \in DOMAIN packet |-> bytes(v, m)]
  <2> HIDE DEF bytes
  <2> QED BY <1>4
<1> QED BY <1>5 DEF Sampled

\* The entries keep their areas and bytes, and what is staged of them.
Kept(v, w) ==
    \A k \in Kinds : \A i \in 1..Slots[k] :
        LET e == v.cache[k][i]
            g == w.cache[k][i]
        IN  g.area = e.area /\ g.bytes = e.bytes /\ (g.dirty => e.dirty)

Ahead(v, w) == Onward(v, w) /\ Kept(v, w) /\ (w.ok => v.ok)

\* One call after another.
LEMMA AheadStill ==
    ASSUME NEW v, NEW w, NEW x, Ahead(v, w), Ahead(w, x)
    PROVE  Ahead(v, x)
<1>1. Onward(v, x)
  BY OnwardStill DEF Ahead
<1>2. Kept(v, x)
  BY DEF Ahead, Kept
<1> QED BY <1>1, <1>2 DEF Ahead

\* Submitting, beginning and synchronising leave the entries alone.
LEMMA AheadSame ==
    ASSUME NEW v, NEW w, Good(v), Later(v, w)
    PROVE  Ahead(v, w)
<1>1. Onward(v, w)
  BY OnwardLater
<1> QED BY <1>1 DEF Ahead, Kept, Later, SameArenas

\* An entry that holds the bytes of its area still does.
LEMMA HoldsAhead ==
    ASSUME NEW v, NEW w, Ahead(v, w), NEW a \in Area, Holds(v, a)
    PROVE  Holds(w, a)
<1>1. a \notin Targets(v) /\ a \notin Targets(w) /\ w.memory[a] = v.memory[a]
  BY DEF Ahead, Onward, Holds
<1>2. Kind(a) \in Kinds
  BY AreaKind
<1>3. PICK i \in 1..Slots[Kind(a)] :
          v.cache[Kind(a)][i].area = a /\ v.cache[Kind(a)][i].bytes = v.memory[a]
  BY DEF Holds
<1>4. w.cache[Kind(a)][i].area = a /\ w.cache[Kind(a)][i].bytes = v.memory[a]
  BY <1>2, <1>3 DEF Ahead, Kept
<1> QED BY <1>1, <1>4 DEF Holds

\* The packets that wait are in the draw arena.
LEMMA WaitingType ==
    ASSUME NEW v \in Renderers, DrawGood(v), NEW j \in Waiting(v)
    PROVE  j \in 0..(DrawArena - 1) /\ v.packets[j] \in Seq(Stretches)
<1>1. /\ v.used \in Nat /\ v.jobs \in Nat /\ DrawArena \in Nat /\ v.commands \in Seq(Commands)
      /\ v.used + v.jobs <= DrawArena
  BY Queue
<1>2. j \in 0..(DrawArena - 1)
  <2>1. CASE j \in v.used..(v.used + v.jobs - 1)
    BY <1>1, <2>1
  <2>2. ASSUME NEW m \in 1..Len(v.commands), v.commands[m].op = "dispatch",
               j \in v.commands[m].at..(v.commands[m].at + v.commands[m].count - 1)
        PROVE  j \in 0..(DrawArena - 1)
    <3>1. v.commands[m] \in Commands
      BY <1>1
    <3>2. /\ v.commands[m].at \in Nat /\ v.commands[m].count \in Nat
          /\ v.commands[m].at + v.commands[m].count <= DrawArena
      BY <2>2, <3>1, CommandCases
    <3> QED BY <1>1, <2>2, <3>2
  <2> QED BY <2>1, <2>2 DEF Waiting
<1> QED BY <1>2 DEF Renderers, Packets

\* A version of an entry, uploaded to o in an arena of which then t bytes are given out.
Version(e, o, c) == [e EXCEPT !.offset = o, !.capacity = c, !.current = TRUE, !.dirty = FALSE]
Written(v, k, i, o, c, t) ==
    LET e == v.cache[k][i]
    IN  [v EXCEPT !.cache = Put(v.cache, k, Put(v.cache[k], i, Version(e, o, c))),
                  !.top = Put(v.top, k, t),
                  !.staging = Filled(v.staging, k, o, Length[e.area], e.bytes)]
\* There is room for it, and nothing recorded reads what was there.
Roomy(v, k, i, o, c, t) ==
    LET e == v.cache[k][i] IN
    /\ o \in Nat /\ c \in Nat /\ t \in Nat
    /\ o + c <= t /\ t <= ArenaSize[k] /\ v.top[k] <= t
    /\ e.area # NoArea /\ Length[e.area] <= c
    /\ Waiting(v) = {} \/ v.top[k] <= o
    /\ \A j \in 1..Slots[k] : j # i /\ v.cache[k][j].current =>
          v.cache[k][j].offset + v.cache[k][j].capacity <= o \/ o + c <= v.cache[k][j].offset

\* It is as good as the others.
LEMMA EntryWritten ==
    ASSUME NEW v, Good(v), NEW k \in Kinds, NEW i \in 1..Slots[k], NEW o, NEW c, NEW t,
           Roomy(v, k, i, o, c, t), NEW w, w = Written(v, k, i, o, c, t)
    PROVE  /\ Ahead(v, w) /\ w.ok = v.ok
           /\ ~ w.cache[k][i].dirty
<1> DEFINE e == v.cache[k][i]
           g == Version(e, o, c)
           n == Length[e.area]
           h == Put(v.cache, k, Put(v.cache[k], i, g))
           p == Put(v.top, k, t)
           s == Filled(v.staging, k, o, n, e.bytes)
<1>0. /\ v \in Renderers /\ DrawGood(v) /\ ArenasGood(v)
      /\ v.cache \in Caches /\ v.top \in Tops /\ v.staging \in Stagings /\ v.packets \in Packets
  BY DEF Good, Renderers
<1>1. /\ e \in Entries /\ KindGood(v, k) /\ EntryGood(v, k, i) /\ v.top[k] \in Nat
      /\ e.bytes \in Picture /\ e.area \in Area
  <2>1. v.cache[k] \in [1..Slots[k] -> Entries] /\ v.top[k] \in Nat
    BY <1>0 DEF Caches, Tops
  <2>2. KindGood(v, k)
    BY <1>0 DEF ArenasGood
  <2>3. e \in Entries
    BY <2>1
  <2>4. e.area # NoArea
    BY DEF Roomy
  <2> QED BY <2>1, <2>2, <2>3, <2>4 DEF KindGood, Entries
<1>2. /\ o \in Nat /\ c \in Nat /\ t \in Nat /\ n \in Nat \ {0}
      /\ o + c <= t /\ t <= ArenaSize[k] /\ v.top[k] <= t /\ n <= c
      /\ Waiting(v) = {} \/ v.top[k] <= o
      /\ \A j \in 1..Slots[k] : j # i /\ v.cache[k][j].current =>
          v.cache[k][j].offset + v.cache[k][j].capacity <= o \/ o + c <= v.cache[k][j].offset
      /\ ArenaSize[k] \in Nat
  BY <1>1, AreaKind, ResidentAssumption DEF Roomy
<1>3. /\ g \in Entries /\ g.area = e.area /\ g.bytes = e.bytes
      /\ g.offset = o /\ g.capacity = c /\ g.current = TRUE /\ g.dirty = FALSE
  <2> HIDE DEF e
  <2> QED BY <1>1, <1>2 DEF Version, Entries
<1> HIDE DEF g
<1>4. /\ h \in Caches
      /\ h[k][i] = g /\ \A j \in 1..Slots[k] : j # i => h[k][j] = v.cache[k][j]
      /\ \A l \in Kinds : l # k => h[l] = v.cache[l]
  BY <1>0, <1>3, CachePut
<1>5. p \in Tops /\ p[k] = t /\ \A l \in Kinds : l # k => p[l] = v.top[l]
  BY <1>0, <1>2, TopPut
<1> HIDE DEF e, n
<1>15. o + n <= ArenaSize[k] /\ n \in Nat
  BY <1>2
<1>6. /\ s \in Stagings
      /\ \A x \in o..(o + n - 1) : s[k][x] = e.bytes
      /\ \A x \in 0..(ArenaSize[k] - 1) : x \notin o..(o + n - 1) => s[k][x] = v.staging[k][x]
      /\ \A l \in Kinds : l # k => s[l] = v.staging[l]
  <2> DEFINE b == e.bytes
  <2>1. /\ v.staging \in Stagings /\ o \in Nat /\ n \in Nat /\ b \in Picture
        /\ o + n <= ArenaSize[k]
    BY <1>0, <1>1, <1>2, <1>15
  <2> HIDE DEF b
  <2>2. LET r == Filled(v.staging, k, o, n, b) IN
           /\ r \in Stagings
           /\ \A x \in o..(o + n - 1) : r[k][x] = b
           /\ \A x \in 0..(ArenaSize[k] - 1) : x \notin o..(o + n - 1) => r[k][x] = v.staging[k][x]
           /\ \A l \in Kinds : l # k => r[l] = v.staging[l]
    BY <2>1, FilledIs
  <2> QED BY <2>2 DEF b
<1>7. w = [v EXCEPT !.cache = h, !.top = p, !.staging = s]
  BY DEF Written, e, g, n
<1> HIDE DEF h, p
<1>8. w.staging = Filled(v.staging, k, o, n, e.bytes)
  BY <1>0, <1>7 DEF Renderers
<1> HIDE DEF s
<1>9. w \in Renderers
  BY <1>0, <1>4, <1>5, <1>6, <1>7 DEF Renderers
<1>10. Arenas(v, w) /\ w.staging = s /\ w.top = p /\ w.order = v.order /\ w.cache = h
  BY <1>0, <1>7 DEF Renderers, Arenas
<1>11. \A j \in Waiting(v) : Sampled(w, v.packets[j]) = Sampled(v, v.packets[j])
  <2> SUFFICES ASSUME NEW j \in Waiting(v) PROVE Sampled(w, v.packets[j]) = Sampled(v, v.packets[j])
    OBVIOUS
  <2>2. v.packets[j] \in Seq(Stretches)
    BY <1>0, WaitingType
  <2>3. \A m \in 1..Len(v.packets[j]) : v.packets[j][m].kind = k =>
            v.packets[j][m].offset + v.packets[j][m].length <= o
    <3> SUFFICES ASSUME NEW m \in 1..Len(v.packets[j]), v.packets[j][m].kind = k
                 PROVE  v.packets[j][m].offset + v.packets[j][m].length <= o
      OBVIOUS
    <3>1. v.packets[j][m].offset + v.packets[j][m].length <= v.top[k]
      BY <1>0 DEF ArenasGood, WaitsGood
    <3>2. v.packets[j][m] \in Stretches
      BY <2>2
    <3>3. v.packets[j][m].offset \in Nat /\ v.packets[j][m].length \in Nat
      BY <3>2 DEF Stretches
    <3>4. v.top[k] \in Nat /\ v.top[k] <= o /\ o \in Nat
      BY <1>1, <1>2
    <3> DEFINE f == v.packets[j][m].offset
               z == v.packets[j][m].length
               level == v.top[k]
    <3>5. f \in Nat /\ z \in Nat /\ level \in Nat /\ f + z <= level /\ level <= o /\ o \in Nat
      BY <3>1, <3>3, <3>4
    <3> HIDE DEF f, z, level
    <3>6. f + z <= o
      BY <3>5
    <3> QED BY <3>6 DEF f, z
  <2>4. Elsewhere(v.packets[j], k, o)
    BY <2>3 DEF Elsewhere
  <2> QED BY <1>0, <1>1, <1>2, <1>15, <1>8, <2>2, <2>4, SampledElsewhere
<1>12. /\ DrawGood(w) /\ Present(w) = Present(v) /\ TotalMemory(w) = TotalMemory(v)
       /\ Waiting(w) = Waiting(v) /\ Targets(w) = Targets(v)
       /\ w.memory = v.memory /\ w.packets = v.packets /\ w.ok = v.ok
  BY <1>0, <1>9, <1>10, <1>11, Rearranged
<1>13. Kept(v, w)
  <2> SUFFICES ASSUME NEW l \in Kinds, NEW j \in 1..Slots[l]
               PROVE  /\ w.cache[l][j].area = v.cache[l][j].area
                      /\ w.cache[l][j].bytes = v.cache[l][j].bytes
                      /\ w.cache[l][j].dirty => v.cache[l][j].dirty
    BY DEF Kept
  <2>1. CASE l = k /\ j = i
    BY <1>3, <1>4, <1>10, <2>1 DEF e
  <2>2. CASE ~ (l = k /\ j = i)
    <3>1. w.cache[l][j] = v.cache[l][j]
      <4>1. CASE l # k
        BY <1>4, <1>10, <4>1
      <4>2. CASE l = k
        BY <1>4, <1>10, <2>2, <4>2
      <4> QED BY <4>1, <4>2
    <3> QED BY <3>1
  <2> QED BY <2>1, <2>2
<1>14. ArenasGood(w)
  <2>1. ASSUME NEW l \in Kinds, NEW j \in 1..Slots[l] PROVE EntryGood(w, l, j)
    <3>1. EntryGood(v, l, j) /\ w.order = v.order
      BY <1>0, <1>10 DEF ArenasGood, KindGood
    <3>2. CASE l # k
      <4>1. w.cache[l][j] = v.cache[l][j] /\ w.top[l] = v.top[l] /\ w.staging[l] = v.staging[l]
        BY <1>4, <1>5, <1>6, <1>10, <3>2
      <4> QED BY <3>1, <4>1, EntrySame
    <3>3. CASE l = k /\ j = i
      <4>1. w.cache[l][j] = g /\ v.cache[l][j] = e /\ w.staging[l] = s[k] /\ w.top[l] = t
        BY <1>4, <1>5, <1>10, <3>3 DEF e
      <4>2. Staged(w, l, g)
        BY <1>3, <1>6, <4>1 DEF Staged, n
      <4>3. g.area # NoArea => Kind(g.area) = l /\ j \in ToSet(w.order[l])
        BY <1>3, <3>1, <4>1 DEF EntryGood
      <4>4. g.offset + g.capacity <= t /\ g.capacity >= Length[g.area] /\ g.area # NoArea
        <5>1. g.area # NoArea
          BY <1>3 DEF Roomy, e
        <5> QED BY <1>2, <1>3, <5>1 DEF n
      <4> QED BY <4>1, <4>2, <4>3, <4>4 DEF EntryGood
    <3>4. CASE l = k /\ j # i
      <4> DEFINE f == v.cache[k][j]
      <4>1. w.cache[l][j] = f /\ v.cache[l][j] = f /\ w.top[l] = t /\ w.staging[l] = s[k]
        BY <1>4, <1>5, <1>10, <3>4
      <4>2. f \in Entries
        BY <1>0, <3>4 DEF Caches
      <4>3. f.area # NoArea => Kind(f.area) = l /\ j \in ToSet(w.order[l])
        BY <3>1, <4>1 DEF EntryGood
      <4>4. f.current => f.area # NoArea /\ f.offset + f.capacity <= t
        <5>1. f.offset \in Nat /\ f.capacity \in Nat
          BY <4>2 DEF Entries
        <5>2. f.current => f.area # NoArea /\ f.offset + f.capacity <= v.top[k]
          BY <3>1, <3>4, <4>1 DEF EntryGood
        <5> HIDE DEF f
        <5> QED BY <1>1, <1>2, <5>1, <5>2
      <4>5. f.current /\ ~ f.dirty => f.capacity >= Length[f.area] /\ Staged(w, l, f)
        <5> SUFFICES ASSUME f.current, ~ f.dirty
                     PROVE  f.capacity >= Length[f.area] /\ Staged(w, l, f)
          OBVIOUS
        <5>1. f.capacity >= Length[f.area] /\ Staged(v, l, f) /\ f.area \in Area
          <6>1. f.area \in Area \cup {NoArea}
            BY <4>2 DEF Entries
          <6> QED BY <3>1, <4>1, <6>1 DEF EntryGood
        <5>2. f.offset + f.capacity <= o \/ o + c <= f.offset
          BY <1>2, <3>4
        <5>3. f.offset \in Nat /\ f.capacity \in Nat /\ Length[f.area] \in Nat
          BY <4>2, <5>1, AreaKind DEF Entries
        <5>6. v.top[k] <= ArenaSize[k]
          BY <1>1, <1>2
        <5>4. f.offset + f.capacity <= v.top[k] /\ v.top[k] <= ArenaSize[k]
          BY <3>1, <3>4, <4>1, <5>6 DEF EntryGood
        <5> HIDE DEF f
        <5>5. ASSUME NEW b \in f.offset..(f.offset + Length[f.area] - 1)
              PROVE  w.staging[l][b] = f.bytes
          <6>1. b \in 0..(ArenaSize[k] - 1) /\ b \notin o..(o + n - 1)
            BY <1>1, <1>2, <5>1, <5>2, <5>3, <5>4
          <6>2. v.staging[l][b] = f.bytes
            BY <5>1 DEF Staged
          <6> QED BY <1>6, <3>4, <4>1, <6>1, <6>2
        <5> QED BY <5>1, <5>5 DEF Staged
      <4> HIDE DEF f
      <4> QED BY <4>1, <4>3, <4>4, <4>5 DEF EntryGood
    <3> QED BY <3>2, <3>3, <3>4
  <2>2. ASSUME NEW l \in Kinds, NEW j \in 1..Slots[l], NEW m \in 1..Slots[l], j # m
        PROVE  Apart(w.cache[l][j], w.cache[l][m])
    <3>1. Apart(v.cache[l][j], v.cache[l][m])
      BY <1>0, <2>2 DEF ArenasGood, KindGood
    <3>2. CASE l # k
      BY <1>4, <1>10, <3>1, <3>2
    <3>3. CASE l = k /\ j # i /\ m # i
      BY <1>4, <1>10, <3>1, <3>3
    <3>4. CASE l = k /\ j = i
      <4>1. w.cache[l][j] = g /\ w.cache[l][m] = v.cache[k][m] /\ v.cache[l][j] = e
        BY <1>4, <1>10, <2>2, <3>4 DEF e
      <4>2. v.cache[k][m].current =>
                v.cache[k][m].offset + v.cache[k][m].capacity <= o \/ o + c <= v.cache[k][m].offset
        BY <1>2, <2>2, <3>4
      <4>3. v.cache[l][m] = v.cache[k][m]
        BY <3>4
      <4> QED BY <1>3, <3>1, <4>1, <4>2, <4>3 DEF Apart
    <3>5. CASE l = k /\ m = i
      <4>1. w.cache[l][m] = g /\ w.cache[l][j] = v.cache[k][j] /\ v.cache[l][m] = e
        BY <1>4, <1>10, <2>2, <3>5 DEF e
      <4>2. v.cache[k][j].current =>
                v.cache[k][j].offset + v.cache[k][j].capacity <= o \/ o + c <= v.cache[k][j].offset
        BY <1>2, <2>2, <3>5
      <4>3. v.cache[l][j] = v.cache[k][j]
        BY <3>5
      <4> QED BY <1>3, <3>1, <4>1, <4>2, <4>3 DEF Apart
    <3> QED BY <3>2, <3>3, <3>4, <3>5
  <2>3. \A l \in Kinds : KindGood(w, l)
    <3>1. \A l \in Kinds : IsInjective(w.order[l])
      BY <1>0, <1>10 DEF ArenasGood, KindGood
    <3> QED BY <2>1, <2>2, <3>1 DEF KindGood
  <2>4. WaitsGood(w)
    <3> SUFFICES ASSUME NEW j \in Waiting(w), NEW m \in 1..Len(w.packets[j])
                 PROVE  w.packets[j][m].offset + w.packets[j][m].length
                            <= w.top[w.packets[j][m].kind]
      BY DEF WaitsGood
    <3> DEFINE b == v.packets[j][m]
    <3>1. j \in Waiting(v) /\ m \in 1..Len(v.packets[j]) /\ w.packets[j][m] = b
      BY <1>12
    <3>2. b.offset + b.length <= v.top[b.kind]
      BY <1>0, <3>1 DEF ArenasGood, WaitsGood
    <3>3. b \in Stretches
      <4>2. v.packets[j] \in Seq(Stretches)
        BY <1>0, <3>1, WaitingType
      <4> QED BY <3>1, <4>2
    <3>4. b.kind \in Kinds /\ b.offset \in Nat /\ b.length \in Nat /\ v.top[b.kind] \in Nat
      BY <1>0, <3>3 DEF Stretches, Tops
    <3>5. w.top[b.kind] = v.top[b.kind] \/ (w.top[b.kind] = t /\ b.kind = k)
      BY <1>5, <1>10, <3>4
    <3> DEFINE f == b.offset
               z == b.length
               old == v.top[b.kind]
               new == w.top[b.kind]
    <3>6. f \in Nat /\ z \in Nat /\ old \in Nat /\ t \in Nat /\ f + z <= old
      BY <1>2, <3>2, <3>4
    <3>7. new = old \/ (new = t /\ old <= t)
      BY <1>2, <3>5
    <3> HIDE DEF f, z, old, new
    <3>8. f + z <= new
      BY <3>6, <3>7
    <3>9. b.offset + b.length <= w.top[b.kind]
      BY <3>8 DEF f, z, new
    <3> HIDE DEF b
    <3> QED BY <3>1, <3>9
  <2> QED BY <2>3, <2>4 DEF ArenasGood
<1> QED
  <2>1. Onward(v, w)
    BY <1>9, <1>12, <1>14 DEF Onward, Good
  <2>2. ~ w.cache[k][i].dirty
    BY <1>3, <1>4, <1>10
  <2> QED BY <1>12, <1>13, <2>1, <2>2 DEF Ahead

\* A cache entry and a top of the arena, in their types.
LEMMA EntryType ==
    ASSUME NEW v \in Renderers, NEW k \in Kinds, NEW i \in 1..Slots[k]
    PROVE  /\ v.cache \in Caches /\ v.cache[k] \in [1..Slots[k] -> Entries]
           /\ v.cache[k][i] \in Entries /\ k \in DOMAIN v.cache /\ i \in DOMAIN v.cache[k]
           /\ v.top \in Tops /\ v.top[k] \in Nat /\ v.top[k] <= ArenaSize[k]
           /\ k \in DOMAIN v.top /\ ArenaSize[k] \in Nat /\ Slots[k] \in Nat
<1>1. v.cache \in Caches /\ v.top \in Tops
  BY DEF Renderers
<1>2. /\ v.cache[k] \in [1..Slots[k] -> Entries]
      /\ k \in DOMAIN v.cache
  BY <1>1 DEF Caches
<1>3. v.top[k] \in Nat /\ v.top[k] <= ArenaSize[k] /\ k \in DOMAIN v.top
  BY <1>1 DEF Tops
<1> QED BY <1>1, <1>2, <1>3, ResidentAssumption

\* What is put twice.
LEMMA PutPut ==
    ASSUME NEW f, NEW k \in DOMAIN f, f = [x \in DOMAIN f |-> f[x]], NEW x, NEW y
    PROVE  Put(f, k, x)[k] = x /\ Put(Put(f, k, x), k, y) = Put(f, k, y) /\ Put(f, k, f[k]) = f
BY DEF Put

\* An element of an element that is put, and put again.
LEMMA ElementPut ==
    ASSUME NEW f, NEW k \in DOMAIN f, f = [x \in DOMAIN f |-> f[x]],
           NEW i \in DOMAIN f[k], f[k] = [x \in DOMAIN f[k] |-> f[k][x]], NEW x, NEW y
    PROVE  LET c == Put(f, k, Put(f[k], i, x))
           IN  /\ c[k] = Put(f[k], i, x) /\ c[k][i] = x
               /\ Put(c, k, Put(c[k], i, y)) = Put(f, k, Put(f[k], i, y))
<1> DEFINE c == Put(f, k, Put(f[k], i, x))
<1>1. c[k] = Put(f[k], i, x) /\ \A z : Put(c, k, z) = Put(f, k, z)
  BY PutPut
<1> HIDE DEF c
<1>2. c[k][i] = x /\ Put(c[k], i, y) = Put(f[k], i, y)
  BY <1>1, PutPut
<1> QED BY <1>1, <1>2 DEF c

\* An upload, and a new version that is uploaded.
LEMMA UploadedIs ==
    ASSUME NEW v \in Renderers, NEW k \in Kinds, NEW i \in 1..Slots[k], v.cache[k][i].current
    PROVE  LET e == v.cache[k][i]
           IN  Uploaded(v, k, i) = Written(v, k, i, e.offset, e.capacity, v.top[k])
<1> DEFINE e == v.cache[k][i]
           s == Filled(v.staging, k, e.offset, Length[e.area], e.bytes)
           g == [e EXCEPT !.dirty = FALSE]
           c == Put(v.cache, k, Put(v.cache[k], i, g))
<1>1. /\ v.cache \in Caches /\ v.cache[k] \in [1..Slots[k] -> Entries]
      /\ e \in Entries /\ v.top \in Tops /\ k \in DOMAIN v.top /\ v.top[k] \in Nat
  BY EntryType
<1>2. Uploaded(v, k, i) = [v EXCEPT !.staging = s, !.cache = c]
  BY DEF Uploaded, Filled, Put, Renderers
<1>3. g = Version(e, e.offset, e.capacity)
  <2>1. e.current = TRUE
    BY <1>1 DEF Entries
  <2> HIDE DEF e
  <2> QED BY <1>1, <2>1 DEF Version, Entries
<1>4. Put(v.top, k, v.top[k]) = v.top
  <2>1. v.top = [l \in Kinds |-> v.top[l]] /\ DOMAIN v.top = Kinds
    BY <1>1 DEF Tops
  <2> QED BY <2>1 DEF Put
<1> HIDE DEF g
<1>5. Written(v, k, i, e.offset, e.capacity, v.top[k])
          = [v EXCEPT !.cache = c, !.top = v.top, !.staging = s]
  <2> HIDE DEF s
  <2> QED BY <1>3, <1>4 DEF Written, s
<1> HIDE DEF c, s, e
<1>6. [v EXCEPT !.staging = s, !.cache = c] = [v EXCEPT !.cache = c, !.top = v.top, !.staging = s]
  BY DEF Renderers
<1> QED BY <1>2, <1>5, <1>6 DEF e

\* A version placed at the top of the arena and uploaded.
LEMMA PlacedIs ==
    ASSUME NEW v \in Renderers, NEW k \in Kinds, NEW i \in 1..Slots[k]
    PROVE  LET n == Length[v.cache[k][i].area]
           IN  Uploaded(Placed(v, k, i), k, i) = Written(v, k, i, v.top[k], n, v.top[k] + n)
<1> DEFINE e == v.cache[k][i]
           n == Length[e.area]
           t == v.top[k]
           g == [e EXCEPT !.offset = t, !.capacity = n, !.current = TRUE]
           c == Put(v.cache, k, Put(v.cache[k], i, g))
           p == Put(v.top, k, t + n)
           x == [v EXCEPT !.cache = c, !.top = p]
           s == Filled(v.staging, k, t, n, e.bytes)
           h == Version(e, t, n)
           d == Put(v.cache, k, Put(v.cache[k], i, h))
<1>1. /\ v.cache \in Caches /\ v.cache[k] \in [1..Slots[k] -> Entries]
      /\ e \in Entries /\ k \in DOMAIN v.cache /\ i \in DOMAIN v.cache[k]
      /\ v.cache = [l \in DOMAIN v.cache |-> v.cache[l]]
      /\ v.cache[k] = [j \in DOMAIN v.cache[k] |-> v.cache[k][j]]
  BY EntryType DEF Caches
<1>2. Placed(v, k, i) = x
  <2> DEFINE g1 == [e EXCEPT !.offset = t]
             g2 == [g1 EXCEPT !.capacity = n]
             c1 == Put(v.cache, k, Put(v.cache[k], i, g1))
             c2 == Put(c1, k, Put(c1[k], i, [c1[k][i] EXCEPT !.capacity = n]))
             c3 == Put(c2, k, Put(c2[k], i, [c2[k][i] EXCEPT !.current = TRUE]))
  <2>1. Placed(v, k, i) = [v EXCEPT !.cache = c3, !.top = p]
    <3> DEFINE a1 == [v EXCEPT !.cache[k][i].offset = t]
               a2 == [a1 EXCEPT !.cache[k][i].capacity = n]
               a3 == [a2 EXCEPT !.cache[k][i].current = TRUE]
               a4 == [a3 EXCEPT !.top[k] = t + n]
    <3>1. Placed(v, k, i) = a4
      BY DEF Placed
    <3>2. a1 = [v EXCEPT !.cache = c1]
      BY DEF Put
    <3>3. a1.cache = c1 /\ a1.top = v.top
      <4> HIDE DEF c1, a1
      <4> QED BY <3>2 DEF Renderers
    <3>4. a2 = [v EXCEPT !.cache = c2]
      <4>1. a2 = [a1 EXCEPT !.cache =
                    Put(a1.cache, k, Put(a1.cache[k], i, [a1.cache[k][i] EXCEPT !.capacity = n]))]
        <5> HIDE DEF a1
        <5> QED BY DEF Put
      <4> HIDE DEF a1, c1, a2
      <4>2. a2 = [a1 EXCEPT !.cache = c2]
        BY <3>3, <4>1
      <4> HIDE DEF c2
      <4> QED BY <3>2, <4>2 DEF Renderers
    <3> HIDE DEF a1, c1
    <3>5. a2.cache = c2
      <4> HIDE DEF c2, a2
      <4> QED BY <3>4 DEF Renderers
    <3>6. a3 = [v EXCEPT !.cache = c3]
      <4>1. a3 = [a2 EXCEPT !.cache =
                    Put(a2.cache, k, Put(a2.cache[k], i, [a2.cache[k][i] EXCEPT !.current = TRUE]))]
        <5> HIDE DEF a2
        <5> QED BY DEF Put
      <4> HIDE DEF a2, c2, a3
      <4>2. a3 = [a2 EXCEPT !.cache = c3]
        BY <3>5, <4>1
      <4> HIDE DEF c3
      <4> QED BY <3>4, <4>2 DEF Renderers
    <3> HIDE DEF a2, c2, a3, c3
    <3>7. a4 = [v EXCEPT !.cache = c3, !.top = p]
      BY <3>6 DEF Renderers, Put
    <3> QED BY <3>1, <3>7
  <2>2. [g2 EXCEPT !.current = TRUE] = g
    OBVIOUS
  <2> HIDE DEF g1
  <2>3. c1[k] = Put(v.cache[k], i, g1) /\ c1[k][i] = g1
    BY <1>1, ElementPut
  <2>4. c2 = Put(v.cache, k, Put(v.cache[k], i, g2))
    BY <1>1, <2>3, ElementPut
  <2> HIDE DEF g2, c2
  <2>5. c2[k] = Put(v.cache[k], i, g2) /\ c2[k][i] = g2
    BY <1>1, <2>4, ElementPut
  <2>6. c3 = Put(v.cache, k, Put(v.cache[k], i, g))
    BY <1>1, <2>2, <2>4, <2>5, ElementPut
  <2> HIDE DEF c3
  <2> QED BY <2>1, <2>6
<1>3. /\ g.area = e.area /\ g.bytes = e.bytes /\ g.offset = t
      /\ [g EXCEPT !.dirty = FALSE] = h
  <2> HIDE DEF e, n, t
  <2> QED BY <1>1 DEF Version, Entries
<1> HIDE DEF g, h, e, t, n
<1>4. c[k] = Put(v.cache[k], i, g) /\ c[k][i] = g
  BY <1>1, ElementPut
<1>5. Put(c, k, Put(c[k], i, h)) = d
  BY <1>1, <1>4, ElementPut
<1> HIDE DEF c, p
<1>6. x.cache = c /\ x.top = p /\ x.staging = v.staging
  BY DEF Renderers
<1>7. Uploaded(x, k, i) = [x EXCEPT !.staging = s, !.cache = d]
  <2> DEFINE y == x.cache[k][i]
  <2>1. y = g
    BY <1>4, <1>6
  <2>2. Put(x.cache, k, Put(x.cache[k], i, [y EXCEPT !.dirty = FALSE])) = d
    BY <1>3, <1>5, <1>6, <2>1
  <2>3. Filled(x.staging, k, y.offset, Length[y.area], y.bytes) = s
    BY <1>3, <1>6, <2>1 DEF n
  <2> HIDE DEF s, d
  <2>4. Uploaded(x, k, i) = [x EXCEPT
            !.staging = Filled(x.staging, k, y.offset, Length[y.area], y.bytes),
            !.cache = Put(x.cache, k, Put(x.cache[k], i, [y EXCEPT !.dirty = FALSE]))]
    <3> HIDE DEF x
    <3>1. x.cache[k][i] = y
      OBVIOUS
    <3> QED BY DEF Uploaded, Filled, Put
  <2> HIDE DEF y
  <2> QED BY <2>2, <2>3, <2>4
<1>8. [x EXCEPT !.staging = s, !.cache = d] = [v EXCEPT !.cache = d, !.top = p, !.staging = s]
  <2> HIDE DEF s, d
  <2> QED BY DEF Renderers
<1>9. Written(v, k, i, t, n, t + n) = [v EXCEPT !.cache = d, !.top = p, !.staging = s]
  BY DEF Written, h, e, n, t, p
<1> QED BY <1>2, <1>7, <1>8, <1>9 DEF t, n, e

\* The epoch ends: nothing recorded reads the arena, and none of its versions is current.
LEMMA RolledOverIs ==
    ASSUME NEW v, Good(v), NEW k \in Kinds, Waiting(v) = {}
    PROVE  LET w == RolledOver(v, k) IN
           /\ Ahead(v, w) /\ w.ok = v.ok /\ Waiting(w) = {} /\ w.top[k] = 0
           /\ \A i \in 1..Slots[k] : ~ w.cache[k][i].current
<1> DEFINE w == RolledOver(v, k)
           r == [i \in DOMAIN v.cache[k] |-> [v.cache[k][i] EXCEPT !.current = FALSE]]
           c == Put(v.cache, k, r)
           p == Put(v.top, k, 0)
<1>0. /\ v \in Renderers /\ DrawGood(v) /\ ArenasGood(v)
      /\ v.cache \in Caches /\ v.top \in Tops /\ ArenaSize[k] \in Nat
      /\ v.cache[k] \in [1..Slots[k] -> Entries]
  BY ResidentAssumption DEF Good, Renderers, Caches
<1>1. \A i \in 1..Slots[k] :
          /\ r[i] \in Entries /\ r[i].area = v.cache[k][i].area /\ r[i].bytes = v.cache[k][i].bytes
          /\ r[i].current = FALSE /\ r[i].dirty = v.cache[k][i].dirty
  <2> SUFFICES ASSUME NEW i \in 1..Slots[k]
               PROVE  /\ r[i] \in Entries /\ r[i].area = v.cache[k][i].area
                      /\ r[i].bytes = v.cache[k][i].bytes
                      /\ r[i].current = FALSE /\ r[i].dirty = v.cache[k][i].dirty
    OBVIOUS
  <2> DEFINE e == v.cache[k][i]
  <2>1. e \in Entries /\ r[i] = [e EXCEPT !.current = FALSE]
    BY <1>0
  <2> HIDE DEF e
  <2>2. /\ [e EXCEPT !.current = FALSE] \in Entries
        /\ [e EXCEPT !.current = FALSE].area = e.area
        /\ [e EXCEPT !.current = FALSE].bytes = e.bytes
        /\ [e EXCEPT !.current = FALSE].current = FALSE
        /\ [e EXCEPT !.current = FALSE].dirty = e.dirty
    BY <2>1 DEF Entries
  <2> HIDE DEF r
  <2> QED BY <2>1, <2>2 DEF e
<1>2. r \in [1..Slots[k] -> Entries]
  <2>1. DOMAIN r = 1..Slots[k]
    BY <1>0
  <2> QED BY <1>1, <2>1
<1> HIDE DEF r
<1>3. c \in Caches /\ c[k] = r /\ \A l \in Kinds : l # k => c[l] = v.cache[l]
  <2> DEFINE U == UNION {[1..Slots[l] -> Entries] : l \in Kinds}
  <2>1. v.cache \in [Kinds -> U] /\ \A l \in Kinds : v.cache[l] \in [1..Slots[l] -> Entries]
    BY <1>0 DEF Caches
  <2>2. r \in U
    BY <1>2
  <2> HIDE DEF U
  <2>3. c \in [Kinds -> U] /\ c[k] = r /\ \A l \in Kinds : l # k => c[l] = v.cache[l]
    BY <2>1, <2>2 DEF Put
  <2> HIDE DEF c
  <2>4. \A l \in Kinds : c[l] \in [1..Slots[l] -> Entries]
    BY <1>2, <2>1, <2>3
  <2> QED BY <2>3, <2>4 DEF Caches, U
<1>4. p \in Tops /\ p[k] = 0 /\ \A l \in Kinds : l # k => p[l] = v.top[l]
  <2>1. 0 \in Nat /\ 0 <= ArenaSize[k]
    BY <1>0
  <2> QED BY <1>0, <2>1, TopPut
<1>5. w = [v EXCEPT !.cache = c, !.top = p]
  BY <1>0 DEF RolledOver, Put, r, Renderers
<1> HIDE DEF c, p, w
<1>6. w \in Renderers
  BY <1>0, <1>3, <1>4, <1>5 DEF Renderers
<1>7. /\ Arenas(v, w) /\ w.staging = v.staging /\ w.top = p /\ w.order = v.order /\ w.cache = c
  BY <1>0, <1>5 DEF Renderers, Arenas
<1>8. /\ DrawGood(w) /\ Present(w) = Present(v) /\ TotalMemory(w) = TotalMemory(v)
      /\ Waiting(w) = Waiting(v) /\ Targets(w) = Targets(v)
      /\ w.memory = v.memory /\ w.packets = v.packets /\ w.ok = v.ok
  BY <1>0, <1>6, <1>7, Rearranged
<1>9. ASSUME NEW l \in Kinds, NEW j \in 1..Slots[l]
      PROVE  /\ EntryGood(w, l, j)
             /\ w.cache[l][j].area = v.cache[l][j].area
             /\ w.cache[l][j].bytes = v.cache[l][j].bytes
             /\ w.cache[l][j].dirty => v.cache[l][j].dirty
             /\ w.cache[l][j].current => w.cache[l][j] = v.cache[l][j]
  <2>1. EntryGood(v, l, j) /\ w.order = v.order
    BY <1>0, <1>7 DEF ArenasGood, KindGood
  <2>2. CASE l # k
    <3>1. w.cache[l][j] = v.cache[l][j] /\ w.top[l] = v.top[l]
      BY <1>3, <1>4, <1>7, <2>2
    <3>2. EntryGood(w, l, j)
      BY <1>7, <2>1, <3>1, EntrySame
    <3> QED BY <3>1, <3>2
  <2>3. CASE l = k
    <3>1. w.cache[l][j] = r[j] /\ r[j].area = v.cache[l][j].area /\ ~ r[j].current
      BY <1>1, <1>3, <1>7, <2>3
    <3>2. EntryGood(w, l, j)
      BY <2>1, <3>1 DEF EntryGood
    <3> QED BY <1>1, <2>3, <3>1, <3>2
  <2> QED BY <2>2, <2>3
<1>10. ASSUME NEW l \in Kinds, NEW j \in 1..Slots[l], NEW m \in 1..Slots[l], j # m
       PROVE  Apart(w.cache[l][j], w.cache[l][m])
  <2>1. Apart(v.cache[l][j], v.cache[l][m])
    BY <1>0, <1>10 DEF ArenasGood, KindGood
  <2> QED BY <1>9, <2>1 DEF Apart
<1>11. ArenasGood(w)
  <2>1. WaitsGood(w)
    BY <1>8 DEF WaitsGood
  <2>2. \A l \in Kinds : IsInjective(w.order[l])
    BY <1>0, <1>7 DEF ArenasGood, KindGood
  <2> QED BY <1>9, <1>10, <2>1, <2>2 DEF ArenasGood, KindGood
<1>12. Ahead(v, w)
  BY <1>6, <1>8, <1>9, <1>11 DEF Ahead, Onward, Good, Kept
<1>13. \A i \in 1..Slots[k] : ~ w.cache[k][i].current
  BY <1>1, <1>3, <1>7
<1> QED BY <1>4, <1>7, <1>8, <1>12, <1>13 DEF w

\* An entry of an area in use, all of whose bytes are staged.
Clean(v, a) == \A i \in EntryOf(v, a) : ~ v.cache[Kind(a)][i].dirty

\* It stays so.
LEMMA CleanAhead ==
    ASSUME NEW v, NEW w, Ahead(v, w), NEW a \in Area, Clean(v, a)
    PROVE  Clean(w, a)
<1>1. Kind(a) \in Kinds
  BY AreaKind
<1> QED BY <1>1 DEF Clean, Ahead, Kept, EntryOf

\* Only one entry is of an area.
LEMMA OnlyEntry ==
    ASSUME NEW v, Good(v), NEW a \in Area, Holds(v, a)
    PROVE  LET i == CHOOSE j \in EntryOf(v, a) : TRUE IN
           /\ i \in 1..Slots[Kind(a)] /\ EntryOf(v, a) = {i}
           /\ v.cache[Kind(a)][i].area = a /\ v.cache[Kind(a)][i].bytes = v.memory[a]
<1>1. Kind(a) \in Kinds /\ a # NoArea
  BY AreaKind
<1>2. PICK j \in 1..Slots[Kind(a)] :
          v.cache[Kind(a)][j].area = a /\ v.cache[Kind(a)][j].bytes = v.memory[a]
  BY DEF Holds
<1>3. \A m \in 1..Slots[Kind(a)] : m # j => v.cache[Kind(a)][m].area # a
  <2> SUFFICES ASSUME NEW m \in 1..Slots[Kind(a)], m # j
               PROVE  v.cache[Kind(a)][m].area # a
    OBVIOUS
  <2>1. Apart(v.cache[Kind(a)][m], v.cache[Kind(a)][j])
    BY <1>1, <1>2 DEF Good, ArenasGood, KindGood
  <2> QED BY <1>1, <1>2, <2>1 DEF Apart
<1>4. EntryOf(v, a) = {j}
  BY <1>2, <1>3 DEF EntryOf
<1>5. (CHOOSE m \in EntryOf(v, a) : TRUE) = j
  BY <1>4
<1> QED BY <1>2, <1>4, <1>5

\* A failure.
LEMMA FailedIs ==
    ASSUME NEW v, Good(v)
    PROVE  Ahead(v, Failed(v)) /\ ~ Failed(v).ok
<1> DEFINE w == Failed(v)
<1>1. v \in Renderers /\ DrawGood(v) /\ ArenasGood(v)
  BY DEF Good
<1>2. w \in Renderers /\ w = [v EXCEPT !.ok = FALSE]
  BY <1>1 DEF Failed, Renderers
<1> HIDE DEF w
<1>3. /\ w.commands = v.commands /\ w.planes = v.planes /\ w.efb = v.efb /\ w.soft = v.soft
      /\ w.readback = v.readback /\ w.used = v.used /\ w.jobs = v.jobs
      /\ w.packets = v.packets /\ w.memory = v.memory /\ w.staging = v.staging
      /\ w.recording = v.recording /\ w.valid = v.valid /\ w.xfb = v.xfb /\ w.tex = v.tex
      /\ w.ok = FALSE /\ w.cache = v.cache /\ w.order = v.order /\ w.top = v.top
  BY <1>1, <1>2 DEF Renderers
<1>4. SameQueue(v, w)
  <2>1. \A packet : Sampled(w, packet) = Sampled(v, packet)
    BY <1>3 DEF Sampled
  <2> QED BY <1>3, <2>1 DEF SameQueue
<1>5. TotalEfb(w) = TotalEfb(v) /\ TotalBack(w) = TotalBack(v) /\ Waiting(w) = Waiting(v)
  BY <1>1, <1>2, <1>4, SameRecorded
<1>6. DrawGood(w)
  BY <1>1, <1>3, SameGood
<1>7. Present(w) = Present(v) /\ Targets(w) = Targets(v) /\ TotalMemory(w) = TotalMemory(v)
  BY <1>3, <1>5 DEF Present, Targets, TotalMemory
<1>8. ArenasGood(w)
  BY <1>1, <1>3, <1>5, ArenasKept
<1> QED BY <1>2, <1>3, <1>6, <1>7, <1>8 DEF w, Ahead, Onward, Good, Kept

\* Nothing waits between a submission and the next call.
LEMMA WaitsNot ==
    ASSUME NEW v, Good(v), ~ v.recording
    PROVE  Waiting(v) = {}
<1>1. v \in Renderers /\ Idle(v) /\ (v.recording => v.valid)
  BY DEF Good, DrawGood
<1> QED BY <1>1, IdleIs

\* The entry's bytes, in place: nothing recorded samples them.
LEMMA UploadedGood ==
    ASSUME NEW v, Good(v), NEW k \in Kinds, NEW i \in 1..Slots[k], Waiting(v) = {},
           v.cache[k][i].area # NoArea, v.cache[k][i].current,
           v.cache[k][i].capacity >= Length[v.cache[k][i].area]
    PROVE  LET w == Uploaded(v, k, i) IN Ahead(v, w) /\ w.ok = v.ok /\ ~ w.cache[k][i].dirty
<1> DEFINE e == v.cache[k][i]
<1>1. /\ v \in Renderers /\ KindGood(v, k) /\ e \in Entries
      /\ v.top[k] \in Nat /\ v.top[k] <= ArenaSize[k]
  BY EntryType DEF Good, ArenasGood
<1>2. EntryGood(v, k, i) /\ \A j \in 1..Slots[k] : j # i => Apart(v.cache[k][j], e)
  BY <1>1 DEF KindGood
<1>3. e.offset \in Nat /\ e.capacity \in Nat
  BY <1>1 DEF Entries
<1>4. \A j \in 1..Slots[k] : j # i /\ v.cache[k][j].current =>
          v.cache[k][j].offset + v.cache[k][j].capacity <= e.offset
          \/ e.offset + e.capacity <= v.cache[k][j].offset
  BY <1>2 DEF Apart
<1>5. e.offset + e.capacity <= v.top[k]
  BY <1>2 DEF EntryGood
<1>6. Length[e.area] <= e.capacity
  <2>1. e.area \in Area
    BY <1>1 DEF Entries
  <2>2. Length[e.area] \in Nat
    BY <2>1, AreaKind
  <2> QED BY <1>3, <2>2
<1>7. Roomy(v, k, i, e.offset, e.capacity, v.top[k])
  BY <1>1, <1>3, <1>4, <1>5, <1>6 DEF Roomy
<1>8. Uploaded(v, k, i) = Written(v, k, i, e.offset, e.capacity, v.top[k])
  BY <1>1, UploadedIs
<1> HIDE DEF e
<1> QED BY <1>7, <1>8, EntryWritten

\* A version at the top of the arena.
LEMMA PlacedGood ==
    ASSUME NEW v, Good(v), NEW k \in Kinds, NEW i \in 1..Slots[k],
           v.cache[k][i].area # NoArea,
           v.top[k] + Length[v.cache[k][i].area] <= ArenaSize[k]
    PROVE  LET w == Uploaded(Placed(v, k, i), k, i)
           IN  Ahead(v, w) /\ w.ok = v.ok /\ ~ w.cache[k][i].dirty
<1> DEFINE e == v.cache[k][i]
           n == Length[e.area]
           o == v.top[k]
<1>1. /\ v \in Renderers /\ KindGood(v, k) /\ e \in Entries
      /\ o \in Nat /\ ArenaSize[k] \in Nat
  BY EntryType DEF Good, ArenasGood
<1>2. n \in Nat
  <2>1. e.area \in Area
    BY <1>1 DEF Entries
  <2> QED BY <2>1, AreaKind
<1>3. \A j \in 1..Slots[k] : v.cache[k][j].current =>
          v.cache[k][j].offset + v.cache[k][j].capacity <= o
  BY <1>1 DEF KindGood, EntryGood
<1>4. /\ o + n \in Nat /\ o + n <= o + n /\ o + n <= ArenaSize[k] /\ o <= o + n /\ n <= n
      /\ o <= o
  BY <1>1, <1>2
<1>5. Roomy(v, k, i, o, n, o + n)
  <2>1. e.area # NoArea
    OBVIOUS
  <2> HIDE DEF e
  <2>2. v.cache[k][i] = e /\ Length[e.area] <= n
    BY <1>4 DEF e, n
  <2> HIDE DEF n, o
  <2>3. v.top[k] <= o + n /\ v.top[k] <= o
    BY <1>4 DEF o
  <2> QED BY <1>1, <1>2, <1>3, <1>4, <2>1, <2>2, <2>3 DEF Roomy
<1>6. Uploaded(Placed(v, k, i), k, i) = Written(v, k, i, o, n, o + n)
  BY <1>1, PlacedIs
<1> HIDE DEF e, n, o
<1> QED BY <1>5, <1>6, EntryWritten

\* A new version, or a failure.
LEMMA VersionedGood ==
    ASSUME NEW v, Good(v), NEW k \in Kinds, NEW i \in 1..Slots[k], v.cache[k][i].area # NoArea
    PROVE  LET w == Versioned(v, k, i)
           IN  Ahead(v, w) /\ (w.ok => ~ w.cache[k][i].dirty)
<1> DEFINE n == Length[v.cache[k][i].area]
<1>1. v \in Renderers /\ v.top[k] \in Nat /\ ArenaSize[k] \in Nat /\ v.cache[k][i] \in Entries
  BY EntryType DEF Good
<1>2. n \in Nat
  <2>1. v.cache[k][i].area \in Area
    BY <1>1 DEF Entries
  <2> QED BY <2>1, AreaKind
<1>3. CASE n > ArenaSize[k]
  <2>1. Versioned(v, k, i) = Failed(v)
    BY <1>3 DEF Versioned
  <2> QED BY <2>1, FailedIs
<1>4. CASE ~ n > ArenaSize[k] /\ v.top[k] + n <= ArenaSize[k]
  <2>1. Versioned(v, k, i) = Uploaded(Placed(v, k, i), k, i)
    BY <1>4 DEF Versioned
  <2> QED BY <1>4, <2>1, PlacedGood
<1>5. CASE ~ n > ArenaSize[k] /\ ~ v.top[k] + n <= ArenaSize[k] /\ ~ v.cow
  <2>1. Versioned(v, k, i) = Failed(v)
    BY <1>5 DEF Versioned
  <2> QED BY <2>1, FailedIs
<1>6. CASE ~ n > ArenaSize[k] /\ ~ v.top[k] + n <= ArenaSize[k] /\ v.cow
  <2> DEFINE x == IF v.recording THEN Submitted(v) ELSE v
             y == RolledOver(x, k)
             z == Uploaded(Placed(y, k, i), k, i)
  <2>1. Versioned(v, k, i) = z
    BY <1>6 DEF Versioned
  <2>2. Ahead(v, x) /\ ~ x.recording
    <3>1. CASE v.recording
      <4>1. Later(v, Submitted(v)) /\ ~ Submitted(v).recording
        BY SubmittedLater DEF Good
      <4> QED BY <3>1, <4>1, AheadSame
    <3>2. CASE ~ v.recording
      BY <3>2 DEF Ahead, Onward, Kept, Good
    <3> QED BY <3>1, <3>2
  <2> HIDE DEF x
  <2>3. Good(x) /\ Waiting(x) = {}
    BY <2>2, WaitsNot DEF Ahead, Onward
  <2>4. Ahead(x, y) /\ y.ok = x.ok /\ y.top[k] = 0
    BY <2>3, RolledOverIs
  <2> HIDE DEF y
  <2>5. Ahead(v, y) /\ Good(y)
    BY <2>2, <2>4, AheadStill DEF Ahead, Onward
  <2>6. y.cache[k][i].area = v.cache[k][i].area
    BY <2>5 DEF Ahead, Kept
  <2>7. y.top[k] + Length[y.cache[k][i].area] <= ArenaSize[k]
    BY <1>1, <1>2, <1>6, <2>4, <2>6
  <2>8. y.cache[k][i].area # NoArea
    BY <2>6
  <2>9. Ahead(y, z) /\ z.ok = y.ok /\ ~ z.cache[k][i].dirty
    BY <2>5, <2>7, <2>8, PlacedGood
  <2> HIDE DEF z
  <2> QED BY <2>1, <2>5, <2>9, AheadStill
<1> QED BY <1>3, <1>4, <1>5, <1>6

\* Without copy-on-write the draws recorded come first.
LEMMA SettledIs ==
    ASSUME NEW v, Good(v)
    PROVE  LET w == Settled(v) IN
           /\ Ahead(v, w) /\ w.cache = v.cache /\ w.cow = v.cow /\ (~ w.cow => ~ w.recording)
<1>1. CASE ~ v.cow /\ v.recording
  <2>1. Later(v, Submitted(v)) /\ ~ Submitted(v).recording
    BY SubmittedLater DEF Good
  <2>2. Settled(v) = Submitted(v)
    BY <1>1 DEF Settled
  <2>3. Ahead(v, Submitted(v))
    BY <2>1, AheadSame
  <2> QED BY <2>1, <2>2, <2>3 DEF Later, SameArenas
<1>2. CASE ~ (~ v.cow /\ v.recording)
  <2>1. Settled(v) = v
    BY <1>2 DEF Settled
  <2>2. Ahead(v, v)
    BY DEF Ahead, Onward, Kept, Good
  <2> QED BY <1>2, <2>1, <2>2
<1> QED BY <1>1, <1>2

\* ensure_resident_texture, ensure_resident_tlut.
LEMMA EnsuredIs ==
    ASSUME NEW v, Good(v), NEW a \in Area, Holds(v, a)
    PROVE  LET w == Ensured(v, a) IN Ahead(v, w) /\ (w.ok => Clean(w, a))
<1> DEFINE k == Kind(a)
           i == CHOOSE j \in EntryOf(v, a) : TRUE
           x == Settled(v)
           w == Ensured(v, a)
<1>1. /\ k \in Kinds /\ a # NoArea
      /\ i \in 1..Slots[k] /\ EntryOf(v, a) = {i} /\ v.cache[k][i].area = a
  BY AreaKind, OnlyEntry
<1>2. w = IF ~ v.ok \/ Ready(v.cache[k][i]) THEN v
          ELSE IF NeedsVersion(x, x.cache[k][i]) THEN Versioned(x, k, i)
          ELSE Uploaded(x, k, i)
  BY DEF Ensured
<1> HIDE DEF w, i
<1>3. ASSUME NEW y, Ahead(v, y), ~ y.cache[k][i].dirty
      PROVE  Clean(y, a)
  <2>1. EntryOf(y, a) = {i}
    BY <1>1, <1>3 DEF EntryOf, Ahead, Kept
  <2> QED BY <1>3, <2>1 DEF Clean
<1> HIDE DEF k
<1>4. CASE ~ v.ok \/ Ready(v.cache[k][i])
  <2>1. w = v /\ Ahead(v, v)
    BY <1>2, <1>4 DEF Ahead, Onward, Kept, Good
  <2>2. v.ok => ~ v.cache[k][i].dirty
    BY <1>4 DEF Ready
  <2> QED BY <1>3, <2>1, <2>2 DEF w
<1>5. CASE ~ (~ v.ok \/ Ready(v.cache[k][i]))
  <2>1. /\ Ahead(v, x) /\ x.cache = v.cache /\ x.cow = v.cow /\ (~ x.cow => ~ x.recording)
    BY SettledIs
  <2> HIDE DEF x
  <2>2. Good(x) /\ x.cache[k][i].area # NoArea
    BY <1>1, <2>1 DEF Ahead, Onward
  <2>3. CASE NeedsVersion(x, x.cache[k][i])
    <3>1. w = Versioned(x, k, i)
      BY <1>2, <1>5, <2>3
    <3>2. Ahead(x, w) /\ (w.ok => ~ w.cache[k][i].dirty)
      BY <1>1, <2>2, <3>1, VersionedGood
    <3>3. Ahead(v, w)
      BY <2>1, <3>2, AheadStill
    <3> QED BY <1>3, <3>2, <3>3 DEF w
  <2>4. CASE ~ NeedsVersion(x, x.cache[k][i])
    <3>1. w = Uploaded(x, k, i)
      BY <1>2, <1>5, <2>4
    <3> DEFINE e == x.cache[k][i]
    <3>2. /\ ~ e.capacity < Length[e.area] /\ e.current /\ ~ (x.cow /\ x.recording)
      BY <2>4 DEF NeedsVersion
    <3>3. Waiting(x) = {}
      BY <2>1, <2>2, <3>2, WaitsNot
    <3>4. e.capacity >= Length[e.area]
      <4>1. x \in Renderers /\ e.area \in Area
        BY <1>1, <2>1, <2>2 DEF Good
      <4>2. e.capacity \in Nat /\ Length[e.area] \in Nat
        BY <1>1, <4>1, EntryType, AreaKind DEF Entries
      <4> HIDE DEF e
      <4> QED BY <3>2, <4>2
    <3>5. Ahead(x, w) /\ ~ w.cache[k][i].dirty
      BY <1>1, <2>2, <3>1, <3>2, <3>3, <3>4, UploadedGood
    <3>6. Ahead(v, w)
      BY <2>1, <3>5, AheadStill
    <3> QED BY <1>3, <3>5, <3>6 DEF w
  <2> QED BY <2>3, <2>4
<1> QED BY <1>4, <1>5

\* The areas of a draw that have their entries, and those whose bytes are staged.
AllHold(v, d)  == \A a \in Areas(d) : Holds(v, a)
AllClean(v, d) == \A a \in Areas(d) : Clean(v, a)

\* Both are kept.
LEMMA AllAhead ==
    ASSUME NEW v, NEW w, Ahead(v, w), NEW d \in Draws
    PROVE  /\ AllHold(v, d) => AllHold(w, d)
           /\ AllClean(v, d) => AllClean(w, d)
<1>1. Areas(d) \subseteq Area
  BY DrawAreas
<1> QED BY <1>1, HoldsAhead, CleanAhead DEF AllHold, AllClean

\* One round of ensure_resident_texture and ensure_resident_tlut over the units.
Round(v, d) == FoldLeft(Ensured, v, Bound(d))

\* Unless one of them fails, every area of the draw is staged after a round.
LEMMA RoundIs ==
    ASSUME NEW v, Good(v), NEW d \in Draws, AllHold(v, d)
    PROVE  LET w == Round(v, d) IN Ahead(v, w) /\ (w.ok => AllClean(w, d))
<1> DEFINE seq == Bound(d)
           n == Len(seq)
           X == {w \in Renderers : Ahead(v, w)}
           f == [i \in 1..n |-> [x \in X |-> Ensured(x, seq[i])]]
           Folds(it) == it = [s \in SUBSET DOMAIN seq |->
                                  IF s = {} THEN v
                                  ELSE Ensured(it[s \ {Max(s)}], seq[Max(s)])]
<1>0. seq \in Seq(Area) /\ ToSet(seq) = Areas(d) /\ Areas(d) \subseteq Area
  BY DrawAreas
<1>1. Round(v, d) = (CHOOSE it : Folds(it))[DOMAIN seq]
  BY DEF Round, FoldLeft, MapThenFoldSet
<1> HIDE DEF seq
<1>2. n \in Nat /\ DOMAIN seq = 1..n /\ \A i \in 1..n : seq[i] \in Areas(d) /\ seq[i] \in Area
  <2>1. n \in Nat /\ DOMAIN seq = 1..n
    BY <1>0
  <2> QED BY <1>0, <2>1 DEF ToSet
<1> HIDE DEF n
<1>3. ASSUME NEW x \in X, NEW i \in 1..n
      PROVE  LET w == Ensured(x, seq[i]) IN w \in X /\ Ahead(x, w) /\ (w.ok => Clean(w, seq[i]))
  <2> DEFINE w == Ensured(x, seq[i])
  <2>1. Good(x) /\ Ahead(v, x) /\ Holds(x, seq[i]) /\ seq[i] \in Area
    BY <1>2, AllAhead DEF Ahead, Onward, AllHold
  <2>2. Ahead(x, w) /\ (w.ok => Clean(w, seq[i]))
    BY <2>1, EnsuredIs
  <2> HIDE DEF w
  <2>3. Ahead(v, w) /\ w \in Renderers
    BY <2>1, <2>2, AheadStill DEF Ahead, Onward, Good
  <2> QED BY <2>2, <2>3 DEF w
<1>4. v \in X
  BY DEF Good, Onward, Ahead, Kept
<1>5. \A x \in X, i \in 1..n : Ensured(x, seq[i]) \in X
  <2> HIDE DEF X
  <2> QED BY <1>3
<1> HIDE DEF X
<1>6. f \in Steps(n, X)
  BY <1>5 DEF Steps
<1>7. PICK it : Solves(it, n, X, v, f)
  <2> HIDE DEF f
  <2> QED BY <1>2, <1>4, <1>6, FoldExists
<1>8. \A s \in SUBSET (1..n) : s # {} => Max(s) \in 1..n /\ s \ {Max(s)} \in SUBSET (1..n)
  BY <1>2, Greatest
<1>9. \E e : Folds(e)
  <2>1. ASSUME NEW s \in SUBSET (1..n)
        PROVE  it[s] = IF s = {} THEN v ELSE Ensured(it[s \ {Max(s)}], seq[Max(s)])
    <3>1. CASE s = {}
      BY <1>7, <3>1 DEF Solves
    <3>2. CASE s # {}
      <4>1. it[s] = f[Max(s)][it[s \ {Max(s)}]] /\ it[s \ {Max(s)}] \in X
        BY <1>7, <1>8, <3>2 DEF Solves
      <4> QED BY <1>8, <3>2, <4>1
    <3> QED BY <3>1, <3>2
  <2>2. it = [s \in SUBSET (1..n) |-> it[s]]
    BY <1>7 DEF Solves
  <2>3. Folds(it)
    BY <1>2, <2>1, <2>2
  <2> QED BY <2>3
<1> DEFINE c == CHOOSE e : Folds(e)
<1>10. Folds(c)
  BY <1>9
<1> HIDE DEF c
<1>11. Follows(c, n, X, v, f)
  <2>1. c[{}] = v
    BY <1>2, <1>10
  <2>2. ASSUME NEW s \in SUBSET (1..n), s # {}, c[s \ {Max(s)}] \in X
        PROVE  c[s] = f[Max(s)][c[s \ {Max(s)}]]
    <3>1. c[s] = Ensured(c[s \ {Max(s)}], seq[Max(s)])
      BY <1>2, <1>10, <2>2
    <3>2. Max(s) \in 1..n
      BY <1>8, <2>2
    <3> QED BY <2>2, <3>1, <3>2
  <2> QED BY <2>1, <2>2 DEF Follows
<1>12. PICK h : Trace(h, n, X, v, f) /\ h[n] = c[1..n]
  <2> HIDE DEF f
  <2> QED BY <1>2, <1>4, <1>6, <1>11, FoldTrace
<1>13. Round(v, d) = h[n]
  BY <1>1, <1>2, <1>12 DEF c
<1> DEFINE T == {i \in 0..n : h[i].ok => \A j \in 1..i : Clean(h[i], seq[j])}
<1>14. 0 \in T
  BY <1>2
<1>15. ASSUME NEW i \in 1..n, i - 1 \in T PROVE i \in T
  <2>1. i \in 0..n /\ i - 1 \in 0..n /\ 1..i = (1..(i - 1)) \cup {i}
    BY <1>2
  <2>2. h[i - 1] \in X /\ h[i] = f[i][h[i - 1]]
    BY <1>12, <2>1 DEF Trace
  <2>3. h[i] = Ensured(h[i - 1], seq[i])
    BY <2>2
  <2>4. Ahead(h[i - 1], h[i]) /\ (h[i].ok => Clean(h[i], seq[i]))
    BY <1>3, <2>2, <2>3
  <2>5. h[i - 1].ok => \A j \in 1..(i - 1) : Clean(h[i - 1], seq[j])
    BY <1>15
  <2>6. \A j \in 1..(i - 1) : seq[j] \in Area
    BY <1>2, <2>1
  <2>7. h[i].ok => \A j \in 1..(i - 1) : Clean(h[i], seq[j])
    <3>1. h[i].ok => h[i - 1].ok
      BY <2>4 DEF Ahead
    <3> QED BY <2>4, <2>5, <2>6, <3>1, CleanAhead
  <2> QED BY <2>1, <2>4, <2>7
<1> HIDE DEF T
<1>16. \A i \in 0..n : i \in T
  BY <1>2, <1>14, <1>15, UpTo
<1>17. n \in 0..n /\ \A a \in Areas(d) : \E j \in 1..n : a = seq[j]
  BY <1>0, <1>2 DEF ToSet
<1>18. h[n].ok => AllClean(h[n], d)
  BY <1>16, <1>17 DEF T, AllClean
<1>19. h[n] \in X
  BY <1>12, <1>17 DEF Trace
<1> QED BY <1>13, <1>18, <1>19 DEF X

\* The tries: the first is made, each further one only for bindings that are not ready.
Try(v, d, n) == IF n > 1 /\ (~ v.ok \/ BindingsReady(v, d)) THEN v ELSE Round(v, d)

\* The same after the tries, as the first is a whole round.
LEMMA BindingsAre ==
    ASSUME NEW v, Good(v), NEW d \in Draws, AllHold(v, d)
    PROVE  LET w == Bindings(v, d) IN Ahead(v, w) /\ (w.ok => AllClean(w, d))
<1> DEFINE n == Attempts
           seq == [i \in 1..n |-> i]
           X == {w \in Renderers : Ahead(v, w)}
           f == [i \in 1..n |-> [x \in X |-> Try(x, d, i)]]
           Folds(it) == it = [s \in SUBSET DOMAIN seq |->
                                  IF s = {} THEN v
                                  ELSE Try(it[s \ {Max(s)}], d, seq[Max(s)])]
<1>1. Bindings(v, d) = (CHOOSE it : Folds(it))[DOMAIN seq]
  BY DEF Bindings, FoldLeft, MapThenFoldSet, Try, Round
<1>2. n \in Nat /\ 1 <= n /\ DOMAIN seq = 1..n /\ \A i \in 1..n : seq[i] = i
  BY ResidentAssumption
<1> HIDE DEF n, seq
<1>3. ASSUME NEW x \in X, NEW i \in 1..n
      PROVE  LET w == Try(x, d, i) IN
             w \in X /\ Ahead(x, w) /\ (i = 1 => (w.ok => AllClean(w, d)))
  <2> DEFINE w == Try(x, d, i)
  <2>1. Good(x) /\ Ahead(v, x) /\ AllHold(x, d)
    BY AllAhead DEF Ahead, Onward
  <2>2. CASE i > 1 /\ (~ x.ok \/ BindingsReady(x, d))
    <3>1. w = x
      BY <2>2 DEF Try
    <3> QED BY <1>2, <2>1, <2>2, <3>1 DEF Ahead, Onward, Kept, Good
  <2>3. CASE ~ (i > 1 /\ (~ x.ok \/ BindingsReady(x, d)))
    <3>1. w = Round(x, d)
      BY <2>3 DEF Try
    <3>2. Ahead(x, w) /\ (w.ok => AllClean(w, d))
      BY <2>1, <3>1, RoundIs
    <3> HIDE DEF w
    <3>3. Ahead(v, w) /\ w \in Renderers
      BY <2>1, <3>2, AheadStill DEF Ahead, Onward, Good
    <3> QED BY <3>2, <3>3 DEF w
  <2> QED BY <2>2, <2>3
<1>4. v \in X
  BY DEF Good, Onward, Ahead, Kept
<1>5. \A x \in X, i \in 1..n : Try(x, d, i) \in X
  <2> HIDE DEF X
  <2> QED BY <1>3
<1> HIDE DEF X
<1>6. f \in Steps(n, X)
  BY <1>5 DEF Steps
<1>7. PICK it : Solves(it, n, X, v, f)
  <2> HIDE DEF f
  <2> QED BY <1>2, <1>4, <1>6, FoldExists
<1>8. \A s \in SUBSET (1..n) : s # {} => Max(s) \in 1..n /\ s \ {Max(s)} \in SUBSET (1..n)
  BY <1>2, Greatest
<1>9. \E e : Folds(e)
  <2>1. ASSUME NEW s \in SUBSET (1..n)
        PROVE  it[s] = IF s = {} THEN v ELSE Try(it[s \ {Max(s)}], d, seq[Max(s)])
    <3>1. CASE s = {}
      BY <1>7, <3>1 DEF Solves
    <3>2. CASE s # {}
      <4>1. it[s] = f[Max(s)][it[s \ {Max(s)}]] /\ it[s \ {Max(s)}] \in X
        BY <1>7, <1>8, <3>2 DEF Solves
      <4> QED BY <1>2, <1>8, <3>2, <4>1
    <3> QED BY <3>1, <3>2
  <2>2. it = [s \in SUBSET (1..n) |-> it[s]]
    BY <1>7 DEF Solves
  <2>3. Folds(it)
    BY <1>2, <2>1, <2>2
  <2> QED BY <2>3
<1> DEFINE c == CHOOSE e : Folds(e)
<1>10. Folds(c)
  BY <1>9
<1> HIDE DEF c
<1>11. Follows(c, n, X, v, f)
  <2>1. c[{}] = v
    BY <1>2, <1>10
  <2>2. ASSUME NEW s \in SUBSET (1..n), s # {}, c[s \ {Max(s)}] \in X
        PROVE  c[s] = f[Max(s)][c[s \ {Max(s)}]]
    <3>1. c[s] = Try(c[s \ {Max(s)}], d, seq[Max(s)])
      BY <1>2, <1>10, <2>2
    <3>2. Max(s) \in 1..n
      BY <1>8, <2>2
    <3> QED BY <1>2, <2>2, <3>1, <3>2
  <2> QED BY <2>1, <2>2 DEF Follows
<1>12. PICK h : Trace(h, n, X, v, f) /\ h[n] = c[1..n]
  <2> HIDE DEF f
  <2> QED BY <1>2, <1>4, <1>6, <1>11, FoldTrace
<1>13. Bindings(v, d) = h[n]
  BY <1>1, <1>2, <1>12 DEF c
<1> DEFINE T == {i \in 0..n : i > 0 => (h[i].ok => AllClean(h[i], d))}
<1>14. 0 \in T
  BY <1>2
<1>15. ASSUME NEW i \in 1..n, i - 1 \in T PROVE i \in T
  <2>1. i \in 0..n /\ i - 1 \in 0..n
    BY <1>2
  <2>2. h[i - 1] \in X /\ h[i] = f[i][h[i - 1]]
    BY <1>12, <2>1 DEF Trace
  <2>3. h[i] = Try(h[i - 1], d, i)
    BY <2>2
  <2>4. Ahead(h[i - 1], h[i]) /\ (i = 1 => (h[i].ok => AllClean(h[i], d)))
    BY <1>3, <2>2, <2>3
  <2>5. i - 1 > 0 => (h[i - 1].ok => AllClean(h[i - 1], d))
    BY <1>15
  <2>6. (h[i].ok => h[i - 1].ok) /\ (AllClean(h[i - 1], d) => AllClean(h[i], d))
    BY <2>4, AllAhead DEF Ahead
  <2>7. i = 1 \/ i - 1 > 0
    BY <1>2
  <2> QED BY <2>1, <2>4, <2>5, <2>6, <2>7
<1> HIDE DEF T
<1>16. \A i \in 0..n : i \in T
  BY <1>2, <1>14, <1>15, UpTo
<1>17. n \in 0..n /\ n > 0
  BY <1>2
<1>18. h[n].ok => AllClean(h[n], d)
  BY <1>16, <1>17 DEF T
<1>19. h[n] \in X
  BY <1>12, <1>17 DEF Trace
<1> QED BY <1>13, <1>18, <1>19 DEF X

-----------------------------------------------------------------------------
(* Recording a triangle. *)

\* A sequence of as many bytes b.
Repeated(n, b) == [k \in 1..n |-> b]

\* The bytes of a draw's areas.
LEMMA BytesType ==
    ASSUME NEW d \in Draws, NEW m \in Memories
    PROVE  /\ Bytes(d, m) \in Seq(Picture)
           /\ Bytes(d, m) = FlattenSeq([i \in 1..Len(Bound(d)) |->
                                Repeated(Length[Bound(d)[i]], m[Bound(d)[i]])])
<1> DEFINE q == Bound(d)
           n == Len(q)
           seqs == [i \in 1..n |-> Repeated(Length[q[i]], m[q[i]])]
<1>0. q \in Seq(Area)
  BY DrawAreas
<1>1. Bytes(d, m) = FlattenSeq([i \in DOMAIN q |-> Repeated(Length[q[i]], m[q[i]])])
  BY DEF Bytes, Repeated
<1> HIDE DEF q
<1>2. n \in Nat /\ DOMAIN q = 1..n /\ \A i \in 1..n : q[i] \in Area
  BY <1>0
<1>3. Bytes(d, m) = FlattenSeq(seqs)
  BY <1>1, <1>2
<1>4. ASSUME NEW i \in 1..n PROVE Repeated(Length[q[i]], m[q[i]]) \in Seq(Picture)
  <2>1. Length[q[i]] \in Nat /\ m[q[i]] \in Picture
    BY <1>2, AreaKind DEF Memories
  <2> QED BY <2>1 DEF Repeated
<1>5. seqs \in Seq(Seq(Picture))
  BY <1>2, <1>4
<1> HIDE DEF seqs
<1>6. Bytes(d, m) \in Seq(Picture)
  BY <1>3, <1>5, Flatten
<1> QED BY <1>3, <1>6 DEF q, seqs

\* Only the memory of its areas matters.
LEMMA BytesSame ==
    ASSUME NEW d \in Draws, NEW m \in Memories, NEW r \in Memories,
           \A a \in Areas(d) : m[a] = r[a]
    PROVE  Bytes(d, m) = Bytes(d, r)
<1> DEFINE q == Bound(d)
           n == Len(q)
<1>1. q \in Seq(Area) /\ ToSet(q) = Areas(d)
  BY DrawAreas
<1> HIDE DEF q
<1>2. \A i \in 1..n : m[q[i]] = r[q[i]]
  BY <1>1 DEF ToSet
<1>3. [i \in 1..n |-> Repeated(Length[q[i]], m[q[i]])]
          = [i \in 1..n |-> Repeated(Length[q[i]], r[q[i]])]
  BY <1>2
<1> QED BY <1>3, BytesType DEF q

\* The binding of an area in place n.
Binding(v, a) ==
    LET i == CHOOSE j \in EntryOf(v, a) : TRUE
    IN  [kind |-> Kind(a), offset |-> v.cache[Kind(a)][i].offset, length |-> Length[a]]

\* It points to the bytes that memory holds.
LEMMA BindingIs ==
    ASSUME NEW v, Good(v), NEW a \in Area, Holds(v, a), Clean(v, a),
           \A i \in EntryOf(v, a) : v.cache[Kind(a)][i].current
    PROVE  LET b == Binding(v, a) IN
           /\ b \in Stretches /\ b.offset + b.length <= v.top[b.kind]
           /\ b.length = Length[a] /\ b.length \in Nat
           /\ \A x \in 1..b.length : v.staging[b.kind][b.offset + x - 1] = v.memory[a]
<1> DEFINE k == Kind(a)
           i == CHOOSE j \in EntryOf(v, a) : TRUE
           e == v.cache[k][i]
           b == Binding(v, a)
<1>1. /\ k \in Kinds /\ a # NoArea /\ Length[a] \in Nat /\ Length[a] # 0
      /\ i \in 1..Slots[k] /\ EntryOf(v, a) = {i} /\ e.area = a /\ e.bytes = v.memory[a]
  BY AreaKind, OnlyEntry
<1>2. b = [kind |-> k, offset |-> e.offset, length |-> Length[a]]
  BY DEF Binding
<1> HIDE DEF i, k, b
<1>3. e.current /\ ~ e.dirty
  BY <1>1 DEF Clean, k
<1>4. EntryGood(v, k, i) /\ v \in Renderers
  BY <1>1 DEF Good, ArenasGood, KindGood
<1>5. /\ e.offset \in Nat /\ e.capacity \in Nat /\ v.top[k] \in Nat
      /\ v.top[k] <= ArenaSize[k] /\ ArenaSize[k] \in Nat
  BY <1>1, <1>4, EntryType DEF Entries
<1>6. /\ e.offset + e.capacity <= v.top[k] /\ e.capacity >= Length[e.area] /\ Staged(v, k, e)
  BY <1>3, <1>4 DEF EntryGood
<1> HIDE DEF e
<1>7. e.offset + Length[a] <= v.top[k] /\ e.offset + Length[a] <= ArenaSize[k]
  BY <1>1, <1>5, <1>6
<1>8. b \in Stretches
  BY <1>1, <1>2, <1>5, <1>7 DEF Stretches
<1>9. ASSUME NEW x \in 1..Length[a] PROVE v.staging[k][e.offset + x - 1] = v.memory[a]
  <2>1. e.offset + x - 1 \in e.offset..(e.offset + Length[e.area] - 1)
    BY <1>1, <1>5
  <2> QED BY <1>1, <1>6, <2>1 DEF Staged
<1> QED BY <1>1, <1>2, <1>7, <1>8, <1>9 DEF b

\* A packet of bindings that are all ready samples what memory holds.
LEMMA PacketIs ==
    ASSUME NEW v, Good(v), NEW d \in Draws, AllHold(v, d), AllClean(v, d), BindingsReady(v, d)
    PROVE  LET p == Packet(v, d) IN
           /\ p \in Seq(Stretches)
           /\ \A m \in 1..Len(p) : p[m].offset + p[m].length <= v.top[p[m].kind]
           /\ Sampled(v, p) = Bytes(d, TotalMemory(v))
<1> DEFINE q == Bound(d)
           n == Len(q)
           p == Packet(v, d)
<1>0. q \in Seq(Area) /\ ToSet(q) = Areas(d) /\ Areas(d) \subseteq Area
  BY DrawAreas
<1>1. p = [i \in DOMAIN q |-> Binding(v, q[i])]
  BY DEF Packet, Binding
<1> HIDE DEF q, p
<1>2. /\ n \in Nat /\ DOMAIN q = 1..n
      /\ \A i \in 1..n : q[i] \in Areas(d) /\ q[i] \in Area
  <2>1. n \in Nat /\ DOMAIN q = 1..n
    BY <1>0
  <2> QED BY <1>0, <2>1 DEF ToSet
<1> HIDE DEF n
<1>3. ASSUME NEW i \in 1..n
      PROVE  LET b == Binding(v, q[i]) IN
             /\ b \in Stretches /\ b.offset + b.length <= v.top[b.kind]
             /\ b.length = Length[q[i]] /\ b.length \in Nat
             /\ \A x \in 1..b.length : v.staging[b.kind][b.offset + x - 1] = v.memory[q[i]]
  <2>1. /\ Holds(v, q[i]) /\ Clean(v, q[i])
        /\ \A j \in EntryOf(v, q[i]) : v.cache[Kind(q[i])][j].current
    BY <1>2 DEF AllHold, AllClean, BindingsReady
  <2> QED BY <1>2, <2>1, BindingIs
<1>4. \A i \in 1..n : p[i] = Binding(v, q[i])
  BY <1>1, <1>2
<1>5. p \in Seq(Stretches) /\ Len(p) = n /\ DOMAIN p = 1..n
  <2>1. p = [i \in 1..n |-> Binding(v, q[i])]
    BY <1>1, <1>2
  <2>2. \A i \in 1..n : Binding(v, q[i]) \in Stretches
    BY <1>3
  <2> QED BY <1>2, <2>1, <2>2
<1> DEFINE bytes(b) == [x \in 1..b.length |-> v.staging[b.kind][b.offset + x - 1]]
<1>6. ASSUME NEW i \in 1..n PROVE bytes(p[i]) = Repeated(Length[q[i]], v.memory[q[i]])
  <2> DEFINE b == Binding(v, q[i])
  <2>1. b.length = Length[q[i]] /\ \A x \in 1..b.length :
            v.staging[b.kind][b.offset + x - 1] = v.memory[q[i]]
    BY <1>3
  <2> HIDE DEF b
  <2>2. bytes(b) = Repeated(Length[q[i]], v.memory[q[i]])
    BY <2>1 DEF Repeated
  <2>3. p[i] = b
    BY <1>4 DEF b
  <2> QED BY <2>2, <2>3
<1>7. Sampled(v, p) = FlattenSeq([i \in 1..n |-> bytes(p[i])])
  BY <1>5 DEF Sampled
<1> HIDE DEF bytes
<1>8. [i \in 1..n |-> bytes(p[i])] = [i \in 1..n |-> Repeated(Length[q[i]], v.memory[q[i]])]
  BY <1>6
<1>9. v \in Renderers /\ DrawGood(v) /\ v.memory \in Memories /\ TotalMemory(v) \in Memories
  BY TotalType DEF Good
<1>10. Sampled(v, p) = Bytes(d, v.memory)
  BY <1>7, <1>8, <1>9, BytesType DEF q, n
<1>11. \A a \in Areas(d) : v.memory[a] = TotalMemory(v)[a]
  <2> SUFFICES ASSUME NEW a \in Areas(d) PROVE v.memory[a] = TotalMemory(v)[a]
    OBVIOUS
  <2>1. a \in Area /\ a \notin Targets(v)
    BY <1>0 DEF AllHold, Holds
  <2> QED BY <1>9, <2>1, TotalElse
<1>12. Bytes(d, v.memory) = Bytes(d, TotalMemory(v))
  BY <1>9, <1>11, BytesSame
<1>13. \A m \in 1..Len(p) : p[m].offset + p[m].length <= v.top[p[m].kind]
  BY <1>3, <1>4, <1>5
<1> QED BY <1>5, <1>10, <1>12, <1>13 DEF p

\* One triangle of the draw, over the frame buffer there is.
Painting(v, w, d) ==
    /\ Good(w) /\ w.ok
    /\ Present(w) = Painted(Present(v), Bytes(d, TotalMemory(v)))
    /\ TotalMemory(w) = TotalMemory(v) /\ Targets(w) \subseteq Targets(v)
    /\ AllHold(v, d) => AllHold(w, d)

\* A packet is put behind those that wait, in a place of the arena that is free.
Fits(v, p) ==
    /\ v.used + v.jobs + 2 <= DrawArena
    /\ \A m \in 1..Len(p) : p[m].offset + p[m].length <= v.top[p[m].kind]

Behind(v, p) ==
    [v EXCEPT !.packets = Put(v.packets, v.used + v.jobs, p), !.jobs = v.jobs + 1]

\* Its triangle is painted after those before it.
LEMMA PacketPut ==
    ASSUME NEW v, Good(v), v.recording, NEW p \in Seq(Stretches), Fits(v, p),
           NEW w, w = Behind(v, p)
    PROVE  /\ Good(w) /\ Present(w) = Painted(Present(v), Sampled(v, p))
           /\ TotalMemory(w) = TotalMemory(v) /\ Targets(w) = Targets(v)
           /\ w.memory = v.memory /\ w.cache = v.cache /\ w.ok = v.ok
<1> DEFINE n == v.used + v.jobs
           r == Put(v.packets, n, p)
<1>0. /\ v \in Renderers /\ DrawGood(v) /\ ArenasGood(v) /\ v.packets \in Packets
      /\ v.used \in Nat /\ v.jobs \in Nat /\ DrawArena \in Nat /\ v.commands \in Seq(Commands)
      /\ v.used + v.jobs <= DrawArena /\ v.valid
      /\ Shows(v) \in Shown /\ Shows(v).efb \in Picture
  BY Queue DEF Good, Renderers, DrawGood
<1>20. /\ v.used + v.jobs + 2 <= DrawArena
       /\ \A m \in 1..Len(p) : p[m].offset + p[m].length <= v.top[p[m].kind]
  BY DEF Fits
<1>1. n \in 0..(DrawArena - 1) /\ n \in Nat /\ n + 1 <= DrawArena
  BY <1>0, <1>20
<1>2. /\ r \in Packets /\ r[n] = p /\ \A j \in 0..(DrawArena - 1) : j # n => r[j] = v.packets[j]
  BY <1>0, <1>1 DEF Packets, Put
<1> HIDE DEF r
<1>3. w = [v EXCEPT !.packets = r, !.jobs = v.jobs + 1]
  BY DEF r, Behind
<1>4. w \in Renderers
  <2>1. v.jobs + 1 \in Nat
    BY <1>0
  <2> QED BY <1>0, <1>2, <1>3, <2>1 DEF Renderers
<1>5. /\ w.commands = v.commands /\ w.planes = v.planes /\ w.efb = v.efb /\ w.soft = v.soft
      /\ w.readback = v.readback /\ w.used = v.used /\ w.jobs = v.jobs + 1
      /\ w.packets = r /\ w.memory = v.memory /\ w.staging = v.staging
      /\ w.recording = v.recording /\ w.valid = v.valid /\ w.xfb = v.xfb /\ w.tex = v.tex
      /\ w.ok = v.ok /\ w.cache = v.cache /\ w.order = v.order /\ w.top = v.top /\ w.cow = v.cow
  BY <1>0, <1>3 DEF Renderers
<1>6. \A packet : Sampled(w, packet) = Sampled(v, packet)
  BY <1>5 DEF Sampled
<1>7. DrawGood(w)
  <2>1. w.used + w.jobs + (IF w.jobs = 0 THEN 0 ELSE 1) <= DrawArena
    <3>1. v.used + (v.jobs + 1) + 1 <= DrawArena
      BY <1>0, <1>20
    <3> QED BY <1>0, <1>5, <3>1
  <2> QED BY <1>0, <1>5, <2>1 DEF DrawGood
<1>8. ASSUME NEW i \in 1..Len(v.commands), v.commands[i].op = "dispatch",
             NEW j \in v.commands[i].at..(v.commands[i].at + v.commands[i].count - 1)
      PROVE  j \in 0..(DrawArena - 1) /\ j # n
  <2>1. v.commands[i] \in Commands
    BY <1>0
  <2>2. /\ v.commands[i].at \in Nat /\ v.commands[i].count \in Nat
    BY <1>8, <2>1, CommandCases
  <2>3. v.commands[i].at + v.commands[i].count <= v.used
    BY <1>0, <1>8 DEF DrawGood
  <2>4. v.used \in Nat /\ v.jobs \in Nat /\ DrawArena \in Nat /\ v.used + v.jobs <= DrawArena
    BY <1>0
  <2> DEFINE at == v.commands[i].at
             m == v.commands[i].count
  <2>6. at \in Nat /\ m \in Nat /\ at + m <= v.used /\ j \in at..(at + m - 1)
    BY <2>2, <2>3
  <2> HIDE DEF at, m
  <2>5. j \in Int /\ j >= 0 /\ j < v.used
    BY <2>4, <2>6, SMTT(20)
  <2> QED BY <2>4, <2>5
<1>9. SameRun(v, w)
  <2>1. ASSUME NEW i \in 1..Len(v.commands), v.commands[i].op = "dispatch"
        PROVE  SameSamples(v, w, v.commands[i].at, v.commands[i].count)
    <3>1. ASSUME NEW j \in v.commands[i].at..(v.commands[i].at + v.commands[i].count - 1)
          PROVE  Sampled(v, v.packets[j]) = Sampled(w, w.packets[j])
      <4>1. j \in 0..(DrawArena - 1) /\ j # n
        BY <1>8, <2>1
      <4>2. w.packets[j] = v.packets[j]
        BY <1>2, <1>5, <4>1
      <4> QED BY <1>6, <4>2
    <3> QED BY <3>1 DEF SameSamples
  <2>2. Now(v) = Now(w)
    BY <1>5 DEF Now
  <2> QED BY <1>5, <2>1, <2>2 DEF SameRun
<1>10. Shows(w) = Shows(v)
  BY <1>0, <1>4, <1>5, <1>9, RanSame
<1> DEFINE q == Shows(v).efb
<1>11. Drawn(w, q, v.used, v.jobs) = Drawn(v, q, v.used, v.jobs)
  <2>1. ASSUME NEW j \in v.used..(v.used + v.jobs - 1)
        PROVE  Sampled(v, v.packets[j]) = Sampled(w, w.packets[j])
    <3>1. j \in 0..(DrawArena - 1) /\ j # n
      BY <1>0, <1>1, SMTT(20)
    <3>2. w.packets[j] = v.packets[j]
      BY <1>2, <1>5, <3>1
    <3> QED BY <1>6, <3>2
  <2> HIDE DEF q
  <2>2. q \in Picture
    BY <1>0 DEF q
  <2> DEFINE at == v.used
             m == v.jobs
  <2>3. at \in Nat /\ m \in Nat /\ at + m <= DrawArena /\ v \in Renderers
    BY <1>0
  <2>4. \A j \in at..(at + m - 1) : Sampled(v, v.packets[j]) = Sampled(w, w.packets[j])
    BY <2>1
  <2> HIDE DEF at, m
  <2>5. Drawn(v, q, at, m) = Drawn(w, q, at, m)
    BY <1>4, <2>2, <2>3, <2>4, DrawnSame
  <2> QED BY <2>5 DEF at, m
<1>12. TotalEfb(w) = Painted(TotalEfb(v), Sampled(v, p))
  <2> DEFINE at == v.used
             m == v.jobs
  <2>1. at \in Nat /\ m \in Nat /\ at + m <= DrawArena /\ at + m + 1 <= DrawArena
    BY <1>0, <1>1
  <2>2. q \in Picture
    BY <1>0
  <2> HIDE DEF q
  <2>3. Drawn(w, q, v.used, v.jobs + 1)
            = Painted(Drawn(w, q, v.used, v.jobs), Sampled(w, w.packets[v.used + v.jobs]))
    <3> HIDE DEF at, m
    <3>1. /\ Drawn(w, q, at, m) \in Picture /\ Drawn(w, q, at, 0) = q
          /\ at + m + 1 <= DrawArena =>
                 Drawn(w, q, at, m + 1) = Painted(Drawn(w, q, at, m), Sampled(w, w.packets[at + m]))
      BY <1>4, <2>1, <2>2, DrawnMore
    <3> QED BY <2>1, <3>1 DEF at, m
  <2>4. w.packets[v.used + v.jobs] = p
    BY <1>2, <1>5
  <2>5. TotalEfb(w) = Drawn(w, q, v.used, v.jobs + 1) /\ TotalEfb(v) = Drawn(v, q, v.used, v.jobs)
    BY <1>5, <1>10 DEF TotalEfb, q
  <2> QED BY <1>6, <1>11, <2>3, <2>4, <2>5
<1>13. TotalBack(w) = TotalBack(v)
  BY <1>10 DEF TotalBack
<1>14. /\ Present(w) = Painted(Present(v), Sampled(v, p))
       /\ TotalMemory(w) = TotalMemory(v) /\ Targets(w) = Targets(v)
  BY <1>0, <1>5, <1>12, <1>13 DEF Present, TotalMemory, Targets
<1>15. WaitsGood(w)
  <2> SUFFICES ASSUME NEW j \in Waiting(w), NEW m \in 1..Len(w.packets[j])
               PROVE  w.packets[j][m].offset + w.packets[j][m].length
                          <= w.top[w.packets[j][m].kind]
    BY DEF WaitsGood
  <2>1. CASE j = n
    <3>1. w.packets[j] = p /\ w.top = v.top
      BY <1>2, <1>5, <2>1
    <3> QED BY <1>20, <3>1
  <2>2. CASE j # n
    <3>1. j \in Waiting(v)
      <4>1. CASE j \in v.used..(v.used + (v.jobs + 1) - 1)
        <5>1. j \in v.used..(v.used + v.jobs - 1) /\ j \in Nat
          <6>1. v.used \in Nat /\ v.jobs \in Nat /\ j # v.used + v.jobs
            BY <1>0, <2>2
          <6> QED BY <4>1, <6>1
        <5> QED BY <5>1 DEF Waiting
      <4>2. CASE \E i \in 1..Len(v.commands) :
                     LET c == v.commands[i]
                     IN  c.op = "dispatch" /\ j \in c.at..(c.at + c.count - 1)
        BY <4>2 DEF Waiting
      <4> QED BY <1>5, <4>1, <4>2 DEF Waiting
    <3>2. j \in 0..(DrawArena - 1)
      BY <1>0, <3>1, WaitingType
    <3>3. w.packets[j] = v.packets[j] /\ w.top = v.top
      BY <1>2, <1>5, <2>2, <3>2
    <3> QED BY <1>0, <3>1, <3>3 DEF ArenasGood, WaitsGood
  <2> QED BY <2>1, <2>2
<1>16. \A k \in Kinds : KindGood(w, k)
  BY <1>0, <1>5 DEF ArenasGood, KindGood, EntryGood, Staged
<1>17. Good(w)
  BY <1>4, <1>7, <1>15, <1>16 DEF Good, ArenasGood
<1> QED BY <1>5, <1>14, <1>17

\* resident_record_draw, once the bindings are ready.
LEMMA QueuedIs ==
    ASSUME NEW v, Good(v), v.ok, NEW d \in Draws,
           AllHold(v, d), AllClean(v, d), BindingsReady(v, d)
    PROVE  Painting(v, Queued(v, d), d)
<1> DEFINE x == IF ArenaFull(v) THEN Submitted(v) ELSE v
           y == Begun(x)
           p == Packet(y, d)
           w == Queued(v, d)
<1>0. v \in Renderers /\ DrawGood(v) /\ v.used \in Nat /\ v.jobs \in Nat /\ DrawArena \in Nat
  BY Queue DEF Good
<1>1. /\ Later(v, x) /\ x.used + x.jobs + 2 <= DrawArena
  <2>1. CASE ArenaFull(v)
    <3>1. Later(v, Submitted(v)) /\ Idle(Submitted(v))
      BY <1>0, SubmittedLater
    <3>2. 0 + 0 + 2 <= DrawArena
      BY ResidentAssumption
    <3> QED BY <2>1, <3>1, <3>2 DEF Idle
  <2>2. CASE ~ ArenaFull(v)
    <3>1. x = v /\ Later(v, v)
      BY <1>0, <2>2 DEF Later, SameArenas
    <3>2. ~ v.used + v.jobs + 2 > DrawArena
      BY <2>2 DEF ArenaFull
    <3>3. v.used + v.jobs + 2 <= DrawArena
      BY <1>0, <3>2
    <3> QED BY <3>1, <3>3
  <2> QED BY <2>1, <2>2
<1> HIDE DEF x
<1>2. /\ Later(x, y) /\ y.recording /\ y.used = x.used /\ y.jobs = x.jobs
  BY <1>1, BegunLater DEF Later
<1> HIDE DEF y
<1>3. Later(v, y)
  BY <1>1, <1>2, LaterStill
<1>4. /\ Ahead(v, y) /\ Good(y) /\ y.ok /\ y.cache = v.cache
  BY <1>3, AheadSame DEF Ahead, Onward, Later, SameArenas
<1>5. AllHold(y, d) /\ AllClean(y, d) /\ BindingsReady(y, d)
  <2>1. BindingsReady(y, d)
    BY <1>4 DEF BindingsReady, EntryOf
  <2> QED BY <1>4, <2>1, AllAhead
<1>6. /\ p \in Seq(Stretches)
      /\ \A m \in 1..Len(p) : p[m].offset + p[m].length <= y.top[p[m].kind]
      /\ Sampled(y, p) = Bytes(d, TotalMemory(y))
  BY <1>4, <1>5, PacketIs
<1> HIDE DEF p
<1>7. y.used + y.jobs + 2 <= DrawArena
  BY <1>1, <1>2
<1>8. w = Behind(y, p)
  BY DEF Behind, Queued, Put, p, y, x
<1> HIDE DEF w
<1>12. Fits(y, p)
  BY <1>6, <1>7 DEF Fits
<1>9. /\ Good(w) /\ Present(w) = Painted(Present(y), Sampled(y, p))
      /\ TotalMemory(w) = TotalMemory(y) /\ Targets(w) = Targets(y)
      /\ w.memory = y.memory /\ w.cache = y.cache /\ w.ok = y.ok
  BY <1>2, <1>4, <1>6, <1>8, <1>12, PacketPut
<1>10. AllHold(w, d)
  BY <1>5, <1>9 DEF AllHold, Holds
<1>11. /\ Present(y) = Present(v) /\ TotalMemory(y) = TotalMemory(v)
       /\ Targets(y) \subseteq Targets(v)
  BY <1>3 DEF Later
<1> QED BY <1>4, <1>6, <1>9, <1>10, <1>11 DEF Painting, w

\* resident_record_draw: the triangle is queued, or nothing is seen of the attempt.
LEMMA RecordDrawIs ==
    ASSUME NEW v, Good(v), NEW d \in Draws, AllHold(v, d)
    PROVE  LET w == RecordDraw(v, d) IN
           /\ w.ok => Painting(v, w, d)
           /\ ~ w.ok => Ahead(v, w)
<1> DEFINE x == Bindings(v, d)
           w == RecordDraw(v, d)
<1>1. Ahead(v, x) /\ (x.ok => AllClean(x, d))
  BY BindingsAre
<1> HIDE DEF x
<1>2. Good(x) /\ AllHold(x, d)
  BY <1>1, AllAhead DEF Ahead, Onward
<1>3. CASE ~ x.ok \/ ~ BindingsReady(x, d) \/ (ArenaFull(x) /\ x.jobs = 0)
  <2>1. w = Failed(x)
    BY <1>3 DEF RecordDraw, x
  <2>2. Ahead(x, w) /\ ~ w.ok
    BY <1>2, <2>1, FailedIs
  <2> HIDE DEF w
  <2>3. Ahead(v, w)
    BY <1>1, <2>2, AheadStill
  <2> QED BY <2>2, <2>3 DEF w
<1>4. CASE ~ (~ x.ok \/ ~ BindingsReady(x, d) \/ (ArenaFull(x) /\ x.jobs = 0))
  <2>1. w = Queued(x, d)
    BY <1>4 DEF RecordDraw, x
  <2>2. Painting(x, w, d)
    BY <1>1, <1>2, <1>4, <2>1, QueuedIs
  <2> HIDE DEF w
  <2>3. Painting(v, w, d)
    BY <1>1, <1>2, <2>2 DEF Painting, Ahead, Onward
  <2>4. w.ok
    BY <2>2 DEF Painting
  <2> QED BY <2>3, <2>4 DEF w
<1> QED BY <1>3, <1>4

\* A call that ends in the software planes.
LEMMA SoftwareGood ==
    ASSUME NEW v, Good(v), NEW p \in Picture, NEW m \in Memories,
           NEW w, w = InPlanes(v, p, m)
    PROVE  /\ Good(w) /\ Present(w) = p /\ TotalMemory(w) = m /\ Targets(w) = {}
           /\ w.memory = m /\ w.ok /\ w.cache = v.cache
<1>1. v \in Renderers /\ DrawGood(v) /\ ArenasGood(v)
  BY DEF Good
<1>2. /\ w \in Renderers /\ DrawGood(w) /\ Present(w) = p /\ TotalMemory(w) = m
      /\ Waiting(w) = {} /\ Targets(w) = {} /\ w.memory = m /\ w.ok
      /\ w.cache = v.cache /\ w.order = v.order /\ w.top = v.top /\ w.staging = v.staging
  BY <1>1, SoftwareIs
<1>3. ArenasGood(w)
  BY <1>1, <1>2, ArenasKept
<1> QED BY <1>2, <1>3 DEF Good

\* The fallback of a triangle.
LEMMA InSoftwareIs ==
    ASSUME NEW v, Good(v), NEW d \in Draws
    PROVE  Painting(v, InSoftware(v, d), d)
<1> DEFINE y == Synced(v)
           p == Painted(y.soft, Bytes(d, y.memory))
           m == y.memory
           w == InSoftware(v, d)
<1>1. /\ y \in Renderers /\ m = TotalMemory(v) /\ y.soft = Present(v)
      /\ m \in Memories /\ y.soft \in Picture
  <2>1. Later(v, y) /\ m = TotalMemory(v) /\ y.soft = Present(v)
    BY SyncedLater DEF Good
  <2> HIDE DEF y
  <2> QED BY <2>1 DEF Later, Renderers, Memories
<1>2. p \in Picture
  <2>1. Bytes(d, m) \in Seq(Picture)
    BY <1>1, BytesType
  <2> QED BY <1>1, <2>1, PaintedType
<1>3. w = InPlanes(v, p, m)
  <2>1. w = [y EXCEPT !.valid = FALSE, !.soft = p, !.ok = TRUE]
    BY DEF InSoftware
  <2>2. InPlanes(v, p, m) = [y EXCEPT !.valid = FALSE, !.soft = p, !.memory = y.memory, !.ok = TRUE]
    BY DEF InPlanes
  <2> HIDE DEF y, p, w
  <2> QED BY <1>1, <2>1, <2>2 DEF Renderers
<1> HIDE DEF p, m, w
<1>4. /\ Good(w) /\ Present(w) = p /\ TotalMemory(w) = m /\ Targets(w) = {}
      /\ w.memory = m /\ w.ok /\ w.cache = v.cache
  BY <1>1, <1>2, <1>3, SoftwareGood
<1>5. p = Painted(Present(v), Bytes(d, TotalMemory(v)))
  BY <1>1 DEF p, m
<1>6. ASSUME AllHold(v, d) PROVE AllHold(w, d)
  <2>1. ASSUME NEW a \in Areas(d) PROVE Holds(w, a)
    <3>1. Holds(v, a) /\ a \in Area
      BY <1>6, DrawAreas DEF AllHold
    <3>2. a \notin Targets(w)
      BY <1>4
    <3>3. w.memory[a] = v.memory[a]
      BY <1>1, <1>4, <3>1, TotalElse DEF Holds, Good
    <3> QED BY <1>4, <3>1, <3>2, <3>3 DEF Holds
  <2> QED BY <2>1 DEF AllHold
<1> QED BY <1>1, <1>4, <1>5, <1>6 DEF Painting, w

\* gx_vulkan_resident_triangle.
LEMMA TriangleIs ==
    ASSUME NEW v, Good(v), NEW d \in Draws, NEW supported \in BOOLEAN,
           supported => AllHold(v, d)
    PROVE  Painting(v, Triangle(v, d, supported), d)
<1> DEFINE x == RecordDraw(v, d)
           w == Triangle(v, d, supported)
<1>1. CASE ~ supported
  <2>1. w = InSoftware(v, d)
    BY <1>1 DEF Triangle
  <2> QED BY <2>1, InSoftwareIs
<1>2. CASE supported
  <2>1. (x.ok => Painting(v, x, d)) /\ (~ x.ok => Ahead(v, x))
    BY <1>2, RecordDrawIs
  <2>2. w = IF x.ok THEN x ELSE InSoftware(x, d)
    BY <1>2 DEF Triangle
  <2> HIDE DEF x, w
  <2>3. CASE x.ok
    <3>1. w = x
      BY <2>2, <2>3
    <3> QED BY <2>1, <2>3, <3>1 DEF w
  <2>4. CASE ~ x.ok
    <3>1. w = InSoftware(x, d) /\ Ahead(v, x) /\ Good(x)
      BY <2>1, <2>2, <2>4 DEF Ahead, Onward
    <3>2. Painting(x, w, d)
      BY <3>1, InSoftwareIs
    <3>3. AllHold(v, d) => AllHold(x, d)
      BY <3>1, AllAhead
    <3>4. Painting(v, w, d)
      BY <3>1, <3>2, <3>3 DEF Painting, Ahead, Onward
    <3> QED BY <3>4 DEF w
  <2> QED BY <2>3, <2>4
<1> QED BY <1>1, <1>2

\* n triangles, as Renderer paints them and as the backend makes them.
Times(p, bytes, n) == FoldLeft(LAMBDA q, i : Painted(q, bytes), p, [i \in 1..n |-> i])
Triangles(v, d, n, supported) ==
    FoldLeft(LAMBDA u, i : Triangle(u, d, supported), v, [i \in 1..n |-> i])

\* The pictures between the triangles.
LEMMA TimesTrace ==
    ASSUME NEW p \in Picture, NEW bytes \in Seq(Picture), NEW n \in Nat
    PROVE  \E h : /\ Trace(h, n, Picture, p, [i \in 1..n |-> [q \in Picture |-> Painted(q, bytes)]])
                  /\ Times(p, bytes, n) = h[n]
<1> DEFINE seq == [i \in 1..n |-> i]
           X == Picture
           f == [i \in 1..n |-> [q \in X |-> Painted(q, bytes)]]
           Folds(it) == it = [s \in SUBSET DOMAIN seq |->
                                  IF s = {} THEN p ELSE Painted(it[s \ {Max(s)}], bytes)]
<1>1. Times(p, bytes, n) = (CHOOSE it : Folds(it))[DOMAIN seq]
  BY DEF Times, FoldLeft, MapThenFoldSet
<1>2. n \in Nat /\ DOMAIN seq = 1..n
  OBVIOUS
<1> HIDE DEF seq
<1>4. p \in X
  OBVIOUS
<1>5. \A q \in X, i \in 1..n : Painted(q, bytes) \in X
  BY PaintedType
<1> HIDE DEF X
<1>6. f \in Steps(n, X)
  BY <1>5 DEF Steps
<1>7. PICK it : Solves(it, n, X, p, f)
  <2> HIDE DEF f
  <2> QED BY <1>2, <1>4, <1>6, FoldExists
<1>8. \A s \in SUBSET (1..n) : s # {} => Max(s) \in 1..n /\ s \ {Max(s)} \in SUBSET (1..n)
  BY <1>2, Greatest
<1>9. \E e : Folds(e)
  <2>1. ASSUME NEW s \in SUBSET (1..n)
        PROVE  it[s] = IF s = {} THEN p ELSE Painted(it[s \ {Max(s)}], bytes)
    <3>1. CASE s = {}
      BY <1>7, <3>1 DEF Solves
    <3>2. CASE s # {}
      <4>1. it[s] = f[Max(s)][it[s \ {Max(s)}]] /\ it[s \ {Max(s)}] \in X
        BY <1>7, <1>8, <3>2 DEF Solves
      <4> QED BY <1>2, <1>8, <3>2, <4>1
    <3> QED BY <3>1, <3>2
  <2>2. it = [s \in SUBSET (1..n) |-> it[s]]
    BY <1>7 DEF Solves
  <2>3. Folds(it)
    BY <1>2, <2>1, <2>2
  <2> QED BY <2>3
<1> DEFINE c == CHOOSE e : Folds(e)
<1>10. Folds(c)
  BY <1>9
<1> HIDE DEF c
<1>11. Follows(c, n, X, p, f)
  <2>1. c[{}] = p
    BY <1>2, <1>10
  <2>2. ASSUME NEW s \in SUBSET (1..n), s # {}, c[s \ {Max(s)}] \in X
        PROVE  c[s] = f[Max(s)][c[s \ {Max(s)}]]
    <3>1. c[s] = Painted(c[s \ {Max(s)}], bytes)
      BY <1>2, <1>10, <2>2
    <3>2. Max(s) \in 1..n
      BY <1>8, <2>2
    <3> QED BY <1>2, <2>2, <3>1, <3>2
  <2> QED BY <2>1, <2>2 DEF Follows
<1>12. PICK h : Trace(h, n, X, p, f) /\ h[n] = c[1..n]
  <2> HIDE DEF f
  <2> QED BY <1>2, <1>4, <1>6, <1>11, FoldTrace
<1>13. Times(p, bytes, n) = h[n]
  BY <1>1, <1>2, <1>12 DEF c
<1> QED BY <1>12, <1>13 DEF X

\* The backend shows what Renderer shows after n triangles.
LEMMA TrianglesAre ==
    ASSUME NEW v, Good(v), v.ok, NEW d \in Draws, NEW n \in Nat, NEW supported \in BOOLEAN,
           supported => AllHold(v, d)
    PROVE  LET w == Triangles(v, d, n, supported) IN
           /\ Good(w) /\ w.ok /\ TotalMemory(w) = TotalMemory(v) /\ Targets(w) \subseteq Targets(v)
           /\ Present(w) = Times(Present(v), Bytes(d, TotalMemory(v)), n)
<1> DEFINE seq == [i \in 1..n |-> i]
           X == {w \in Renderers : /\ Good(w) /\ w.ok /\ (supported => AllHold(w, d))
                                   /\ TotalMemory(w) = TotalMemory(v)
                                   /\ Targets(w) \subseteq Targets(v)}
           f == [i \in 1..n |-> [x \in X |-> Triangle(x, d, supported)]]
           Folds(it) == it = [s \in SUBSET DOMAIN seq |->
                                  IF s = {} THEN v ELSE Triangle(it[s \ {Max(s)}], d, supported)]
           bytes == Bytes(d, TotalMemory(v))
<1>1. Triangles(v, d, n, supported) = (CHOOSE it : Folds(it))[DOMAIN seq]
  BY DEF Triangles, FoldLeft, MapThenFoldSet
<1>2. n \in Nat /\ DOMAIN seq = 1..n
  OBVIOUS
<1> HIDE DEF seq
<1>3. ASSUME NEW x \in X
      PROVE  LET w == Triangle(x, d, supported) IN
             w \in X /\ Present(w) = Painted(Present(x), bytes)
  <2> DEFINE w == Triangle(x, d, supported)
  <2>1. /\ Good(x) /\ (supported => AllHold(x, d)) /\ TotalMemory(x) = TotalMemory(v)
        /\ Targets(x) \subseteq Targets(v)
    OBVIOUS
  <2>2. Painting(x, w, d)
    BY <2>1, TriangleIs
  <2> HIDE DEF w
  <2>3. w \in Renderers
    BY <2>2 DEF Painting, Good
  <2>4. w \in X
    BY <2>1, <2>2, <2>3 DEF Painting
  <2>5. Present(w) = Painted(Present(x), bytes)
    BY <2>1, <2>2 DEF Painting
  <2> QED BY <2>4, <2>5 DEF w
<1>4. v \in X
  BY DEF Good
<1>5. \A x \in X, i \in 1..n : Triangle(x, d, supported) \in X
  <2> HIDE DEF X
  <2> QED BY <1>3
<1> HIDE DEF X
<1>6. f \in Steps(n, X)
  BY <1>5 DEF Steps
<1>7. PICK it : Solves(it, n, X, v, f)
  <2> HIDE DEF f
  <2> QED BY <1>2, <1>4, <1>6, FoldExists
<1>8. \A s \in SUBSET (1..n) : s # {} => Max(s) \in 1..n /\ s \ {Max(s)} \in SUBSET (1..n)
  BY <1>2, Greatest
<1>9. \E e : Folds(e)
  <2>1. ASSUME NEW s \in SUBSET (1..n)
        PROVE  it[s] = IF s = {} THEN v ELSE Triangle(it[s \ {Max(s)}], d, supported)
    <3>1. CASE s = {}
      BY <1>7, <3>1 DEF Solves
    <3>2. CASE s # {}
      <4>1. it[s] = f[Max(s)][it[s \ {Max(s)}]] /\ it[s \ {Max(s)}] \in X
        BY <1>7, <1>8, <3>2 DEF Solves
      <4> QED BY <1>2, <1>8, <3>2, <4>1
    <3> QED BY <3>1, <3>2
  <2>2. it = [s \in SUBSET (1..n) |-> it[s]]
    BY <1>7 DEF Solves
  <2>3. Folds(it)
    BY <1>2, <2>1, <2>2
  <2> QED BY <2>3
<1> DEFINE c == CHOOSE e : Folds(e)
<1>10. Folds(c)
  BY <1>9
<1> HIDE DEF c
<1>11. Follows(c, n, X, v, f)
  <2>1. c[{}] = v
    BY <1>2, <1>10
  <2>2. ASSUME NEW s \in SUBSET (1..n), s # {}, c[s \ {Max(s)}] \in X
        PROVE  c[s] = f[Max(s)][c[s \ {Max(s)}]]
    <3>1. c[s] = Triangle(c[s \ {Max(s)}], d, supported)
      BY <1>2, <1>10, <2>2
    <3>2. Max(s) \in 1..n
      BY <1>8, <2>2
    <3> QED BY <1>2, <2>2, <3>1, <3>2
  <2> QED BY <2>1, <2>2 DEF Follows
<1>12. PICK h : Trace(h, n, X, v, f) /\ h[n] = c[1..n]
  <2> HIDE DEF f
  <2> QED BY <1>2, <1>4, <1>6, <1>11, FoldTrace
<1>13. Triangles(v, d, n, supported) = h[n]
  BY <1>1, <1>2, <1>12 DEF c
<1> DEFINE g == [i \in 1..n |-> [q \in Picture |-> Painted(q, bytes)]]
<1>14. Present(v) \in Picture /\ bytes \in Seq(Picture)
  <2>1. /\ v \in Renderers /\ TotalEfb(v) \in Picture /\ TotalMemory(v) \in Memories
    BY TotalType DEF Good
  <2>2. v.soft \in Picture
    BY <2>1 DEF Renderers
  <2> QED BY <2>1, <2>2, BytesType DEF Present
<1> HIDE DEF bytes
<1>15. PICK e : Trace(e, n, Picture, Present(v), g) /\ Times(Present(v), bytes, n) = e[n]
  BY <1>14, TimesTrace
<1> DEFINE U == {i \in 0..n : Present(h[i]) = e[i]}
<1>16. 0 \in U
  BY <1>12, <1>15 DEF Trace
<1>17. ASSUME NEW i \in 1..n, i - 1 \in U PROVE i \in U
  <2>1. i \in 0..n /\ i - 1 \in 0..n
    OBVIOUS
  <2>2. h[i - 1] \in X /\ h[i] = f[i][h[i - 1]] /\ e[i - 1] \in Picture /\ e[i] = g[i][e[i - 1]]
    BY <1>12, <1>15, <2>1 DEF Trace
  <2>3. h[i] = Triangle(h[i - 1], d, supported) /\ e[i] = Painted(e[i - 1], bytes)
    BY <2>2
  <2>4. Present(h[i]) = Painted(Present(h[i - 1]), bytes)
    BY <1>3, <2>2, <2>3 DEF bytes
  <2> QED BY <1>17, <2>1, <2>3, <2>4
<1> HIDE DEF U
<1>18. n \in U
  <2>1. \A i \in 0..n : i \in U
    BY <1>16, <1>17, UpTo
  <2> QED BY <2>1
<1>19. h[n] \in X
  BY <1>12 DEF Trace
<1> QED BY <1>13, <1>15, <1>18, <1>19 DEF X, U, bytes

-----------------------------------------------------------------------------
(* The inductive invariant. *)

\* What is due is what the backend shows when all it has recorded has run.
LEMMA DueIs ==
    ASSUME NEW v, Good(v)
    PROVE  Due(v) = [efb |-> Present(v), memory |-> TotalMemory(v)]
<1> DEFINE w == Submitted(v)
<1>1. w.memory = TotalMemory(v) /\ w.efb = TotalEfb(v)
  BY SubmittedLater DEF Good
<1>2. Due(v) = [efb |-> IF v.valid THEN w.efb ELSE v.soft, memory |-> w.memory]
  BY DEF Due
<1> HIDE DEF w
<1> QED BY <1>1, <1>2 DEF Present

\* The backend is as the lemmas of the calls leave it; what is recorded as a copy's target
\* is owed to the guest; the frame buffer and the memory that are due are the present ones.
Sound(v, o, q) ==
    /\ Good(v) /\ v.ok
    /\ Targets(v) \subseteq o /\ o \subseteq Cells
    /\ q = [efb |-> Present(v), memory |-> TotalMemory(v)]

ResidentInv ==
    /\ Sound(vk, owed, due)
    /\ seen \in Picture \cup {Unseen}

\* What there is at the start.
LEMMA InitGood ==
    Init => Good(vk) /\ vk.ok /\ Idle(vk) /\ ~ vk.valid
            /\ vk.soft = Blank /\ vk.memory = [a \in Cells \cup Palettes |-> Blank]
<1> SUFFICES ASSUME Init
             PROVE  /\ Good(vk) /\ vk.ok /\ Idle(vk) /\ ~ vk.valid
                    /\ vk.soft = Blank /\ vk.memory = [a \in Cells \cup Palettes |-> Blank]
  OBVIOUS
<1> DEFINE memory   == [a \in Cells \cup Palettes |-> Blank]
           packets  == [i \in 0..(DrawArena - 1) |-> <<>>]
           cache    == [k \in Kinds |-> [i \in 1..Slots[k] |-> NoEntry]]
           order    == [k \in Kinds |-> <<>>]
           top      == [k \in Kinds |-> 0]
           staging  == [k \in Kinds |-> [i \in 0..(ArenaSize[k] - 1) |-> Blank]]
           readback == [xfb |-> [i \in 1..XfbRing |-> Blank],
                        tex |-> [i \in 1..TexRing |-> Blank], plane |-> Blank]
<1>1. /\ vk = [cow |-> vk.cow, memory |-> memory, soft |-> Blank, efb |-> Blank,
               valid |-> FALSE, recording |-> FALSE, commands |-> <<>>, jobs |-> 0, used |-> 0,
               packets |-> packets, planes |-> Blank, cache |-> cache, order |-> order,
               top |-> top, staging |-> staging, xfb |-> <<>>, tex |-> <<>>,
               readback |-> readback, ok |-> TRUE]
      /\ vk.cow \in Cow
  BY DEF Init
<1> HIDE DEF memory, packets, cache, order, top, staging, readback
<1>2. Blank \in Picture
  BY PicturesAssumption DEF Blank, Picture
<1>3. memory \in [Area -> Picture]
  BY <1>2 DEF memory, Area
<1>4. packets \in Packets
  BY DEF packets, Packets
<1>5. NoEntry \in Entries /\ NoEntry.area = NoArea /\ NoEntry.current = FALSE
  BY <1>2 DEF NoEntry, Entries
<1>6. cache \in Caches /\ \A k \in Kinds : \A i \in 1..Slots[k] : cache[k][i] = NoEntry
  <2> HIDE DEF NoEntry
  <2>1. \A k \in Kinds : cache[k] = [i \in 1..Slots[k] |-> NoEntry]
    BY DEF cache
  <2>2. \A k \in Kinds : cache[k] \in [1..Slots[k] -> Entries]
    BY <1>5, <2>1
  <2> DEFINE U == UNION {[1..Slots[k] -> Entries] : k \in Kinds}
  <2>3. \A k \in Kinds : cache[k] \in U
    BY <2>2
  <2>4. cache = [k \in Kinds |-> cache[k]]
    BY DEF cache
  <2> HIDE DEF U
  <2>5. cache \in [Kinds -> U]
    <3> HIDE DEF cache
    <3> QED BY <2>3, <2>4
  <2> QED BY <2>1, <2>2, <2>5 DEF Caches, U
<1>7. order \in Orders /\ \A k \in Kinds : order[k] = <<>>
  <2>1. \A k \in Kinds : order[k] = <<>>
    BY DEF order
  <2>2. \A S : <<>> \in Seq(S)
    OBVIOUS
  <2>3. order \in [Kinds -> Seq(Nat)]
    BY <2>2 DEF order
  <2> QED BY <2>1, <2>2, <2>3 DEF Orders
<1>8. top \in Tops
  BY ResidentAssumption DEF top, Tops
<1>9. staging \in Stagings
  <2>1. \A k \in Kinds : staging[k] = [i \in 0..(ArenaSize[k] - 1) |-> Blank]
    BY DEF staging
  <2>2. \A k \in Kinds : staging[k] \in [0..(ArenaSize[k] - 1) -> Picture]
    BY <1>2, <2>1
  <2> DEFINE U == UNION {[0..(ArenaSize[k] - 1) -> Picture] : k \in Kinds}
  <2>3. \A k \in Kinds : staging[k] \in U
    BY <2>2
  <2>4. staging = [k \in Kinds |-> staging[k]]
    BY DEF staging
  <2> HIDE DEF U
  <2>5. staging \in [Kinds -> U]
    <3> HIDE DEF staging
    <3> QED BY <2>3, <2>4
  <2> QED BY <2>2, <2>5 DEF Stagings, U
<1>10. readback \in Readbacks
  BY <1>2 DEF readback, Readbacks
<1>11. vk.cow \in BOOLEAN
  BY <1>1, ResidentAssumption
<1>12. vk \in Renderers
  <2>1. <<>> \in Seq(Commands) /\ <<>> \in Seq(XfbCells) /\ <<>> \in Seq(TexCells)
    OBVIOUS
  <2> DEFINE cow == vk.cow
  <2>2. cow \in BOOLEAN
    BY <1>11
  <2> HIDE DEF cow
  <2>3. [cow |-> cow, memory |-> memory, soft |-> Blank, efb |-> Blank,
               valid |-> FALSE, recording |-> FALSE, commands |-> <<>>, jobs |-> 0, used |-> 0,
               packets |-> packets, planes |-> Blank, cache |-> cache, order |-> order,
               top |-> top, staging |-> staging, xfb |-> <<>>, tex |-> <<>>,
               readback |-> readback, ok |-> TRUE] \in Renderers
    BY <1>2, <1>3, <1>4, <1>6, <1>7, <1>8, <1>9, <1>10, <2>1, <2>2 DEF Renderers
  <2> QED BY <1>1, <2>3 DEF cow
<1>13. /\ vk.ok = TRUE /\ vk.recording = FALSE /\ vk.valid = FALSE /\ vk.commands = <<>>
       /\ vk.jobs = 0 /\ vk.used = 0 /\ vk.xfb = <<>> /\ vk.tex = <<>>
       /\ vk.cache = cache /\ vk.order = order /\ vk.soft = Blank /\ vk.memory = memory
  BY <1>1
<1>14. Idle(vk) /\ DrawGood(vk) /\ Waiting(vk) = {}
  <2>1. Idle(vk)
    BY <1>13 DEF Idle
  <2> QED BY <1>12, <1>13, <2>1, IdleIs
<1>15. ArenasGood(vk)
  <2>1. ASSUME NEW k \in Kinds PROVE KindGood(vk, k)
    <3>1. vk.order[k] = <<>> /\ \A i \in 1..Slots[k] : vk.cache[k][i] = NoEntry
      BY <1>6, <1>7, <1>13
    <3>2. IsInjective(vk.order[k])
      BY <3>1 DEF IsInjective
    <3> HIDE DEF NoEntry
    <3>3. \A i \in 1..Slots[k] : EntryGood(vk, k, i)
      BY <1>5, <3>1 DEF EntryGood
    <3>4. \A i, j \in 1..Slots[k] : i # j => Apart(vk.cache[k][i], vk.cache[k][j])
      BY <1>5, <3>1 DEF Apart
    <3> QED BY <3>2, <3>3, <3>4 DEF KindGood
  <2>2. WaitsGood(vk)
    BY <1>14 DEF WaitsGood
  <2> QED BY <2>1, <2>2 DEF ArenasGood
<1> QED BY <1>12, <1>13, <1>14, <1>15 DEF Good, memory

\* Calls that change nothing that is seen, and copies, leave the backend good.
LEMMA CopiedGood ==
    ASSUME NEW v, Good(v), NEW c, NEW clear \in BOOLEAN, NEW w, Copied(v, w, c, clear)
    PROVE  Good(w) /\ (w.ok <=> v.ok)
<1>1. ArenasGood(w)
  BY ArenasLater DEF Copied, Good
<1> QED BY <1>1 DEF Copied, Good, SameArenas

\* So does a write to a place that nothing is copied to.
LEMMA WrittenGood ==
    ASSUME NEW v, Good(v), NEW a \in Area, a \notin Targets(v), NEW b \in Picture,
           NEW w, w = [v EXCEPT !.memory = [v.memory EXCEPT ![a] = b]]
    PROVE  /\ Good(w) /\ (w.ok <=> v.ok) /\ Targets(w) = Targets(v)
           /\ Present(w) = Present(v) /\ TotalMemory(w) = [TotalMemory(v) EXCEPT ![a] = b]
<1>1. v \in Renderers /\ DrawGood(v) /\ ArenasGood(v)
  BY DEF Good
<1>2. /\ w \in Renderers /\ DrawGood(w)
      /\ SameArenas(v, w) /\ Waiting(w) = Waiting(v) /\ Targets(w) = Targets(v)
      /\ Present(w) = Present(v) /\ TotalMemory(w) = [TotalMemory(v) EXCEPT ![a] = b]
  BY <1>1, WrittenIs
<1>3. ArenasGood(w)
  BY <1>1, <1>2, ArenasLater
<1> QED BY <1>2, <1>3 DEF Good, SameArenas

\* A step: the backend stays sound, and e and m are what is due then.
Lands(e, m) == Sound(vk', owed', due') /\ due'.efb = e /\ due'.memory = m

\* It is enough that the backend is good and what is recorded is owed.
LEMMA LandsAt ==
    ASSUME Good(vk'), vk'.ok, Targets(vk') \subseteq owed', owed' \subseteq Cells, due' = Due(vk')
    PROVE  Lands(Present(vk'), TotalMemory(vk'))
BY DueIs DEF Lands, Sound

\* What ResidentInv says of the present state.
LEMMA AtPresent ==
    ASSUME ResidentInv
    PROVE  /\ Good(vk) /\ vk.ok /\ vk \in Renderers /\ DrawGood(vk)
           /\ Targets(vk) \subseteq owed /\ owed \subseteq Cells
           /\ due.efb = Present(vk) /\ due.memory = TotalMemory(vk)
           /\ Present(vk) \in Picture /\ TotalMemory(vk) \in Memories
           /\ vk.memory \in Memories
<1>1. Good(vk) /\ vk \in Renderers /\ DrawGood(vk)
  BY DEF ResidentInv, Sound, Good
<1>2. TotalEfb(vk) \in Picture /\ TotalMemory(vk) \in Memories /\ vk.memory \in Memories
  BY <1>1, TotalType
<1>3. vk.soft \in Picture
  BY <1>1 DEF Renderers
<1>4. Present(vk) \in Picture
  BY <1>2, <1>3 DEF Present
<1> QED BY <1>1, <1>2, <1>4 DEF ResidentInv, Sound

\* A primitive.
LEMMA DrawLands ==
    ASSUME ResidentInv, NEW d \in Draws, NEW n \in 1..MaxTriangles, NEW supported \in BOOLEAN,
           Draw(d, n, supported), due' = Due(vk')
    PROVE  Lands(Times(due.efb, Bytes(d, due.memory), n), due.memory)
<1> DEFINE v == IF supported THEN DrawValidated(vk, d) ELSE vk
           w == Triangles(v, d, n, supported)
<1>1. Good(vk) /\ vk.ok
  BY AtPresent
<1>2. Onward(vk, v) /\ v.ok /\ (supported => AllHold(v, d))
  <2>1. CASE supported
    <3>1. LET x == DrawValidated(vk, d) IN
             Onward(vk, x) /\ x.ok = vk.ok /\ \A a \in Areas(d) : Holds(x, a)
      BY <1>1, DrawValidatedIs
    <3> QED BY <1>1, <2>1, <3>1 DEF AllHold
  <2>2. CASE ~ supported
    BY <1>1, <2>2 DEF Onward, Good
  <2> QED BY <2>1, <2>2
<1>3. vk' = w /\ owed' = owed
  BY DEF Draw, Triangles
<1> HIDE DEF v
<1>4. n \in Nat
  BY TrianglesAssumption
<1>5. /\ Good(w) /\ w.ok /\ TotalMemory(w) = TotalMemory(v) /\ Targets(w) \subseteq Targets(v)
      /\ Present(w) = Times(Present(v), Bytes(d, TotalMemory(v)), n)
  <2>1. Good(v)
    BY <1>2 DEF Onward
  <2> QED BY <1>2, <1>4, <2>1, TrianglesAre
<1> HIDE DEF w
<1>6. Targets(vk') \subseteq owed' /\ owed' \subseteq Cells
  BY <1>2, <1>3, <1>5, AtPresent DEF Onward
<1>7. Lands(Present(vk'), TotalMemory(vk'))
  BY <1>3, <1>5, <1>6, LandsAt
<1>8. /\ TotalMemory(w) = due.memory
      /\ Present(w) = Times(due.efb, Bytes(d, due.memory), n)
  BY <1>2, <1>5, AtPresent DEF Onward
<1> QED BY <1>3, <1>7, <1>8

\* A copy, on the GPU or in software.
LEMMA CopyLands ==
    ASSUME ResidentInv, NEW c \in Cells, NEW clear \in BOOLEAN, due' = Due(vk'),
           \/ c \in XfbCells /\ CopyXfb(c, clear)
           \/ c \in TexCells /\ CopyTex(c) /\ clear = FALSE
           \/ CopyInSoftware(c, clear)
    PROVE  Lands(IF clear THEN Blank ELSE due.efb, [due.memory EXCEPT ![c] = due.efb])
<1>1. /\ Good(vk) /\ vk.ok /\ vk \in Renderers /\ DrawGood(vk)
      /\ Targets(vk) \subseteq owed /\ owed \subseteq Cells
      /\ due.efb = Present(vk) /\ due.memory = TotalMemory(vk)
      /\ Present(vk) \in Picture /\ TotalMemory(vk) \in Memories
  BY AtPresent
<1>2. ASSUME Copied(vk, vk', c, clear), owed' = owed \cup {c}
      PROVE  Lands(IF clear THEN Blank ELSE due.efb, [due.memory EXCEPT ![c] = due.efb])
  <2>1. Good(vk') /\ vk'.ok
    BY <1>1, <1>2, CopiedGood
  <2>2. Targets(vk') \subseteq owed' /\ owed' \subseteq Cells
    BY <1>1, <1>2 DEF Copied
  <2>3. Lands(Present(vk'), TotalMemory(vk'))
    BY <2>1, <2>2, LandsAt
  <2> QED BY <1>1, <1>2, <2>3 DEF Copied
<1>3. CASE c \in XfbCells /\ CopyXfb(c, clear)
  <2>1. vk' = FrameCopy(vk, c, clear) /\ owed' = owed \cup {c}
    BY <1>3 DEF CopyXfb, FrameCopy
  <2>2. Copied(vk, vk', c, clear)
    BY <1>1, <1>3, <2>1, FrameCopyIs
  <2> QED BY <1>2, <2>1, <2>2, ZenonT(20)
<1>4. CASE c \in TexCells /\ CopyTex(c) /\ clear = FALSE
  <2>1. vk' = TextureCopy(vk, c) /\ owed' = owed \cup {c}
    BY <1>4 DEF CopyTex, TextureCopy
  <2>2. Copied(vk, vk', c, FALSE)
    BY <1>1, <1>4, <2>1, TextureCopyIs
  <2>3. Copied(vk, vk', c, clear)
    BY <1>4, <2>2 DEF Copied
  <2> QED BY <1>2, <2>1, <2>3
<1>5. CASE CopyInSoftware(c, clear)
  <2> DEFINE v == Synced(vk)
             p == IF clear THEN Blank ELSE v.soft
             m == [v.memory EXCEPT ![c] = v.soft]
  <2>1. /\ v \in Renderers /\ v.ok = TRUE
        /\ v.soft = Present(vk) /\ v.memory = TotalMemory(vk)
    <3>1. Later(vk, v) /\ v.soft = Present(vk) /\ v.memory = TotalMemory(vk)
      BY <1>1, SyncedLater
    <3> HIDE DEF v
    <3>2. v \in Renderers /\ v.ok
      BY <1>1, <3>1 DEF Later, SameArenas
    <3>3. v.ok \in BOOLEAN
      BY <3>2 DEF Renderers
    <3> QED BY <3>1, <3>2, <3>3
  <2>2. vk' = [v EXCEPT !.valid = FALSE, !.memory = m, !.soft = p] /\ owed' = owed \cup {c}
    BY <1>5 DEF CopyInSoftware
  <2>3. p \in Picture /\ m \in Memories
    <3>1. Blank \in Picture
      BY PicturesAssumption DEF Blank, Picture
    <3> HIDE DEF v
    <3> QED BY <1>1, <2>1, <3>1 DEF Memories
  <2>4. vk' = InPlanes(vk, p, m)
    <3>1. InPlanes(vk, p, m) = [v EXCEPT !.valid = FALSE, !.soft = p, !.memory = m, !.ok = TRUE]
      BY DEF InPlanes
    <3> HIDE DEF v, p, m
    <3> QED BY <2>1, <2>2, <3>1 DEF Renderers
  <2>5. p = (IF clear THEN Blank ELSE due.efb) /\ m = [due.memory EXCEPT ![c] = due.efb]
    <3> HIDE DEF v
    <3> QED BY <1>1, <2>1
  <2> HIDE DEF v, p, m
  <2>6. /\ Good(vk') /\ Present(vk') = p /\ TotalMemory(vk') = m /\ Targets(vk') = {} /\ vk'.ok
    BY <1>1, <2>3, <2>4, SoftwareGood
  <2>7. Lands(Present(vk'), TotalMemory(vk'))
    BY <1>1, <2>2, <2>6, LandsAt
  <2> QED BY <2>5, <2>6, <2>7
<1> QED BY <1>3, <1>4, <1>5

\* A write to a place that nothing is copied to.
LEMMA WriteLands ==
    ASSUME ResidentInv, NEW a \in Area, a \notin owed, NEW b \in Picture, due' = Due(vk'),
           vk' = [vk EXCEPT !.memory[a] = b], owed' = owed
    PROVE  Lands(due.efb, [due.memory EXCEPT ![a] = b])
<1>1. /\ Good(vk) /\ vk.ok /\ Targets(vk) \subseteq owed /\ owed \subseteq Cells
      /\ due.efb = Present(vk) /\ due.memory = TotalMemory(vk)
  BY AtPresent
<1>2. a \notin Targets(vk) /\ vk' = [vk EXCEPT !.memory = [vk.memory EXCEPT ![a] = b]]
  BY <1>1
<1>3. /\ Good(vk') /\ (vk'.ok <=> vk.ok) /\ Targets(vk') = Targets(vk)
      /\ Present(vk') = Present(vk) /\ TotalMemory(vk') = [TotalMemory(vk) EXCEPT ![a] = b]
  BY <1>1, <1>2, WrittenGood
<1>4. Lands(Present(vk'), TotalMemory(vk'))
  BY <1>1, <1>3, LandsAt
<1> QED BY <1>1, <1>3, <1>4

\* The submissions.
LEMMA SubmitLands ==
    ASSUME ResidentInv, due' = Due(vk'), owed' = {},
           vk' = Submitted(vk) \/ vk' = Synced(Submitted(vk))
    PROVE  /\ Lands(due.efb, due.memory)
           /\ vk' = Synced(Submitted(vk)) => vk'.soft = due.efb
<1>1. /\ Good(vk) /\ vk.ok /\ due.efb = Present(vk) /\ due.memory = TotalMemory(vk)
  BY AtPresent
<1> DEFINE v == Submitted(vk)
           w == Synced(v)
<1>2. Later(vk, v) /\ Idle(v)
  BY <1>1, SubmittedLater DEF Good
<1> HIDE DEF v
<1>3. Later(v, w) /\ Idle(w) /\ w.soft = Present(v)
  BY <1>2, SyncedLater DEF Later
<1> HIDE DEF w
<1>4. Later(vk, w)
  BY <1>2, <1>3, LaterStill
<1>5. PICK x \in {v, w} : vk' = x
  BY DEF v, w
<1>6. Later(vk, vk') /\ Idle(vk')
  BY <1>2, <1>3, <1>4, <1>5
<1>7. Targets(vk') = {} /\ Good(vk') /\ vk'.ok /\ Present(vk') = Present(vk)
      /\ TotalMemory(vk') = TotalMemory(vk)
  <2>1. Targets(vk') = {}
    BY <1>6, IdleIs DEF Later, DrawGood
  <2>2. Onward(vk, vk')
    BY <1>1, <1>6, OnwardLater
  <2> QED BY <1>1, <1>6, <2>1, <2>2 DEF Onward, Later, SameArenas
<1>8. Lands(Present(vk'), TotalMemory(vk'))
  BY <1>7, LandsAt
<1>9. w.soft = due.efb
  BY <1>1, <1>2, <1>3 DEF Later
<1> QED BY <1>1, <1>7, <1>8, <1>9 DEF w, v

\* The abstract renderer paints in the same way.
LEMMA AbstractBytes ==
    ASSUME NEW d, NEW m
    PROVE  Abstract!Bytes(d, m) = Bytes(d, m)
<1>1. \A q : Abstract!FlattenSeq(q) = FlattenSeq(q)
  BY DEF Abstract!FlattenSeq, FlattenSeq
<1>2. Abstract!Bound(d) = Bound(d)
  BY <1>1 DEF Abstract!Bound, Bound
<1> QED BY <1>1, <1>2 DEF Abstract!Bytes, Bytes

\* Its triangle is the same triangle.
LEMMA AbstractPainted ==
    ASSUME NEW p, NEW bytes
    PROVE  Abstract!Painted(p, bytes) = Painted(p, bytes)
BY DEF Abstract!Painted, Painted, Abstract!FoldLeft, FoldLeft,
       Abstract!MapThenFoldSet, MapThenFoldSet, Abstract!Max, Max

\* n triangles from the same bytes; n draws of d from memory m.
PaintedTimes(p, b, n) ==
    Abstract!FoldLeft(LAMBDA q, i : Abstract!Painted(q, b), p, [i \in 1..n |-> i])
TimesAbstract(p, d, m, n) ==
    Abstract!FoldLeft(LAMBDA q, i : Abstract!Painted(q, Abstract!Bytes(d, m)),
                      p, [i \in 1..n |-> i])

\* And n of them.
LEMMA AbstractTimes ==
    ASSUME NEW p, NEW d, NEW m, NEW n
    PROVE  TimesAbstract(p, d, m, n) = Times(p, Bytes(d, m), n)
<1> DEFINE b == Abstract!Bytes(d, m)
<1>1. TimesAbstract(p, d, m, n) = PaintedTimes(p, b, n)
  BY DEF TimesAbstract, PaintedTimes
<1>2. b = Bytes(d, m)
  BY AbstractBytes
<1> HIDE DEF b
<1>3. PaintedTimes(p, b, n) = Times(p, b, n)
  BY DEF PaintedTimes, Times, Abstract!Painted, Painted, Abstract!FoldLeft, FoldLeft,
         Abstract!MapThenFoldSet, MapThenFoldSet, Abstract!Max, Max
<1> QED BY <1>1, <1>2, <1>3

\* Every operation of the guest keeps the invariant, and is one of the abstract renderer.
LEMMA Operates ==
    ASSUME ResidentInv, Operation, due' = Due(vk')
    PROVE  ResidentInv' /\ Abstract!Next
<1>0. /\ Good(vk) /\ vk.ok /\ vk \in Renderers /\ DrawGood(vk)
      /\ Targets(vk) \subseteq owed /\ owed \subseteq Cells
      /\ due.efb = Present(vk) /\ due.memory = TotalMemory(vk)
      /\ Present(vk) \in Picture /\ TotalMemory(vk) \in Memories
      /\ vk.memory \in Memories
  BY AtPresent
<1>1. ASSUME NEW e, NEW m, Lands(e, m), seen' \in Picture \cup {Unseen}
      PROVE  ResidentInv' /\ due'.efb = e /\ due'.memory = m
  <2>1. Sound(vk, owed, due)' /\ (seen \in Picture \cup {Unseen})'
    BY <1>1 DEF Lands
  <2> QED BY <1>1, <2>1 DEF ResidentInv, Lands
<1>2. ASSUME NEW c \in Cells, c \notin owed
      PROVE  vk.memory[c] \in Picture /\ vk.memory[c] = due.memory[c]
  <2>1. c \in Area /\ c \notin Targets(vk)
    BY <1>0, <1>2 DEF Area
  <2>2. TotalMemory(vk)[c] = vk.memory[c]
    BY <1>0, <2>1, TotalElse
  <2> QED BY <1>0, <2>1, <2>2 DEF Memories
<1>3. ASSUME NEW d \in Draws, NEW n \in 1..MaxTriangles, NEW supported \in BOOLEAN,
             Draw(d, n, supported)
      PROVE  ResidentInv' /\ Abstract!Next
  <2>1. Lands(Times(due.efb, Bytes(d, due.memory), n), due.memory)
    BY <1>3, DrawLands
  <2>2. seen' = Unseen /\ owed' = owed
    BY <1>3 DEF Draw
  <2>3. /\ ResidentInv' /\ due'.efb = Times(due.efb, Bytes(d, due.memory), n)
        /\ due'.memory = due.memory
    BY <1>1, <2>1, <2>2
  <2>4. Abstract!Draw(d, n)
    <3>1. due'.efb = TimesAbstract(due.efb, d, due.memory, n)
      BY <2>3, AbstractTimes
    <3>2. /\ due.efb' = TimesAbstract(due.efb, d, due.memory, n)
          /\ seen' = Abstract!Unseen
          /\ UNCHANGED <<due.memory, owed>>
      BY <2>2, <2>3, <3>1 DEF Abstract!Unseen, Unseen
    <3> QED BY <3>2, Zenon DEF Abstract!Draw, TimesAbstract
  <2> QED BY <2>3, <2>4, Zenon DEF Abstract!Next
<1>4. ASSUME NEW c \in Cells, NEW clear \in BOOLEAN,
             \/ c \in XfbCells /\ CopyXfb(c, clear)
             \/ c \in TexCells /\ CopyTex(c) /\ clear = FALSE
             \/ CopyInSoftware(c, clear)
      PROVE  ResidentInv' /\ Abstract!Next
  <2>1. Lands(IF clear THEN Blank ELSE due.efb, [due.memory EXCEPT ![c] = due.efb])
    BY <1>4, CopyLands, Zenon
  <2>2. seen' = Unseen /\ owed' = owed \cup {c}
    BY <1>4, Zenon DEF CopyXfb, CopyTex, CopyInSoftware
  <2>3. /\ ResidentInv' /\ due'.efb = (IF clear THEN Blank ELSE due.efb)
        /\ due'.memory = [due.memory EXCEPT ![c] = due.efb]
    BY <1>1, <2>1, <2>2
  <2>4. Abstract!Copy(c, clear)
    BY <2>2, <2>3 DEF Abstract!Copy, Abstract!Unseen, Unseen, Abstract!Blank, Blank
  <2> QED BY <2>3, <2>4 DEF Abstract!Next
<1>5. ASSUME NEW c \in Cells, NEW p \in Palettes, LoadPalette(c, p)
      PROVE  ResidentInv' /\ Abstract!Next
  <2>1. /\ c \notin owed /\ vk' = [vk EXCEPT !.memory[p] = vk.memory[c]]
        /\ seen' = Unseen /\ owed' = owed
    BY <1>5 DEF LoadPalette
  <2>2. p \in Area /\ p \notin owed
    BY <1>0, AreasAssumption DEF Area
  <2>3. vk.memory[c] \in Picture /\ vk.memory[c] = due.memory[c]
    BY <1>2, <2>1
  <2>4. Lands(due.efb, [due.memory EXCEPT ![p] = vk.memory[c]])
    BY <2>1, <2>2, <2>3, WriteLands
  <2>5. /\ ResidentInv' /\ due'.efb = due.efb
        /\ due'.memory = [due.memory EXCEPT ![p] = vk.memory[c]]
    BY <1>1, <2>1, <2>4
  <2>6. Abstract!LoadPalette(c, p)
    BY <2>1, <2>3, <2>5 DEF Abstract!LoadPalette, Abstract!Unseen, Unseen
  <2> QED BY <2>5, <2>6 DEF Abstract!Next
<1>6. ASSUME NEW c \in Cells, GuestReads(c)
      PROVE  ResidentInv' /\ Abstract!Next
  <2>1. c \notin owed /\ seen' = vk.memory[c] /\ vk' = vk /\ owed' = owed
    BY <1>6 DEF GuestReads
  <2>2. vk.memory[c] \in Picture /\ vk.memory[c] = due.memory[c]
    BY <1>2, <2>1
  <2>3. Good(vk') /\ vk'.ok /\ Targets(vk') \subseteq owed' /\ owed' \subseteq Cells
    BY <1>0, <2>1
  <2>4. Lands(Present(vk'), TotalMemory(vk'))
    BY <2>3, LandsAt
  <2>5. Lands(due.efb, due.memory)
    BY <1>0, <2>1, <2>4
  <2>6. ResidentInv' /\ due'.efb = due.efb /\ due'.memory = due.memory
    BY <1>1, <2>1, <2>2, <2>5
  <2>7. Abstract!GuestReads(c)
    BY <2>1, <2>2, <2>6 DEF Abstract!GuestReads
  <2> QED BY <2>6, <2>7 DEF Abstract!Next
<1>7. ASSUME NEW c \in Cells, NEW b \in Values, GuestWrites(c, b)
      PROVE  ResidentInv' /\ Abstract!Next
  <2>1. /\ c \notin owed /\ vk' = [vk EXCEPT !.memory[c] = b]
        /\ seen' = Unseen /\ owed' = owed
    BY <1>7 DEF GuestWrites
  <2>2. c \in Area /\ b \in Picture
    BY ValuesAssumption DEF Area, Picture
  <2>4. Lands(due.efb, [due.memory EXCEPT ![c] = b])
    BY <2>1, <2>2, WriteLands
  <2>5. /\ ResidentInv' /\ due'.efb = due.efb
        /\ due'.memory = [due.memory EXCEPT ![c] = b]
    BY <1>1, <2>1, <2>4
  <2>6. Abstract!GuestWrites(c, b)
    BY <2>1, <2>5 DEF Abstract!GuestWrites, Abstract!Unseen, Unseen
  <2> QED BY <2>5, <2>6 DEF Abstract!Next
<1>8. CASE Fence \/ Save
  <2>1. vk' = Submitted(vk) /\ owed' = {} /\ seen' = Unseen
    BY <1>8 DEF Fence, Save
  <2>2. Lands(due.efb, due.memory)
    BY <2>1, SubmitLands
  <2>3. ResidentInv' /\ due'.efb = due.efb /\ due'.memory = due.memory
    BY <1>1, <2>1, <2>2
  <2>4. Abstract!Fence
    BY <2>1, <2>3 DEF Abstract!Fence, Abstract!Unseen, Unseen
  <2> QED BY <2>3, <2>4 DEF Abstract!Next
<1>9. CASE Peek
  <2>1. vk' = Synced(Submitted(vk)) /\ owed' = {} /\ seen' = vk'.soft
    BY <1>9 DEF Peek
  <2>2. Lands(due.efb, due.memory) /\ seen' = due.efb
    BY <2>1, SubmitLands
  <2>3. ResidentInv' /\ due'.efb = due.efb /\ due'.memory = due.memory
    BY <1>0, <1>1, <2>2
  <2>4. Abstract!Peek
    BY <2>1, <2>2, <2>3 DEF Abstract!Peek
  <2> QED BY <2>3, <2>4 DEF Abstract!Next
<1>10. CASE \E d \in Draws, n \in 1 .. MaxTriangles, supported \in BOOLEAN : Draw(d, n, supported)
  BY <1>3, <1>10
<1>11. CASE \E c \in XfbCells, clear \in BOOLEAN : CopyXfb(c, clear)
  BY <1>4, <1>11, TargetsAssumption
<1>12. CASE \E c \in TexCells : CopyTex(c)
  BY <1>4, <1>12, TargetsAssumption
<1>13. CASE \E c \in XfbCells \cup TexCells, clear \in BOOLEAN : CopyInSoftware(c, clear)
  BY <1>4, <1>13, TargetsAssumption
<1>14. CASE \E c \in Cells, p \in Palettes : LoadPalette(c, p)
  BY <1>5, <1>14
<1>15. CASE \E c \in Cells : GuestReads(c) \/ \E b \in Values : GuestWrites(c, b)
  BY <1>6, <1>7, <1>15
<1> QED
  BY <1>8, <1>9, <1>10, <1>11, <1>12, <1>13, <1>14, <1>15 DEF Operation

\* At the start nothing is recorded.
LEMMA Initial == Init => ResidentInv /\ Abstract!Init
<1> SUFFICES ASSUME Init PROVE ResidentInv /\ Abstract!Init
  OBVIOUS
<1>1. /\ Good(vk) /\ vk.ok /\ Idle(vk) /\ ~ vk.valid
      /\ vk.soft = Blank /\ vk.memory = [a \in Cells \cup Palettes |-> Blank]
  BY InitGood
<1>2. /\ owed = {} /\ seen = Unseen
      /\ due = [efb |-> Blank, memory |-> [a \in Cells \cup Palettes |-> Blank]]
  BY DEF Init
<1>3. Targets(vk) = {} /\ TotalMemory(vk) = vk.memory /\ Present(vk) = Blank
  BY <1>1, IdleIs DEF Good, DrawGood, Present
<1>4. ResidentInv
  BY <1>1, <1>2, <1>3 DEF ResidentInv, Sound
<1>5. Abstract!Init
  BY <1>2 DEF Abstract!Init, Abstract!Blank, Blank, Abstract!Unseen, Unseen
<1> QED BY <1>4, <1>5

\* A step of the specification.
LEMMA StepsOn == ResidentInv /\ [Next]_vars => ResidentInv' /\ [Abstract!Next]_Abstract!vars
<1> SUFFICES ASSUME ResidentInv, [Next]_vars PROVE ResidentInv' /\ [Abstract!Next]_Abstract!vars
  OBVIOUS
<1>1. CASE Next
  BY <1>1, Operates DEF Next
<1>2. CASE UNCHANGED vars
  BY <1>2 DEF vars, ResidentInv, Abstract!vars
<1> QED BY <1>1, <1>2

\* What the invariant says is not only that the state has its types.
LEMMA Types == ResidentInv => TypeOK
<1> SUFFICES ASSUME ResidentInv PROVE TypeOK
  OBVIOUS
<1>0. /\ Good(vk) /\ vk.ok /\ vk \in Renderers /\ DrawGood(vk) /\ ArenasGood(vk)
      /\ owed \subseteq Cells /\ vk.memory \in Memories /\ seen \in Picture \cup {Unseen}
  BY AtPresent DEF Good, ResidentInv
<1>1. {vk.soft, vk.efb, vk.planes, vk.readback.plane} \subseteq Picture
  BY <1>0 DEF Renderers, Readbacks
<1>2. ASSUME NEW k \in Kinds
      PROVE  /\ vk.top[k] \in 0..ArenaSize[k]
             /\ IsInjective(vk.order[k])
             /\ \A i \in 1..Slots[k] : LET e == vk.cache[k][i] IN
                   e.area # NoArea => Kind(e.area) = k /\ i \in ToSet(vk.order[k])
  <2>1. vk.top[k] \in Nat /\ vk.top[k] <= ArenaSize[k] /\ ArenaSize[k] \in Nat
    BY <1>0, ResidentAssumption DEF Renderers, Tops
  <2>2. KindGood(vk, k)
    BY <1>0 DEF ArenasGood
  <2>3. IsInjective(vk.order[k]) /\ \A i \in 1..Slots[k] : EntryGood(vk, k, i)
    BY <2>2 DEF KindGood
  <2>4. \A i \in 1..Slots[k] : LET e == vk.cache[k][i] IN
            e.area # NoArea => Kind(e.area) = k /\ i \in ToSet(vk.order[k])
    BY <2>3 DEF EntryGood
  <2>5. vk.top[k] \in 0..ArenaSize[k]
    BY <2>1
  <2> QED BY <2>3, <2>4, <2>5
<1>3. /\ vk.used + vk.jobs + (IF vk.jobs = 0 THEN 0 ELSE 1) <= DrawArena
      /\ Len(vk.xfb) <= XfbRing /\ Len(vk.tex) <= TexRing
  BY <1>0 DEF DrawGood
<1> QED BY <1>0, <1>1, <1>2, <1>3 DEF TypeOK, Memories, Area

\* Through every sequence of the guest's operations the backend stays sound: what is
\* staged for a recorded triangle stays until it has run, every entry's bytes are where its
\* packets point, and what is recorded adds up to the frame buffer and memory that are due.
THEOREM InductiveInvariant == Spec => []ResidentInv
<1>1. Init => ResidentInv
  BY Initial
<1>2. ResidentInv /\ [Next]_vars => ResidentInv'
  BY StepsOn
<1> QED BY <1>1, <1>2, PTL DEF Spec

\* Every part of the backend keeps its type and its place in the arenas and rings
\* (the capacity tests of resident_record_draw, the copies and ensure_resident_texture).
THEOREM Typing == Spec => []TypeOK
BY InductiveInvariant, Types, PTL

\* Recording, batching, staging, versions, the rings and the change between GPU and
\* software are not seen: the backend implements a renderer that does each command at once.
THEOREM Refinement == Spec => ImplementsRenderer
<1>1. Init => Abstract!Init
  BY Initial
<1>2. ResidentInv /\ [Next]_vars => [Abstract!Next]_Abstract!vars
  BY StepsOn
<1> QED BY <1>1, <1>2, InductiveInvariant, PTL DEF Spec, ImplementsRenderer, Abstract!Spec
=============================================================================
