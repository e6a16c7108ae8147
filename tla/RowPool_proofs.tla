--------------------------- MODULE RowPool_proofs ---------------------------
(***************************************************************************)
(* What holds of RowPool for any finite set of workers, any number of rows *)
(* and of triangles, and any number of fork ids, one included: a claim is  *)
(* valid for the word it swaps, so a fork id that comes round again is     *)
(* harmless.                                                               *)
(***************************************************************************)
EXTENDS RowPool, FiniteSetTheorems, TLAPS

Owners == {t \in Threads : Owns(t)}

\* From the publication of a fork's word to its join.
Forked == pc[Main] \in LoopPcs \cup {"bump", "wake", "join"}

Marked(k) == image[k] # <<>> /\ image[k][Len(image[k])] = <<tri, tri>>

Unscanned(k) == grab.next <= k \/ \E t \in Threads : pc[t] = "scan" /\ row[t] = k

\* A row is one thread's, from its claim until it is counted.
ClaimsHold ==
    /\ \A t \in Threads : pc[t] = "claim" => cur[t].next < cur[t].nrows
    /\ \A t \in Threads : Owns(t) => row[t] < grab.next
    /\ \A t, u \in Threads : Owns(t) /\ Owns(u) /\ row[t] = row[u] => t = u

\* In a fork the word and the job are this triangle's, and every row claimed is
\* either counted or owned.
ForkHolds ==
    Forked =>
        /\ grab.nrows = size /\ job = tri
        /\ rowsDone + Cardinality(Owners) = grab.next
        /\ \A k \in RowIds : k < size => (Marked(k) <=> ~ Unscanned(k))

\* Between forks no row is owned, and no claim on the old word can succeed.
QuietHolds == ~ Forked => Owners = {} /\ grab.next = grab.nrows

MainHolds ==
    /\ pc[Main] = "idle" <=> size = 0
    /\ tev[Main] = tri
    /\ Forked \/ pc[Main] \in {"job", "reset", "word"} => \A t \in Threads : tev[t] = tri
    /\ pc[Main] \in {"reset", "word"} => job = tri
    /\ pc[Main] = "word" => rowsDone = 0
    /\ pc[Main] \in {"template", "job", "reset", "word"} => \A k \in RowIds : ~ Marked(k)
    /\ pc[Main] = "serial" =>
          row[Main] <= size /\ \A k \in RowIds : Marked(k) <=> k < row[Main]

\* Nothing was scanned for a triangle to come.
PastHolds ==
    \A k \in RowIds : image[k] # <<>> => image[k][Len(image[k])][1] <= tri

IInv ==
    TypeOK /\ NoMissedWake /\ ClaimsHold /\ ForkHolds /\ QuietHolds /\ MainHolds /\ PastHolds

-----------------------------------------------------------------------------
(* The owners, and what a scan adds to the image. *)

\* There are finitely many threads, so the owners of rows can be counted.
LEMMA OwnersFinite == IsFiniteSet(Owners) /\ Cardinality(Owners) \in Nat
<1>1. IsFiniteSet(Threads)
  BY ThreadsAssumption, FS_AddElement DEF Threads
<1>2. Owners \subseteq Threads
  BY DEF Owners
<1> QED
  BY <1>1, <1>2, FS_Subset, FS_CardinalityType

\* What was scanned last in a row is the last of its sequence.
LEMMA LastAppended ==
    ASSUME NEW s \in Seq(Nat \X Nat), NEW e \in Nat \X Nat
    PROVE  /\ Append(s, e) \in Seq(Nat \X Nat)
           /\ Append(s, e) # <<>>
           /\ Append(s, e)[Len(Append(s, e))] = e
  OBVIOUS

\* A step of another thread's loop leaves the main thread where it is; a step of
\* its own keeps it in the fork.
LEMMA MainPlace ==
    ASSUME TypeOK, NEW t \in Threads, LoopStep(t)
    PROVE  /\ \/ pc'[Main] = pc[Main]
              \/ pc[Main] \in LoopPcs /\ pc'[Main] \in LoopPcs \cup {"join"}
           /\ Forked' <=> Forked
           /\ pc'[Main] \in MainPcs \cup LoopPcs
           /\ \A w \in Workers : pc'[w] \in WorkerPcs \cup LoopPcs
           /\ pc' \in [Threads -> MainPcs \cup WorkerPcs \cup LoopPcs]
<1> USE ThreadsAssumption
<1>1. \E to \in LoopPcs \cup {Return(t)} : pc[t] \in LoopPcs /\ pc' = [pc EXCEPT ![t] = to]
  BY DEF TypeOK, LoopStep, Load, Claim, Scan, Count, At, LoopPcs
<1>2. PICK to \in LoopPcs \cup {Return(t)} :
          pc[t] \in LoopPcs /\ pc' = [pc EXCEPT ![t] = to]
  BY <1>1
<1>3. t = Main \/ t \in Workers
  BY DEF Threads
<1>4. CASE t = Main
  BY <1>2, <1>4 DEF TypeOK, Return, MainPcs, WorkerPcs, LoopPcs, Threads, Forked
<1>5. CASE t \in Workers
  BY <1>2, <1>5 DEF TypeOK, Return, MainPcs, WorkerPcs, LoopPcs, Threads, Forked
<1> QED
  BY <1>3, <1>4, <1>5

\* Looking at the word keeps the invariant: only a word with rows left is claimed.
LEMMA LoadIInv == ASSUME IInv, NEW t \in Threads, Load(t) PROVE IInv'
<1> USE ThreadsAssumption DEF IInv, Load, At, shared, draw
<1>0. LoopStep(t)
  BY DEF LoopStep
<1>1. TypeOK'
  BY <1>0, MainPlace DEF TypeOK
<1>2. NoMissedWake'
  BY <1>0, MainPlace DEF NoMissedWake, TypeOK, Return, Threads, LoopPcs
<1>3. Owners' = Owners
  BY DEF Owners, Owns, TypeOK, Return
<1>4. ClaimsHold'
  BY DEF ClaimsHold, TypeOK, Owns, Return, MayClaim
<1>5. ForkHolds'
  <2>1. \A k \in RowIds : (Marked(k)' <=> Marked(k)) /\ (Unscanned(k)' <=> Unscanned(k))
    BY DEF Marked, Unscanned, TypeOK, Return
  <2> QED
    BY <1>0, <1>3, <2>1, MainPlace DEF ForkHolds
<1>6. QuietHolds'
  BY <1>0, <1>3, MainPlace DEF QuietHolds
<1>7. MainHolds'
  BY <1>0, MainPlace DEF MainHolds, Marked, LoopPcs, Forked
<1>8. PastHolds'
  BY DEF PastHolds
<1> QED
  BY <1>1, <1>2, <1>4, <1>5, <1>6, <1>7, <1>8

\* A claim that succeeds has the next row of this fork; one that fails changes nothing.
LEMMA ClaimIInv == ASSUME IInv, NEW t \in Threads, Claim(t) PROVE IInv'
<1> USE ThreadsAssumption DEF IInv, Claim, draw
<1>0. LoopStep(t) /\ pc[t] = "claim" /\ t \notin Owners
  BY DEF LoopStep, Owners, Owns
<1>1. CASE grab # cur[t]
  <2>1. /\ pc' = [pc EXCEPT ![t] = "load"]
        /\ UNCHANGED <<grab, row, epoch, rowsDone, job, tev, cur, lastSeen, tri, size, image>>
    BY <1>1
  <2>2. TypeOK'
    BY <1>0, <2>1, MainPlace DEF TypeOK
  <2>3. NoMissedWake'
    BY <1>0, <2>1, MainPlace DEF NoMissedWake, TypeOK, Threads, LoopPcs
  <2>4. Owners' = Owners
    BY <2>1, <1>0 DEF Owners, Owns, TypeOK
  <2>5. ClaimsHold'
    BY <2>1, <1>0 DEF ClaimsHold, TypeOK, Owns
  <2>6. ForkHolds'
    <3>1. \A k \in RowIds : (Marked(k)' <=> Marked(k)) /\ (Unscanned(k)' <=> Unscanned(k))
      BY <2>1, <1>0 DEF Marked, Unscanned, TypeOK
    <3> QED
      BY <1>0, <2>1, <2>4, <3>1, MainPlace DEF ForkHolds
  <2>7. QuietHolds'
    BY <1>0, <2>1, <2>4, MainPlace DEF QuietHolds
  <2>8. MainHolds'
    BY <1>0, <2>1, MainPlace DEF MainHolds, Marked, LoopPcs, Forked
  <2>9. PastHolds'
    BY <2>1 DEF PastHolds
  <2> QED
    BY <2>2, <2>3, <2>5, <2>6, <2>7, <2>8, <2>9
<1>2. CASE grab = cur[t]
  <2>1. /\ pc' = [pc EXCEPT ![t] = "scan"]
        /\ grab' = [grab EXCEPT !.next = @ + 1]
        /\ row' = [row EXCEPT ![t] = grab.next]
        /\ UNCHANGED <<epoch, rowsDone, job, tev, cur, lastSeen, tri, size, image>>
    BY <1>2
  <2>2. grab.next < grab.nrows /\ Forked
    BY <1>0, <1>2 DEF ClaimsHold, QuietHolds, TypeOK, Words
  <2>3. /\ grab.next \in Nat /\ grab.nrows \in 0..MaxRows
        /\ grab'.next = grab.next + 1 /\ grab'.nrows = grab.nrows /\ grab' \in Words
        /\ grab.next \in 0..MaxRows
    <3>1. grab \in Words /\ grab.next \in 0..MaxRows /\ grab.nrows \in 0..MaxRows
      BY DEF TypeOK, Words
    <3>2. grab.next + 1 \in 0..MaxRows /\ grab.next \in Nat
      BY <2>2, <3>1, RowsAssumption
    <3>3. grab'.next = grab.next + 1 /\ grab'.nrows = grab.nrows
      BY <2>1, <3>1 DEF Words
    <3>4. grab' \in Words
      <4>1. grab' = [fork |-> grab.fork, nrows |-> grab.nrows, next |-> grab.next + 1]
        BY ONLY <2>1, <3>1 DEF Words
      <4>2. grab.fork \in 0..(ForkIds - 1)
        BY ONLY <3>1 DEF Words
      <4> QED
        BY ONLY <3>1, <3>2, <4>1, <4>2 DEF Words
    <3> QED
      BY <3>1, <3>2, <3>3, <3>4
  <2>4. TypeOK'
    <3>1. row' \in [Threads -> 0..MaxRows]
      BY ONLY <2>1, <2>3, IInv DEF IInv, TypeOK
    <3>2. grab'.next <= grab'.nrows
      BY ONLY <2>2, <2>3
    <3> QED
      BY <1>0, <2>1, <2>3, <3>1, <3>2, MainPlace DEF TypeOK
  <2>5. NoMissedWake'
    BY <1>0, <2>1, MainPlace DEF NoMissedWake, TypeOK, Threads, LoopPcs
  <2>6. Owners' = Owners \cup {t}
    BY <2>1, <1>0 DEF Owners, Owns, TypeOK
  <2>7. Cardinality(Owners') = Cardinality(Owners) + 1
    BY <1>0, <2>6, OwnersFinite, FS_AddElement
  <2>8. \A u \in Threads : u # t => pc'[u] = pc[u] /\ row'[u] = row[u]
    BY <2>1 DEF TypeOK
  <2>9. pc'[t] = "scan" /\ row'[t] = grab.next
    BY <2>1 DEF TypeOK
  <2>10. ClaimsHold'
    <3>1. \A u \in Threads : u # t /\ Owns(u)' => Owns(u) /\ row'[u] < grab.next /\ row'[u] \in Nat
      BY <2>8 DEF Owns, ClaimsHold, TypeOK
    <3>2. \A u \in Threads : pc'[u] = "claim" => cur'[u].next < cur'[u].nrows
      BY <2>1, <2>8, <2>9 DEF ClaimsHold
    <3>3. \A u \in Threads : Owns(u)' => row'[u] < grab'.next
      BY <3>1, <2>3, <2>9
    <3>4. \A u, v \in Threads : Owns(u)' /\ Owns(v)' /\ row'[u] = row'[v] => u = v
      BY <3>1, <2>3, <2>8, <2>9 DEF ClaimsHold
    <3> QED
      BY <3>2, <3>3, <3>4 DEF ClaimsHold
  <2>11. ForkHolds'
    <3>1. \A k \in RowIds : Unscanned(k)' <=> Unscanned(k)
      <4> SUFFICES ASSUME NEW k \in RowIds PROVE Unscanned(k)' <=> Unscanned(k)
        OBVIOUS
      <4>1. k \in Nat
        BY RowsAssumption DEF RowIds
      <4>2. grab.next <= k <=> grab.next + 1 <= k \/ k = grab.next
        BY <4>1, <2>3
      <4>3. (\E u \in Threads : pc'[u] = "scan" /\ row'[u] = k)
               <=> k = grab.next \/ \E u \in Threads : pc[u] = "scan" /\ row[u] = k
        BY <2>8, <2>9, <1>0
      <4> QED
        BY <4>2, <4>3, <2>3 DEF Unscanned
    <3>2. \A k \in RowIds : Marked(k)' <=> Marked(k)
      BY <2>1 DEF Marked
    <3>3. rowsDone' + Cardinality(Owners') = grab'.next
      BY <2>1, <2>2, <2>3, <2>7, OwnersFinite DEF ForkHolds, TypeOK
    <3> QED
      BY <2>1, <2>2, <2>3, <3>1, <3>2, <3>3 DEF ForkHolds
  <2>12. QuietHolds'
    BY <1>0, <2>2, MainPlace DEF QuietHolds
  <2>13. MainHolds'
    BY <1>0, <2>1, <2>2, MainPlace DEF MainHolds, Marked, LoopPcs, Forked
  <2>14. PastHolds'
    BY <2>1 DEF PastHolds
  <2> QED
    BY <2>4, <2>5, <2>10, <2>11, <2>12, <2>13, <2>14
<1> QED
  BY <1>1, <1>2

\* The row a thread scans is in the image and is scanned with this triangle's state.
LEMMA ScanPlace ==
    ASSUME IInv, NEW t \in Threads, Scan(t)
    PROVE  /\ Forked /\ job = tri /\ tev[t] = tri /\ tri \in Nat
           /\ row[t] \in RowIds /\ row[t] < size /\ row[t] < grab.next
           /\ image' = [image EXCEPT ![row[t]] = Append(@, <<tri, tri>>)]
           /\ image' \in [RowIds -> Seq(Nat \X Nat)]
           /\ Marked(row[t])' /\ ~ Unscanned(row[t])'
           /\ image'[row[t]] # <<>> /\ image'[row[t]][Len(image'[row[t]])] = <<tri, tri>>
           /\ \A k \in RowIds : k # row[t] =>
                 image'[k] = image[k] /\ (Unscanned(k)' <=> Unscanned(k))
<1> USE ThreadsAssumption, RowsAssumption DEF IInv, Scan, At, shared, local
<1>1. pc[t] = "scan" /\ t \in Owners /\ Owns(t)
  BY DEF Owners, Owns
<1>2. Forked
  BY <1>1 DEF QuietHolds
<1>3. job = tri /\ tev[t] = tri /\ tri \in Nat
  BY <1>2 DEF ForkHolds, MainHolds, TypeOK
<1>4. row[t] < grab.next /\ row[t] \in 0..MaxRows
  BY <1>1 DEF ClaimsHold, TypeOK
<1>5. grab.next \in 0..MaxRows /\ grab.nrows = size /\ grab.next <= size /\ size \in 0..MaxRows
  BY <1>2 DEF ForkHolds, TypeOK, Words
<1>6. row[t] \in RowIds /\ row[t] < size
  BY <1>4, <1>5 DEF RowIds
<1>7. image' = [image EXCEPT ![row[t]] = Append(@, <<tri, tri>>)]
  BY <1>3
<1>8. image[row[t]] \in Seq(Nat \X Nat) /\ <<tri, tri>> \in Nat \X Nat
  BY <1>3, <1>6 DEF TypeOK
<1>9. image'[row[t]] = Append(image[row[t]], <<tri, tri>>)
  BY <1>6, <1>7 DEF TypeOK
<1>10. /\ image'[row[t]] \in Seq(Nat \X Nat)
       /\ image'[row[t]] # <<>> /\ image'[row[t]][Len(image'[row[t]])] = <<tri, tri>>
  <2> DEFINE s == Append(image[row[t]], <<tri, tri>>)
  <2>1. s \in Seq(Nat \X Nat) /\ s # <<>> /\ s[Len(s)] = <<tri, tri>>
    BY ONLY <1>8, LastAppended, Zenon
  <2> HIDE DEF s
  <2>2. image'[row[t]] = s
    BY ONLY <1>9 DEF s
  <2> QED
    BY ONLY <2>1, <2>2, Zenon
<1>11. image' \in [RowIds -> Seq(Nat \X Nat)]
  <2>1. Append(image[row[t]], <<tri, tri>>) \in Seq(Nat \X Nat)
    BY <1>8, LastAppended
  <2> QED
    BY <1>6, <1>7, <2>1, Zenon DEF TypeOK
<1>12. Marked(row[t])'
  BY <1>10 DEF Marked, draw
<1>13. \A u \in Threads : u # t => pc'[u] = pc[u]
  BY DEF TypeOK
<1>14. pc'[t] = "count"
  BY DEF TypeOK
<1>15. ~ Unscanned(row[t])'
  <2>1. ~ (grab.next <= row[t])
    BY <1>4, <1>5
  <2>2. ~ \E u \in Threads : pc'[u] = "scan" /\ row[u] = row[t]
    BY <1>1, <1>13, <1>14 DEF ClaimsHold, Owns
  <2> QED
    BY <2>1, <2>2 DEF Unscanned
<1>16. \A k \in RowIds : k # row[t] => image'[k] = image[k] /\ (Unscanned(k)' <=> Unscanned(k))
  BY <1>1, <1>7, <1>13, <1>14 DEF Unscanned, TypeOK
<1> QED
  BY <1>2, <1>3, <1>4, <1>6, <1>7, <1>10, <1>11, <1>12, <1>15, <1>16

\* A scan keeps the invariant: its row is marked and no longer unscanned.
LEMMA ScanIInv == ASSUME IInv, NEW t \in Threads, Scan(t) PROVE IInv'
<1> USE ThreadsAssumption DEF IInv, Scan, At, shared, local
<1>0. LoopStep(t)
  BY DEF LoopStep
<1>1. TypeOK'
  BY <1>0, MainPlace, ScanPlace DEF TypeOK
<1>2. NoMissedWake'
  BY <1>0, MainPlace DEF NoMissedWake, TypeOK, Threads, LoopPcs
<1>3. \A u \in Threads : Owns(u)' <=> Owns(u)
  BY DEF Owns, TypeOK
<1>4. Owners' = Owners
  BY <1>3 DEF Owners
<1>5. ClaimsHold'
  <2>1. \A u \in Threads : pc'[u] = "claim" => pc[u] = "claim"
    BY DEF TypeOK
  <2> QED
    BY <1>3, <2>1 DEF ClaimsHold
<1>6. ForkHolds'
  <2>1. /\ Forked /\ Marked(row[t])' /\ ~ Unscanned(row[t])'
        /\ \A k \in RowIds : k # row[t] =>
              image'[k] = image[k] /\ (Unscanned(k)' <=> Unscanned(k))
    BY ScanPlace
  <2>2. UNCHANGED <<grab, epoch, rowsDone, job, tev, cur, row, lastSeen, tri, size>>
    OBVIOUS
  <2>3. \A k \in RowIds : k # row[t] => (Marked(k)' <=> Marked(k))
    BY ONLY <2>1, <2>2 DEF Marked
  <2>4. /\ grab.nrows = size /\ job = tri /\ rowsDone + Cardinality(Owners) = grab.next
        /\ \A k \in RowIds : k < size => (Marked(k) <=> ~ Unscanned(k))
    BY <2>1 DEF ForkHolds
  <2>5. \A k \in RowIds : k < size => (Marked(k)' <=> ~ Unscanned(k)')
    <3>1. \A k \in RowIds : k = row[t] => Marked(k)' /\ ~ Unscanned(k)'
      BY ONLY <2>1, <2>2 DEF Marked, Unscanned
    <3> QED
      BY ONLY <2>1, <2>3, <2>4, <3>1, Zenon
  <2>6. Cardinality(Owners') = Cardinality(Owners)
    BY ONLY <1>4
  <2>7. /\ (grab.nrows = size)' /\ (job = tri)'
        /\ (rowsDone + Cardinality(Owners) = grab.next)'
    BY ONLY <2>2, <2>4, <2>6
  <2>8. (\A k \in RowIds : k < size => (Marked(k) <=> ~ Unscanned(k)))'
    BY ONLY <2>2, <2>5 DEF RowIds
  <2> QED
    BY ONLY <2>7, <2>8, Zenon DEF ForkHolds
<1>7. QuietHolds'
  BY <1>0, MainPlace, ScanPlace DEF QuietHolds
<1>8. MainHolds'
  BY <1>0, MainPlace, ScanPlace DEF MainHolds, LoopPcs, Forked
<1>9. PastHolds'
  <2>1. \A k \in RowIds : k # row[t] => image'[k] = image[k]
    BY ScanPlace
  <2>2. image'[row[t]][Len(image'[row[t]])][1] = tri
    <3>1. image'[row[t]][Len(image'[row[t]])] = <<tri, tri>>
      BY ScanPlace
    <3> QED
      BY <3>1
  <2>3. tri <= tri
    <3>1. tri \in Nat
      BY DEF TypeOK
    <3> QED
      BY <3>1
  <2> QED
    BY <2>1, <2>2, <2>3 DEF PastHolds
<1> QED
  BY <1>1, <1>2, <1>5, <1>6, <1>7, <1>8, <1>9

\* A thread gives its row up as it counts it.
LEMMA CountIInv == ASSUME IInv, NEW t \in Threads, Count(t) PROVE IInv'
<1> USE ThreadsAssumption DEF IInv, Count, At, local, draw
<1>0. LoopStep(t) /\ pc[t] = "count" /\ t \in Owners /\ Forked
  BY DEF LoopStep, Owners, Owns, QuietHolds
<1>1. TypeOK'
  BY <1>0, MainPlace DEF TypeOK
<1>2. NoMissedWake'
  BY <1>0, MainPlace DEF NoMissedWake, TypeOK, Threads, LoopPcs
<1>3. Owners' = Owners \ {t}
  BY <1>0 DEF Owners, Owns, TypeOK
<1>4. Cardinality(Owners') = Cardinality(Owners) - 1
  BY <1>0, <1>3, OwnersFinite, FS_RemoveElement
<1>5. ClaimsHold'
  BY <1>0 DEF ClaimsHold, Owns, TypeOK
<1>6. ForkHolds'
  <2>1. \A k \in RowIds : (Marked(k)' <=> Marked(k)) /\ (Unscanned(k)' <=> Unscanned(k))
    BY <1>0 DEF Marked, Unscanned, TypeOK
  <2>2. rowsDone' + Cardinality(Owners') = grab'.next
    BY <1>0, <1>4, OwnersFinite DEF ForkHolds, TypeOK
  <2> QED
    BY <1>0, <2>1, <2>2 DEF ForkHolds
<1>7. QuietHolds'
  BY <1>0, MainPlace DEF QuietHolds
<1>8. MainHolds'
  BY <1>0, MainPlace DEF MainHolds, Marked, LoopPcs, Forked
<1>9. PastHolds'
  BY DEF PastHolds
<1> QED
  BY <1>1, <1>2, <1>5, <1>6, <1>7, <1>8, <1>9

-----------------------------------------------------------------------------
(* The worker's own steps. *)

\* A worker that looks for work, sleeps or wakes up owns no row before or after.
LEMMA WorkerIInv ==
    ASSUME IInv, NEW w \in Workers, W_Look(w) \/ W_Wait(w) \/ W_SpuriousWake(w)
    PROVE  IInv'
<1> USE ThreadsAssumption
<1>1. PICK to \in {"load", "look", "wait", "asleep"} :
          pc[w] \in WorkerPcs /\ pc' = [pc EXCEPT ![w] = to]
  BY DEF W_Look, W_Wait, W_SpuriousWake, At, WorkerPcs
<1>2. /\ UNCHANGED <<grab, epoch, rowsDone, job, tev, cur, row, tri, size, image>>
      /\ lastSeen' \in [Workers -> Nat]
  BY DEF IInv, TypeOK, W_Look, W_Wait, W_SpuriousWake, At, shared, local, draw
<1>3. w \in Threads /\ Main \in Threads /\ w # Main
  BY DEF Threads
<1>4. pc'[Main] = pc[Main] /\ (Forked' <=> Forked)
  BY <1>1, <1>3 DEF IInv, TypeOK, Forked
<1>5. TypeOK'
  BY <1>1, <1>2, <1>3, <1>4 DEF IInv, TypeOK, WorkerPcs, LoopPcs
<1>6. NoMissedWake'
  <2>1. W_Look(w) => pc'[w] # "asleep"
    BY <1>1, <1>3 DEF W_Look, IInv, TypeOK
  <2>2. W_Wait(w) /\ pc'[w] = "asleep" => epoch = lastSeen[w]
    BY <1>1, <1>3 DEF W_Wait, At, IInv, TypeOK
  <2>3. W_SpuriousWake(w) => pc'[w] # "asleep"
    BY <1>1, <1>3 DEF W_SpuriousWake, At, IInv, TypeOK
  <2>4. \A v \in Workers : v # w => pc'[v] = pc[v] /\ lastSeen'[v] = lastSeen[v]
    BY <1>1 DEF W_Look, W_Wait, W_SpuriousWake, IInv, TypeOK, local
  <2>5. W_Wait(w) => lastSeen' = lastSeen
    BY DEF W_Wait, local
  <2> QED
    BY <1>2, <1>4, <2>1, <2>2, <2>3, <2>4, <2>5 DEF IInv, NoMissedWake
<1>7. \A t \in Threads : /\ Owns(t)' <=> Owns(t)
                         /\ pc'[t] = "claim" <=> pc[t] = "claim"
                         /\ pc'[t] = "scan" <=> pc[t] = "scan"
  BY <1>1 DEF IInv, TypeOK, Owns, WorkerPcs
<1>8. Owners' = Owners
  BY <1>7 DEF Owners
<1>9. ClaimsHold'
  BY <1>2, <1>7 DEF IInv, ClaimsHold
<1>10. \A k \in RowIds : (Marked(k)' <=> Marked(k)) /\ (Unscanned(k)' <=> Unscanned(k))
  BY <1>2, <1>7 DEF Marked, Unscanned
<1>11. ForkHolds' /\ QuietHolds'
  BY <1>2, <1>4, <1>8, <1>10 DEF IInv, ForkHolds, QuietHolds
<1>12. MainHolds'
  BY <1>2, <1>4, <1>10 DEF IInv, MainHolds
<1>13. PastHolds'
  BY <1>2 DEF IInv, PastHolds
<1> QED
  BY <1>5, <1>6, <1>9, <1>11, <1>12, <1>13 DEF IInv

-----------------------------------------------------------------------------
(* The main thread's own steps. *)

\* A step of the main thread from one place outside the loop to another leaves the
\* rows with their owners.
LEMMA MainOwners ==
    ASSUME TypeOK, NEW to \in MainPcs,
           pc[Main] \in MainPcs, pc' = [pc EXCEPT ![Main] = to]
    PROVE  /\ pc'[Main] = to
           /\ pc' \in [Threads -> MainPcs \cup WorkerPcs \cup LoopPcs]
           /\ \A w \in Workers : pc'[w] = pc[w] /\ pc'[w] \in WorkerPcs \cup LoopPcs
           /\ Owners' = Owners /\ Main \notin Owners
           /\ \A t \in Threads : /\ Owns(t)' <=> Owns(t)
                                 /\ pc'[t] = "claim" <=> pc[t] = "claim"
                                 /\ pc'[t] = "scan" <=> pc[t] = "scan"
<1> USE ThreadsAssumption
<1>1. Main \in Threads /\ \A w \in Workers : w \in Threads /\ w # Main
  BY DEF Threads
<1>2. /\ pc'[Main] = to /\ pc' \in [Threads -> MainPcs \cup WorkerPcs \cup LoopPcs]
      /\ \A w \in Workers : pc'[w] = pc[w] /\ pc'[w] \in WorkerPcs \cup LoopPcs
  BY <1>1 DEF TypeOK, LoopPcs
<1>3. \A t \in Threads : /\ Owns(t)' <=> Owns(t)
                         /\ pc'[t] = "claim" <=> pc[t] = "claim"
                         /\ pc'[t] = "scan" <=> pc[t] = "scan"
  BY DEF TypeOK, Owns, MainPcs
<1>4. Owners' = Owners /\ Main \notin Owners
  BY <1>3 DEF Owners, Owns, MainPcs
<1> QED
  BY <1>2, <1>3, <1>4

\* Drawing another triangle: nothing in the image can be of it yet.
LEMMA BeginIInv == ASSUME IInv, M_Begin PROVE IInv'
<1> USE ThreadsAssumption, RowsAssumption
<1>1. PICK to \in {"template", "serial"} : pc' = [pc EXCEPT ![Main] = to]
  BY DEF M_Begin
<1>2. /\ pc[Main] = "idle" /\ tri' = tri + 1 /\ size' \in 1..MaxRows
      /\ tev' = [tev EXCEPT ![Main] = tri + 1] /\ row' = [row EXCEPT ![Main] = 0]
      /\ UNCHANGED <<grab, epoch, rowsDone, job, cur, lastSeen, image>>
  BY DEF M_Begin
<1>3. Main \in Threads /\ tri \in Nat /\ tri' \in Nat /\ TypeOK
  BY <1>2 DEF Threads, IInv, TypeOK
<1>4. /\ pc'[Main] = to /\ pc' \in [Threads -> MainPcs \cup WorkerPcs \cup LoopPcs]
      /\ \A w \in Workers : pc'[w] = pc[w] /\ pc'[w] \in WorkerPcs \cup LoopPcs
      /\ Owners' = Owners /\ Main \notin Owners
      /\ \A t \in Threads : (Owns(t)' <=> Owns(t)) /\ (pc'[t] = "claim" <=> pc[t] = "claim")
  BY <1>1, <1>2, <1>3, MainOwners DEF MainPcs
<1>5. ~ Forked /\ ~ Forked'
  BY <1>2, <1>4 DEF Forked, LoopPcs
<1>6. tev'[Main] = tri' /\ row'[Main] = 0 /\ tev' \in [Threads -> Nat]
      /\ row' \in [Threads -> 0..MaxRows] /\ size' \in 0..MaxRows /\ size' # 0
  BY <1>2, <1>3 DEF TypeOK
<1>7. \A k \in RowIds : ~ Marked(k)'
  <2> SUFFICES ASSUME NEW k \in RowIds, image[k] # <<>>, image[k][Len(image[k])] = <<tri', tri'>>
               PROVE  FALSE
    BY <1>2 DEF Marked
  <2>1. image[k][Len(image[k])][1] = tri'
    OBVIOUS
  <2>2. image[k][Len(image[k])][1] <= tri
    BY DEF IInv, PastHolds
  <2> QED
    BY <1>2, <1>3, <2>1, <2>2
<1>8. TypeOK'
  BY <1>2, <1>3, <1>4, <1>6 DEF TypeOK, MainPcs
<1>9. NoMissedWake'
  BY <1>2, <1>4 DEF IInv, NoMissedWake
<1>10. Owners = {} /\ grab.next = grab.nrows
  BY <1>5 DEF IInv, QuietHolds
<1>11. ClaimsHold'
  BY <1>2, <1>4, <1>10 DEF IInv, ClaimsHold, Owners
<1>12. ForkHolds' /\ QuietHolds'
  BY <1>2, <1>4, <1>5, <1>10 DEF ForkHolds, QuietHolds
<1>13. MainHolds'
  <2>1. \A k \in RowIds : k \in Nat /\ ~ (k < 0)
    BY DEF RowIds
  <2> QED
    BY <1>2, <1>4, <1>5, <1>6, <1>7, <2>1 DEF MainHolds
<1>14. PastHolds'
  <2> SUFFICES ASSUME NEW k \in RowIds, image[k] # <<>>
               PROVE  image[k][Len(image[k])][1] <= tri + 1
    BY <1>2 DEF PastHolds
  <2>1. image[k][Len(image[k])][1] <= tri
    BY DEF IInv, PastHolds
  <2>2. image[k] \in Seq(Nat \X Nat) /\ Len(image[k]) \in 1..Len(image[k])
    BY DEF IInv, TypeOK
  <2>3. image[k][Len(image[k])][1] \in Nat
    BY <2>2
  <2> QED
    BY <1>3, <2>1, <2>3
<1> QED
  BY <1>8, <1>9, <1>11, <1>12, <1>13, <1>14 DEF IInv

\* The serial scan marks the rows in order, with no worker about.
LEMMA SerialRowIInv == ASSUME IInv, M_SerialRow PROVE IInv'
<1> USE ThreadsAssumption, RowsAssumption
<1> DEFINE m == row[Main]
<1>1. /\ pc[Main] = "serial" /\ m < size
      /\ image' = [image EXCEPT ![m] = Append(@, <<tri, tev[Main]>>)]
      /\ row' = [row EXCEPT ![Main] = m + 1]
      /\ UNCHANGED <<grab, epoch, rowsDone, job, tev, pc, cur, lastSeen, tri, size>>
  BY DEF M_SerialRow, shared
<1>2. Main \in Threads /\ tri \in Nat /\ TypeOK /\ tev[Main] = tri /\ m \in 0..MaxRows
      /\ size \in 0..MaxRows
  BY DEF Threads, IInv, TypeOK, MainHolds
<1>3. m \in RowIds /\ m + 1 \in 0..MaxRows /\ m + 1 <= size
  BY <1>1, <1>2 DEF RowIds
<1>4. image[m] \in Seq(Nat \X Nat) /\ <<tri, tri>> \in Nat \X Nat
  BY <1>2, <1>3 DEF TypeOK
<1>5. image'[m] = Append(image[m], <<tri, tri>>) /\ \A k \in RowIds : k # m => image'[k] = image[k]
  BY <1>1, <1>2, <1>3 DEF TypeOK
<1>6. /\ image'[m] \in Seq(Nat \X Nat) /\ image'[m] # <<>>
      /\ image'[m][Len(image'[m])] = <<tri, tri>>
  <2>1. /\ Append(image[m], <<tri, tri>>) \in Seq(Nat \X Nat)
        /\ Append(image[m], <<tri, tri>>) # <<>>
        /\ Append(image[m], <<tri, tri>>)[Len(Append(image[m], <<tri, tri>>))] = <<tri, tri>>
    BY ONLY <1>4, LastAppended, Zenon
  <2> QED
    BY ONLY <1>5, <2>1, Zenon
<1>7. image' \in [RowIds -> Seq(Nat \X Nat)]
  <2>1. Append(image[m], <<tri, tri>>) \in Seq(Nat \X Nat)
    BY <1>5, <1>6
  <2> QED
    BY <1>1, <1>2, <1>3, <2>1, Zenon DEF TypeOK
<1>8. ~ Forked /\ ~ Forked' /\ Owners' = Owners /\ Owners = {} /\ grab.next = grab.nrows
  BY <1>1 DEF Forked, LoopPcs, Owners, Owns, IInv, QuietHolds
<1>9. row' \in [Threads -> 0..MaxRows] /\ row'[Main] = m + 1
  BY <1>1, <1>2, <1>3 DEF TypeOK
<1>10. TypeOK'
  BY <1>1, <1>2, <1>7, <1>9 DEF TypeOK
<1>11. NoMissedWake'
  BY <1>1 DEF IInv, NoMissedWake
<1>12. ClaimsHold'
  BY <1>1, <1>8 DEF IInv, ClaimsHold, Owners, Owns
<1>13. ForkHolds' /\ QuietHolds'
  BY <1>1, <1>8 DEF ForkHolds, QuietHolds
<1>14. MainHolds'
  <2>1. \A k \in RowIds : Marked(k)' <=> k < m + 1
    <3>1. \A k \in RowIds : k # m => (Marked(k)' <=> k < m)
      BY <1>1, <1>5 DEF IInv, MainHolds, Marked
    <3>2. \A k \in RowIds : k = m => Marked(k)'
      BY <1>1, <1>6 DEF Marked
    <3>3. \A k \in RowIds : k \in Nat
      BY DEF RowIds
    <3> QED
      BY <1>2, <3>1, <3>2, <3>3
  <2> QED
    BY <1>1, <1>3, <1>8, <1>9, <2>1 DEF IInv, MainHolds
<1>15. PastHolds'
  <2>1. image'[m][Len(image'[m])][1] = tri /\ tri <= tri
    BY <1>2, <1>6
  <2> QED
    BY <1>1, <1>5, <2>1 DEF IInv, PastHolds
<1> QED
  BY <1>10, <1>11, <1>12, <1>13, <1>14, <1>15 DEF IInv

\* The serial scan ends with the triangle.
LEMMA SerialEndIInv == ASSUME IInv, M_SerialEnd PROVE IInv'
<1> USE ThreadsAssumption
<1>1. /\ pc[Main] = "serial" /\ pc' = [pc EXCEPT ![Main] = "idle"] /\ size' = 0
      /\ UNCHANGED <<shared, local, tri, image>>
  BY DEF M_SerialEnd, At
<1>2. TypeOK
  BY DEF IInv
<1>3. /\ pc'[Main] = "idle" /\ pc' \in [Threads -> MainPcs \cup WorkerPcs \cup LoopPcs]
      /\ \A w \in Workers : pc'[w] = pc[w] /\ pc'[w] \in WorkerPcs \cup LoopPcs
      /\ Owners' = Owners
      /\ \A t \in Threads : (Owns(t)' <=> Owns(t)) /\ (pc'[t] = "claim" <=> pc[t] = "claim")
  BY <1>1, <1>2, MainOwners DEF MainPcs
<1>4. ~ Forked /\ ~ Forked'
  BY <1>1, <1>3 DEF Forked, LoopPcs
<1>5. TypeOK'
  BY <1>1, <1>2, <1>3, RowsAssumption DEF TypeOK, MainPcs, shared, local
<1>6. NoMissedWake'
  BY <1>1, <1>3 DEF IInv, NoMissedWake, shared, local
<1>7. ClaimsHold'
  BY <1>1, <1>3 DEF IInv, ClaimsHold, shared, local
<1>8. ForkHolds' /\ QuietHolds'
  BY <1>1, <1>3, <1>4 DEF IInv, ForkHolds, QuietHolds, shared
<1>9. MainHolds'
  BY <1>1, <1>3, <1>4 DEF IInv, MainHolds, shared
<1>10. PastHolds'
  BY <1>1 DEF IInv, PastHolds
<1> QED
  BY <1>5, <1>6, <1>7, <1>8, <1>9, <1>10 DEF IInv

\* Making ready for a fork: the TEV copies, the job and the count.
LEMMA PrepareIInv == ASSUME IInv, M_Template \/ M_Job \/ M_Reset PROVE IInv'
<1> USE ThreadsAssumption
<1>1. PICK to \in {"job", "reset", "word"} :
          pc[Main] \in {"template", "job", "reset"} /\ pc' = [pc EXCEPT ![Main] = to]
  BY DEF M_Template, M_Job, M_Reset, At
<1>2. UNCHANGED <<grab, epoch, cur, row, lastSeen, tri, size, image>>
  BY DEF M_Template, M_Job, M_Reset, local, draw
<1>3. TypeOK /\ Main \in Threads
  BY DEF IInv, Threads
<1>4. /\ pc'[Main] = to /\ pc' \in [Threads -> MainPcs \cup WorkerPcs \cup LoopPcs]
      /\ \A w \in Workers : pc'[w] = pc[w] /\ pc'[w] \in WorkerPcs \cup LoopPcs
      /\ Owners' = Owners
      /\ \A t \in Threads : (Owns(t)' <=> Owns(t)) /\ (pc'[t] = "claim" <=> pc[t] = "claim")
  BY <1>1, <1>3, MainOwners DEF MainPcs
<1>5. ~ Forked /\ ~ Forked'
  BY <1>1, <1>4 DEF Forked, LoopPcs
<1>6. tev[Main] = tri /\ \A k \in RowIds : ~ Marked(k)
  BY <1>1 DEF IInv, MainHolds
<1>7. \A k \in RowIds : ~ Marked(k)'
  BY <1>2, <1>6 DEF Marked
<1>9. /\ rowsDone' \in Nat /\ job' \in Nat /\ tev' \in [Threads -> Nat]
      /\ \A t \in Threads : tev'[t] = tri
      /\ to \in {"reset", "word"} => job' = tri
      /\ to = "word" => rowsDone' = 0
  <2>1. CASE M_Template
    <3>1. to = "job" /\ tev' = [t \in Threads |-> tri] /\ UNCHANGED <<rowsDone, job>>
      BY <1>3, <1>4, <1>6, <2>1 DEF M_Template, At, TypeOK
    <3> QED
      BY <1>3, <3>1 DEF TypeOK
  <2>2. CASE M_Job
    <3>1. /\ pc[Main] = "job" /\ to = "reset" /\ job' = tri /\ UNCHANGED <<rowsDone, tev>>
      BY <1>3, <1>4, <2>2 DEF M_Job, At, TypeOK
    <3> QED
      BY <1>3, <3>1 DEF TypeOK, IInv, MainHolds
  <2>3. CASE M_Reset
    <3>1. /\ pc[Main] = "reset" /\ rowsDone' = 0 /\ UNCHANGED <<job, tev>>
      BY <2>3 DEF M_Reset, At
    <3> QED
      BY <1>3, <3>1 DEF TypeOK, IInv, MainHolds
  <2> QED
    BY <2>1, <2>2, <2>3
<1>10. TypeOK'
  BY <1>2, <1>3, <1>4, <1>9 DEF TypeOK, MainPcs
<1>11. NoMissedWake'
  BY <1>1, <1>2, <1>4 DEF IInv, NoMissedWake
<1>12. ClaimsHold'
  BY <1>2, <1>4 DEF IInv, ClaimsHold
<1>13. ForkHolds' /\ QuietHolds'
  BY <1>2, <1>4, <1>5 DEF IInv, ForkHolds, QuietHolds
<1>14. MainHolds'
  <2>1. size # 0
    BY <1>1 DEF IInv, MainHolds
  <2>2. tri' = tri /\ size' = size /\ image' = image
    BY <1>2
  <2>3. \A k \in RowIds : Marked(k)' <=> Marked(k)
    BY ONLY <2>2 DEF Marked
  <2> QED
    BY <1>2, <1>3, <1>4, <1>5, <1>7, <1>9, <2>1, <2>2, <2>3 DEF MainHolds
<1>15. PastHolds'
  BY <1>2 DEF IInv, PastHolds
<1> QED
  BY <1>10, <1>11, <1>12, <1>13, <1>14, <1>15 DEF IInv

\* Publishing the word: every row of the triangle is still to be claimed.
LEMMA WordIInv == ASSUME IInv, M_Word PROVE IInv'
<1> USE ThreadsAssumption
<1>1. /\ pc[Main] = "word" /\ pc' = [pc EXCEPT ![Main] = "bump"]
      /\ grab' = [fork |-> (grab.fork + 1) % ForkIds, nrows |-> size, next |-> 0]
      /\ UNCHANGED <<epoch, rowsDone, job, tev, local, draw>>
  BY DEF M_Word, At
<1>2. TypeOK
  BY DEF IInv
<1>3. /\ pc'[Main] = "bump" /\ pc' \in [Threads -> MainPcs \cup WorkerPcs \cup LoopPcs]
      /\ \A w \in Workers : pc'[w] = pc[w] /\ pc'[w] \in WorkerPcs \cup LoopPcs
      /\ Owners' = Owners
      /\ \A t \in Threads : /\ Owns(t)' <=> Owns(t)
                            /\ pc'[t] = "claim" <=> pc[t] = "claim"
  BY <1>1, <1>2, MainOwners DEF MainPcs
<1>4. ~ Forked /\ Forked'
  BY <1>1, <1>3 DEF Forked, LoopPcs
<1>5. Owners = {}
  BY <1>4 DEF IInv, QuietHolds
<1>6. /\ size \in 0..MaxRows /\ 0 \in 0..MaxRows /\ 0 <= size
      /\ (grab.fork + 1) % ForkIds \in 0..(ForkIds - 1)
  <2>1. size \in 0..MaxRows /\ grab.fork \in 0..(ForkIds - 1)
    BY ONLY <1>2 DEF TypeOK, Words
  <2>2. ForkIds \in Nat \ {0} /\ grab.fork + 1 \in Nat
    BY ONLY <2>1, ForkIdsAssumption
  <2>3. (grab.fork + 1) % ForkIds \in 0..(ForkIds - 1)
    BY ONLY <2>2
  <2> QED
    BY ONLY <2>1, <2>3, RowsAssumption
<1>7. grab' \in Words /\ grab'.next = 0 /\ grab'.nrows = size
  BY <1>1, <1>6 DEF Words
<1>8. TypeOK'
  BY <1>1, <1>2, <1>3, <1>6, <1>7 DEF TypeOK, MainPcs, local, draw
<1>9. NoMissedWake'
  BY <1>1, <1>3 DEF IInv, NoMissedWake, local
<1>10. ClaimsHold'
  BY <1>1, <1>3, <1>5 DEF IInv, ClaimsHold, Owners, local
<1>11. ForkHolds'
  <2>1. rowsDone = 0 /\ job = tri /\ \A k \in RowIds : ~ Marked(k)
    BY <1>1 DEF IInv, MainHolds
  <2>2. Cardinality(Owners') = 0
    BY <1>3, <1>5, FS_EmptySet
  <2>3. \A k \in RowIds : ~ Marked(k)' /\ Unscanned(k)'
    BY <1>1, <1>7, <2>1 DEF Marked, Unscanned, draw, RowIds
  <2> QED
    BY <1>1, <1>7, <2>1, <2>2, <2>3 DEF ForkHolds, draw
<1>12. QuietHolds'
  BY <1>4 DEF QuietHolds
<1>13. MainHolds'
  BY <1>1, <1>3, <1>4 DEF IInv, MainHolds, draw
<1>14. PastHolds'
  BY <1>1 DEF IInv, PastHolds, draw
<1> QED
  BY <1>8, <1>9, <1>10, <1>11, <1>12, <1>13, <1>14 DEF IInv

\* The new epoch goes unseen by sleepers only until the wake that follows it.
LEMMA BumpIInv == ASSUME IInv, M_Bump PROVE IInv'
<1> USE ThreadsAssumption
<1>1. /\ pc[Main] = "bump" /\ pc' = [pc EXCEPT ![Main] = "wake"] /\ epoch' = epoch + 1
      /\ UNCHANGED <<grab, rowsDone, job, tev, cur, row, lastSeen, tri, size, image>>
  BY DEF M_Bump, At, local, draw
<1>2. TypeOK
  BY DEF IInv
<1>3. /\ pc'[Main] = "wake" /\ pc' \in [Threads -> MainPcs \cup WorkerPcs \cup LoopPcs]
      /\ \A w \in Workers : pc'[w] = pc[w] /\ pc'[w] \in WorkerPcs \cup LoopPcs
      /\ Owners' = Owners
      /\ \A t \in Threads : /\ Owns(t)' <=> Owns(t)
                            /\ pc'[t] = "claim" <=> pc[t] = "claim"
                            /\ pc'[t] = "scan" <=> pc[t] = "scan"
  BY <1>1, <1>2, MainOwners DEF MainPcs
<1>4. Forked /\ Forked'
  BY <1>1, <1>3 DEF Forked
<1>5. TypeOK'
  BY <1>1, <1>2, <1>3 DEF TypeOK, MainPcs
<1>6. NoMissedWake'
  BY <1>3 DEF NoMissedWake
<1>7. ClaimsHold'
  BY <1>1, <1>3 DEF IInv, ClaimsHold
<1>8. ForkHolds'
  <2>1. \A k \in RowIds : (Marked(k)' <=> Marked(k)) /\ (Unscanned(k)' <=> Unscanned(k))
    BY <1>1, <1>3 DEF Marked, Unscanned
  <2> QED
    BY <1>1, <1>3, <1>4, <2>1 DEF IInv, ForkHolds
<1>9. QuietHolds'
  BY <1>4 DEF QuietHolds
<1>10. MainHolds'
  BY <1>1, <1>3, <1>4 DEF IInv, MainHolds
<1>11. PastHolds'
  BY <1>1 DEF IInv, PastHolds
<1> QED
  BY <1>5, <1>6, <1>7, <1>8, <1>9, <1>10, <1>11 DEF IInv

\* The wake leaves no worker asleep.
LEMMA WakeIInv == ASSUME IInv, M_Wake PROVE IInv'
<1> USE ThreadsAssumption
<1>1. /\ pc[Main] = "wake"
      /\ pc' = [t \in Threads |->
                  IF t = Main THEN "load" ELSE IF pc[t] = "asleep" THEN "look" ELSE pc[t]]
      /\ UNCHANGED <<grab, epoch, rowsDone, job, tev, cur, row, lastSeen, tri, size, image>>
  BY DEF M_Wake, shared, local, draw
<1>2. TypeOK /\ Main \in Threads /\ \A w \in Workers : w \in Threads /\ w # Main
  BY DEF IInv, Threads
<1>3. /\ pc'[Main] = "load" /\ pc' \in [Threads -> MainPcs \cup WorkerPcs \cup LoopPcs]
      /\ \A w \in Workers : pc'[w] # "asleep" /\ pc'[w] \in WorkerPcs \cup LoopPcs
  BY <1>1, <1>2 DEF TypeOK, WorkerPcs, LoopPcs
<1>4. \A t \in Threads : /\ Owns(t)' <=> Owns(t)
                         /\ pc'[t] = "claim" <=> pc[t] = "claim"
                         /\ pc'[t] = "scan" <=> pc[t] = "scan"
  BY <1>1 DEF Owns
<1>5. Owners' = Owners
  BY <1>4 DEF Owners
<1>6. Forked /\ Forked'
  BY <1>1, <1>3 DEF Forked, LoopPcs
<1>7. TypeOK'
  BY <1>1, <1>2, <1>3 DEF TypeOK, LoopPcs
<1>8. NoMissedWake'
  BY <1>3 DEF NoMissedWake
<1>9. ClaimsHold'
  BY <1>1, <1>4 DEF IInv, ClaimsHold
<1>10. ForkHolds'
  <2>1. \A k \in RowIds : (Marked(k)' <=> Marked(k)) /\ (Unscanned(k)' <=> Unscanned(k))
    BY <1>1, <1>4 DEF Marked, Unscanned
  <2> QED
    BY <1>1, <1>5, <1>6, <2>1 DEF IInv, ForkHolds
<1>11. QuietHolds'
  BY <1>6 DEF QuietHolds
<1>12. MainHolds'
  BY <1>1, <1>3, <1>6 DEF IInv, MainHolds
<1>13. PastHolds'
  BY <1>1 DEF IInv, PastHolds
<1> QED
  BY <1>7, <1>8, <1>9, <1>10, <1>11, <1>12, <1>13 DEF IInv

\* At the join every row is claimed and none is owned.
LEMMA JoinedQuiet ==
    ASSUME IInv, M_Join
    PROVE  /\ Forked /\ job = tri /\ grab.nrows = size /\ grab.next = size
           /\ Owners = {}
           /\ \A k \in RowIds : k < size => Marked(k)
<1>1. pc[Main] = "join" /\ rowsDone = size /\ Forked
  BY DEF M_Join, Joined, At, Forked
<1>2. /\ grab.nrows = size /\ job = tri
      /\ rowsDone + Cardinality(Owners) = grab.next
      /\ \A k \in RowIds : k < size => (Marked(k) <=> ~ Unscanned(k))
  BY <1>1 DEF IInv, ForkHolds
<1>3. grab.next <= size /\ grab.next \in Nat /\ size \in Nat
  BY <1>2, RowsAssumption DEF IInv, TypeOK, Words
<1>4. Cardinality(Owners) = 0 /\ grab.next = size
  BY <1>1, <1>2, <1>3, OwnersFinite
<1>5. Owners = {}
  BY <1>4, OwnersFinite, FS_EmptySet
<1>6. \A k \in RowIds : k < size => ~ Unscanned(k)
  <2>1. \A k \in RowIds : k < size => ~ (grab.next <= k)
    BY <1>3, <1>4 DEF RowIds
  <2> QED
    BY <1>5, <2>1 DEF Unscanned, Owners, Owns
<1> QED
  BY <1>1, <1>2, <1>4, <1>5, <1>6

\* Once the main thread has joined, no thread owns a row of the fork.
LEMMA JoinIInv == ASSUME IInv, M_Join PROVE IInv'
<1> USE ThreadsAssumption
<1>1. /\ pc[Main] = "join" /\ pc' = [pc EXCEPT ![Main] = "idle"] /\ size' = 0
      /\ UNCHANGED <<shared, local, tri, image>>
  BY DEF M_Join, At
<1>2. TypeOK
  BY DEF IInv
<1>3. /\ pc'[Main] = "idle" /\ pc' \in [Threads -> MainPcs \cup WorkerPcs \cup LoopPcs]
      /\ \A w \in Workers : pc'[w] = pc[w] /\ pc'[w] \in WorkerPcs \cup LoopPcs
      /\ Owners' = Owners
      /\ \A t \in Threads : (Owns(t)' <=> Owns(t)) /\ (pc'[t] = "claim" <=> pc[t] = "claim")
  BY <1>1, <1>2, MainOwners DEF MainPcs
<1>4. ~ Forked'
  BY <1>3 DEF Forked, LoopPcs
<1>5. TypeOK'
  BY <1>1, <1>2, <1>3, RowsAssumption DEF TypeOK, MainPcs, shared, local
<1>6. NoMissedWake'
  BY <1>1, <1>3 DEF IInv, NoMissedWake, shared, local
<1>7. ClaimsHold'
  BY <1>1, <1>3 DEF IInv, ClaimsHold, shared, local
<1>8. ForkHolds' /\ QuietHolds'
  BY <1>1, <1>3, <1>4, JoinedQuiet DEF ForkHolds, QuietHolds, shared
<1>9. MainHolds'
  BY <1>1, <1>3, <1>4 DEF IInv, MainHolds, shared
<1>10. PastHolds'
  BY <1>1 DEF IInv, PastHolds
<1> QED
  BY <1>5, <1>6, <1>7, <1>8, <1>9, <1>10 DEF IInv

-----------------------------------------------------------------------------
(* The theorems. *)

\* Before the first triangle the invariant holds.
LEMMA InitIInv == Init => IInv
<1> SUFFICES ASSUME Init PROVE IInv
  OBVIOUS
<1> USE ThreadsAssumption, RowsAssumption, ForkIdsAssumption
<1>1. /\ grab = [fork |-> 0, nrows |-> 0, next |-> 0]
      /\ epoch = 0 /\ rowsDone = 0 /\ job = 0 /\ tev = [t \in Threads |-> 0]
      /\ cur = [t \in Threads |-> grab] /\ row = [t \in Threads |-> 0]
      /\ lastSeen = [w \in Workers |-> 0]
      /\ tri = 0 /\ size = 0 /\ image = [k \in RowIds |-> <<>>]
  BY DEF Init
<1>2. /\ Main \in Threads /\ \A w \in Workers : w \in Threads /\ w # Main
      /\ pc = [t \in Threads |-> IF t = Main THEN "idle" ELSE "look"]
  BY DEF Init, Threads
<1>3. pc[Main] = "idle" /\ \A t \in Threads : t # Main => pc[t] = "look"
  BY <1>2
<1>4. 0 \in 0..MaxRows /\ 0 \in 0..(ForkIds - 1) /\ 0 <= 0
  OBVIOUS
<1>5. grab \in Words
  BY <1>1, <1>4 DEF Words
<1>6. image \in [RowIds -> Seq(Nat \X Nat)]
  BY <1>1
<1>7. pc \in [Threads -> MainPcs \cup WorkerPcs \cup LoopPcs]
  BY <1>2 DEF MainPcs, WorkerPcs
<1>8. TypeOK
  BY <1>1, <1>2, <1>3, <1>4, <1>5, <1>6, <1>7 DEF TypeOK, MainPcs, WorkerPcs
<1>9. NoMissedWake
  BY <1>2, <1>3 DEF NoMissedWake
<1>10. ~ Forked /\ Owners = {}
  BY <1>3 DEF Forked, LoopPcs, Owners, Owns
<1>11. ClaimsHold
  BY <1>3 DEF ClaimsHold, Owns
<1>12. ForkHolds /\ QuietHolds
  BY <1>1, <1>10 DEF ForkHolds, QuietHolds
<1>13. MainHolds
  BY <1>1, <1>2, <1>3, <1>10 DEF MainHolds
<1>14. PastHolds
  BY <1>1 DEF PastHolds
<1> QED
  BY <1>8, <1>9, <1>11, <1>12, <1>13, <1>14 DEF IInv

\* Every step keeps the invariant.
LEMMA NextIInv == IInv /\ [Next]_vars => IInv'
<1> SUFFICES ASSUME IInv, [Next]_vars PROVE IInv'
  OBVIOUS
<1>1. Main \in Threads /\ \A w \in Workers : w \in Threads
  BY DEF Threads
<1>2. ASSUME NEW t \in Threads, LoopStep(t) PROVE IInv'
  BY <1>2, LoadIInv, ClaimIInv, ScanIInv, CountIInv DEF LoopStep
<1>3. CASE M_Begin
  BY <1>3, BeginIInv
<1>4. CASE MainStep
  BY <1>1, <1>2, <1>4, SerialRowIInv, SerialEndIInv, PrepareIInv, WordIInv, BumpIInv,
     WakeIInv, JoinIInv DEF MainStep
<1>5. CASE \E w \in Workers : WorkerStep(w)
  BY <1>1, <1>2, <1>5, WorkerIInv DEF WorkerStep
<1>6. CASE UNCHANGED vars
  <2>1. UNCHANGED <<grab, epoch, rowsDone, job, tev, pc, cur, row, lastSeen, tri, size, image>>
    BY <1>6 DEF vars, shared, local, draw
  <2>2. TypeOK' /\ NoMissedWake' /\ ClaimsHold' /\ PastHolds'
    BY <2>1 DEF IInv, TypeOK, NoMissedWake, ClaimsHold, PastHolds, Owns
  <2>3. (Forked' <=> Forked) /\ Owners' = Owners
    BY <2>1 DEF Forked, Owners, Owns
  <2>4. \A k \in RowIds : (Marked(k)' <=> Marked(k)) /\ (Unscanned(k)' <=> Unscanned(k))
    BY <2>1 DEF Marked, Unscanned
  <2>5. ForkHolds' /\ QuietHolds'
    BY <2>1, <2>3, <2>4 DEF IInv, ForkHolds, QuietHolds
  <2>6. MainHolds'
    BY <2>1, <2>3, <2>4 DEF IInv, MainHolds
  <2> QED
    BY <2>2, <2>5, <2>6 DEF IInv
<1> QED
  BY <1>3, <1>4, <1>5, <1>6 DEF Next

\* The inductive invariant holds in every reachable state: the packed word, the
\* count and the image agree, whoever claims and whenever.
THEOREM InductiveInvariant == Spec => []IInv
  BY InitIInv, NextIInv, PTL DEF Spec

\* Type correctness, for every number of workers, rows and fork ids.
THEOREM Typing == Spec => []TypeOK
<1>1. IInv => TypeOK
  BY DEF IInv
<1> QED
  BY <1>1, InductiveInvariant, PTL

\* "main cannot pass the join, let alone republish, while an owned row is
\* unfinished": the job, the TEV copies and the count stay put under every worker
\* that owns a row.
THEOREM Frozen == Spec => []JobFrozen
<1>1. IInv => JobFrozen
  BY DEF IInv, QuietHolds, Forked, JobFrozen, Owners, Threads
<1> QED
  BY <1>1, InductiveInvariant, PTL

\* A worker never sleeps through an epoch whose wake is past.
THEOREM Wake == Spec => []NoMissedWake
<1>1. IInv => NoMissedWake
  BY DEF IInv
<1> QED
  BY <1>1, InductiveInvariant, PTL

-----------------------------------------------------------------------------
(* The refinement of SerialScan. *)

\* The rows the serial scan has still to do are the ones not marked.
LEMMA TodoUnmarked ==
    \A k \in RowIds : k \in Serial!Todo(tri, size, image) <=> k < size /\ ~ Marked(k)
  BY DEF Serial!Todo, Serial!RowIds, RowIds, Marked

\* A thread that scans a row scans one the serial scan has still to do.
LEMMA ScanRefines ==
    ASSUME IInv, NEW t \in Threads, Scan(t) PROVE Serial!ScanRow(row[t])
<1>1. Unscanned(row[t])
  BY DEF Unscanned, Scan, At
<1>2. ~ Marked(row[t])
  BY <1>1, ScanPlace DEF IInv, ForkHolds
<1>3. row[t] \in Serial!Todo(tri, size, image)
  BY <1>2, ScanPlace, TodoUnmarked
<1>4. UNCHANGED <<tri, size>>
  BY DEF Scan
<1> QED
  BY <1>3, <1>4, ScanPlace DEF Serial!ScanRow

\* The main thread's steps are the serial scan's, or change nothing it can see.
LEMMA MainRefines ==
    ASSUME IInv, M_SerialRow \/ M_SerialEnd \/ M_Join PROVE Serial!Next
<1>1. CASE M_SerialRow
  <2>1. /\ pc[Main] = "serial" /\ row[Main] < size
        /\ image' = [image EXCEPT ![row[Main]] = Append(@, <<tri, tev[Main]>>)]
        /\ UNCHANGED <<tri, size>>
    BY <1>1 DEF M_SerialRow
  <2>2. row[Main] \in RowIds /\ tev[Main] = tri
    BY <2>1, RowsAssumption DEF IInv, TypeOK, MainHolds, RowIds, Threads
  <2>3. ~ Marked(row[Main])
    BY <2>1, <2>2 DEF IInv, MainHolds, RowIds
  <2>4. row[Main] \in Serial!Todo(tri, size, image)
    BY <2>1, <2>2, <2>3, TodoUnmarked
  <2>5. Serial!ScanRow(row[Main])
    BY <2>1, <2>2, <2>4 DEF Serial!ScanRow
  <2> QED
    BY <2>2, <2>5 DEF Serial!Next, Serial!RowIds, RowIds
<1>2. CASE M_SerialEnd
  <2>1. /\ pc[Main] = "serial" /\ row[Main] = size /\ size' = 0 /\ UNCHANGED <<tri, image>>
    BY <1>2 DEF M_SerialEnd, At
  <2>2. size # 0 /\ \A k \in RowIds : k < size => Marked(k)
    BY <2>1 DEF IInv, MainHolds
  <2>3. Serial!Todo(tri, size, image) = {}
    BY <2>2, TodoUnmarked DEF Serial!Todo, Serial!RowIds, RowIds
  <2> QED
    BY <2>1, <2>2, <2>3 DEF Serial!Next, Serial!End
<1>3. CASE M_Join
  <2>1. /\ pc[Main] = "join" /\ size' = 0 /\ UNCHANGED <<tri, image>>
    BY <1>3 DEF M_Join, At
  <2>2. size # 0 /\ \A k \in RowIds : k < size => Marked(k)
    BY <1>3, <2>1, JoinedQuiet DEF IInv, MainHolds
  <2>3. Serial!Todo(tri, size, image) = {}
    BY <2>2, TodoUnmarked DEF Serial!Todo, Serial!RowIds, RowIds
  <2> QED
    BY <2>1, <2>2, <2>3 DEF Serial!Next, Serial!End
<1> QED
  BY <1>1, <1>2, <1>3

\* However many threads scan a triangle, the image is the one the serial scan
\* makes: no row is left out, scanned twice, or scanned with another triangle's
\* edges or TEV state.
THEOREM Refinement == Spec => ImplementsSerial
<1>1. Init => Serial!Init
  BY DEF Init, Serial!Init, Serial!RowIds, RowIds
<1>2. IInv /\ [Next]_vars => [Serial!Next]_<<tri, size, image>>
  <2> SUFFICES ASSUME IInv, [Next]_vars PROVE [Serial!Next]_<<tri, size, image>>
    OBVIOUS
  <2>1. ASSUME NEW t \in Threads, LoopStep(t) PROVE [Serial!Next]_<<tri, size, image>>
    <3>1. CASE Scan(t)
      <4>1. row[t] \in Serial!RowIds
        BY <3>1, ScanPlace DEF Serial!RowIds, RowIds
      <4> QED
        BY <3>1, <4>1, ScanRefines DEF Serial!Next
    <3>2. CASE Load(t) \/ Claim(t) \/ Count(t)
      BY <3>2 DEF Load, Claim, Count, draw
    <3> QED
      BY <2>1, <3>1, <3>2 DEF LoopStep
  <2>2. CASE M_Begin
    <3>1. size = 0
      BY <2>2 DEF M_Begin, IInv, MainHolds
    <3> QED
      BY <2>2, <3>1 DEF M_Begin, Serial!Begin, Serial!Next
  <2>3. CASE M_Template \/ M_Job \/ M_Reset \/ M_Word \/ M_Bump \/ M_Wake
    BY <2>3 DEF M_Template, M_Job, M_Reset, M_Word, M_Bump, M_Wake, draw
  <2>4. CASE MainStep
    BY <2>1, <2>3, <2>4, MainRefines DEF MainStep, Threads
  <2>5. CASE \E w \in Workers : WorkerStep(w)
    <3>1. PICK w \in Workers : WorkerStep(w)
      BY <2>5
    <3>2. CASE LoopStep(w)
      BY <2>1, <3>2 DEF Threads
    <3>3. CASE W_Look(w) \/ W_Wait(w) \/ W_SpuriousWake(w)
      BY <3>3 DEF W_Look, W_Wait, W_SpuriousWake, draw
    <3> QED
      BY <3>1, <3>2, <3>3 DEF WorkerStep
  <2>6. CASE UNCHANGED vars
    BY <2>6 DEF vars, draw
  <2> QED
    BY <2>2, <2>4, <2>5, <2>6 DEF Next
<1> QED
  BY <1>1, <1>2, InductiveInvariant, PTL DEF Spec, ImplementsSerial, Serial!Spec
=============================================================================
