------------------------------ MODULE RowPool ------------------------------
(***************************************************************************)
(* The GX-MT worker pool of runtime/src/gx_raster.c: the main thread forks *)
(* the scan of a triangle, and it and the workers claim block rows from    *)
(* one packed word by compare-and-swap until none is left; the main thread *)
(* goes on when every row has been counted. Workers that come late, or not *)
(* at all, are not waited for.                                             *)
(*                                                                         *)
(* One action per access to a shared word. The row count, the next row and *)
(* the fork id are one word, read and swapped at once.                     *)
(***************************************************************************)
EXTENDS Integers, Sequences, FiniteSets

CONSTANTS
    Main, Workers,
    MaxRows,      \* the most block rows a triangle covers
    ForkIds,      \* the fork ids before they wrap around (2^32 in the code)
    MaxTriangles  \* bound on the triangles drawn

ASSUME ThreadsAssumption      == Main \notin Workers /\ IsFiniteSet(Workers)
ASSUME RowsAssumption         == MaxRows \in Nat \ {0}
ASSUME ForkIdsAssumption      == ForkIds \in Nat \ {0}
ASSUME MaxTrianglesAssumption == MaxTriangles \in Nat

Threads == Workers \cup {Main}
RowIds  == 0..(MaxRows - 1)

VARIABLES
    grab,         \* s_mt_grab
    epoch,        \* s_mt_epoch
    rowsDone,     \* s_mt_rows_done
    job,          \* s_mt_job: whose edges it holds
    tev,          \* s_tev_w: whose TEV state each thread's copy is
    pc,           \* where each thread is
    cur,          \* the word each thread loaded last
    row,          \* the row each thread has claimed
    lastSeen,     \* the epoch each worker saw last
    tri,          \* the triangles the main thread has begun
    size,         \* the block rows of the last one, or 0 once it is done
    image         \* for each row, what was scanned there: <<job, TEV state>>

shared == <<grab, epoch, rowsDone, job, tev>>
local  == <<cur, row, lastSeen>>
draw   == <<tri, size, image>>
vars   == <<shared, pc, local, draw>>

Words == [fork : 0..(ForkIds - 1), nrows : 0..MaxRows, next : 0..MaxRows]

MainPcs   == {"idle", "template", "job", "reset", "word", "bump", "wake", "join", "serial"}
WorkerPcs == {"look", "wait", "asleep"}
LoopPcs   == {"load", "claim", "scan", "count"}

Init ==
    /\ grab = [fork |-> 0, nrows |-> 0, next |-> 0]
    /\ epoch = 0 /\ rowsDone = 0 /\ job = 0 /\ tev = [t \in Threads |-> 0]
    /\ pc = [t \in Threads |-> IF t = Main THEN "idle" ELSE "look"]
    /\ cur = [t \in Threads |-> grab] /\ row = [t \in Threads |-> 0]
    /\ lastSeen = [w \in Workers |-> 0]
    /\ tri = 0 /\ size = 0 /\ image = [k \in RowIds |-> <<>>]

At(t, from, to) == pc[t] = from /\ pc' = [pc EXCEPT ![t] = to]

-----------------------------------------------------------------------------
(* scan_rows_dynamic, by the main thread and by the workers. *)

Return(t) == IF t = Main THEN "join" ELSE "look"

\* Mutant: off by one at the end of the rows.
MayClaimLate(word) == word.next <= word.nrows

MayClaim(word) == word.next < word.nrows

Load(t) ==
    /\ At(t, "load", IF MayClaim(grab) THEN "claim" ELSE Return(t))
    /\ cur' = [cur EXCEPT ![t] = grab]
    /\ UNCHANGED <<shared, row, lastSeen, draw>>

\* Mutant: the row counter apart from the row count, as it once was.
ClaimUnpacked(t) ==
    /\ pc[t] = "claim"
    /\ IF grab.next < cur[t].nrows
       THEN /\ grab' = [grab EXCEPT !.next = @ + 1]
            /\ row' = [row EXCEPT ![t] = grab.next]
            /\ pc' = [pc EXCEPT ![t] = "scan"]
       ELSE pc' = [pc EXCEPT ![t] = "load"] /\ UNCHANGED <<grab, row>>
    /\ UNCHANGED <<epoch, rowsDone, job, tev, cur, lastSeen, draw>>

\* The compare-and-swap: the row loaded is claimed if the word has not changed.
Claim(t) ==
    /\ pc[t] = "claim"
    /\ IF grab = cur[t]
       THEN /\ grab' = [grab EXCEPT !.next = @ + 1]
            /\ row' = [row EXCEPT ![t] = cur[t].next]
            /\ pc' = [pc EXCEPT ![t] = "scan"]
       ELSE pc' = [pc EXCEPT ![t] = "load"] /\ UNCHANGED <<grab, row>>
    /\ UNCHANGED <<epoch, rowsDone, job, tev, cur, lastSeen, draw>>

\* scan_one_block_row, of whatever triangle the job holds by now.
Scan(t) ==
    /\ At(t, "scan", "count")
    /\ image' = [image EXCEPT ![row[t]] = Append(@, <<job, tev[t]>>)]
    /\ UNCHANGED <<shared, local, tri, size>>

Count(t) ==
    /\ At(t, "count", "load")
    /\ rowsDone' = rowsDone + 1
    /\ UNCHANGED <<grab, epoch, job, tev, local, draw>>

-----------------------------------------------------------------------------
(* gx_mt_worker. *)

W_Look(w) ==
    /\ pc[w] = "look"
    /\ lastSeen' = [lastSeen EXCEPT ![w] = epoch]
    /\ IF epoch # lastSeen[w]
       THEN pc' = [pc EXCEPT ![w] = "load"]
       ELSE \E to \in {"look", "wait"} : pc' = [pc EXCEPT ![w] = to]
    /\ UNCHANGED <<shared, cur, row, draw>>

\* Mutant: sleeps without comparing.
W_WaitAlways(w) == At(w, "wait", "asleep") /\ UNCHANGED <<shared, local, draw>>

\* WaitOnAddress(&s_mt_epoch, seen) sleeps only if it still holds that.
W_Wait(w) ==
    /\ At(w, "wait", IF epoch = lastSeen[w] THEN "asleep" ELSE "look")
    /\ UNCHANGED <<shared, local, draw>>

\* WaitOnAddress may return without a wake.
W_SpuriousWake(w) == At(w, "asleep", "look") /\ UNCHANGED <<shared, local, draw>>

-----------------------------------------------------------------------------
(* The main thread: the end of draw_triangle_impl. *)

\* The next triangle, forked or, when it is small or its pixels depend on each
\* other's, scanned by the main thread alone. Its own TEV state is the draw's.
M_Begin ==
    /\ pc[Main] = "idle"
    /\ tri < MaxTriangles
    /\ tri' = tri + 1
    /\ size' \in 1..MaxRows
    /\ tev' = [tev EXCEPT ![Main] = tri + 1]
    /\ row' = [row EXCEPT ![Main] = 0]
    /\ \E to \in {"template", "serial"} : pc' = [pc EXCEPT ![Main] = to]
    /\ UNCHANGED <<grab, epoch, rowsDone, job, cur, lastSeen, image>>

\* scan_block_rows_serial, a row a step.
M_SerialRow ==
    /\ pc[Main] = "serial"
    /\ row[Main] < size
    /\ image' = [image EXCEPT ![row[Main]] = Append(@, <<tri, tev[Main]>>)]
    /\ row' = [row EXCEPT ![Main] = @ + 1]
    /\ UNCHANGED <<shared, pc, cur, lastSeen, tri, size>>

M_SerialEnd ==
    /\ At(Main, "serial", "idle")
    /\ row[Main] = size
    /\ size' = 0
    /\ UNCHANGED <<shared, local, tri, image>>

M_Template ==
    /\ At(Main, "template", "job")
    /\ tev' = [t \in Threads |-> tev[Main]]
    /\ UNCHANGED <<grab, epoch, rowsDone, job, local, draw>>

M_Job ==
    /\ At(Main, "job", "reset")
    /\ job' = tri
    /\ UNCHANGED <<grab, epoch, rowsDone, tev, local, draw>>

\* Mutant: the count goes on from the last fork's.
M_ResetNone == At(Main, "reset", "word") /\ UNCHANGED <<shared, local, draw>>

M_Reset ==
    /\ At(Main, "reset", "word")
    /\ rowsDone' = 0
    /\ UNCHANGED <<grab, epoch, job, tev, local, draw>>

M_Word ==
    /\ At(Main, "word", "bump")
    /\ grab' = [fork |-> (grab.fork + 1) % ForkIds, nrows |-> size, next |-> 0]
    /\ UNCHANGED <<epoch, rowsDone, job, tev, local, draw>>

M_Bump ==
    /\ At(Main, "bump", "wake")
    /\ epoch' = epoch + 1
    /\ UNCHANGED <<grab, rowsDone, job, tev, local, draw>>

\* WakeByAddressAll.
M_Wake ==
    /\ pc[Main] = "wake"
    /\ pc' = [t \in Threads |->
                IF t = Main THEN "load" ELSE IF pc[t] = "asleep" THEN "look" ELSE pc[t]]
    /\ UNCHANGED <<shared, local, draw>>

\* Mutant: goes on once every row is claimed.
JoinedClaimed == grab.next = size

Joined == rowsDone = size

M_Join ==
    /\ At(Main, "join", "idle")
    /\ Joined
    /\ size' = 0
    /\ UNCHANGED <<shared, local, tri, image>>

-----------------------------------------------------------------------------
LoopStep(t) == Load(t) \/ Claim(t) \/ Scan(t) \/ Count(t)

MainStep ==
    \/ LoopStep(Main)
    \/ M_SerialRow \/ M_SerialEnd
    \/ M_Template \/ M_Job \/ M_Reset \/ M_Word \/ M_Bump \/ M_Wake \/ M_Join

WorkerStep(w) == LoopStep(w) \/ W_Look(w) \/ W_Wait(w) \/ W_SpuriousWake(w)

Next == M_Begin \/ MainStep \/ \E w \in Workers : WorkerStep(w)

Spec == Init /\ [][Next]_vars

\* The main thread runs, and a worker finishes the row it has claimed; whether a
\* worker ever looks for another is up to the host.
Fairness == WF_vars(MainStep) /\ \A w \in Workers : WF_vars(Scan(w) \/ Count(w))

FairSpec == Spec /\ Fairness

-----------------------------------------------------------------------------
(* Properties. *)

TypeOK ==
    /\ grab \in Words /\ grab.next <= grab.nrows
    /\ epoch \in Nat /\ rowsDone \in Nat /\ job \in Nat /\ tev \in [Threads -> Nat]
    /\ pc \in [Threads -> MainPcs \cup WorkerPcs \cup LoopPcs]
    /\ pc[Main] \in MainPcs \cup LoopPcs
    /\ \A w \in Workers : pc[w] \in WorkerPcs \cup LoopPcs
    /\ cur \in [Threads -> Words] /\ row \in [Threads -> 0..MaxRows]
    /\ lastSeen \in [Workers -> Nat]
    /\ tri \in Nat /\ size \in 0..MaxRows /\ image \in [RowIds -> Seq(Nat \X Nat)]

\* "main cannot pass the join, let alone republish, while an owned row is
\* unfinished" (gx_raster.c, the pool's comment): the triangle, the TEV copies and
\* the count stay put under every thread that still owns a row.
Owns(t) == pc[t] \in {"scan", "count"}
JobFrozen ==
    (\E w \in Workers : Owns(w)) => pc[Main] \in LoopPcs \cup {"bump", "wake", "join"}

\* A worker asleep through an epoch is about to be woken.
NoMissedWake ==
    \A w \in Workers : pc[w] = "asleep" /\ epoch # lastSeen[w] => pc[Main] = "wake"

\* A triangle's scan ends whatever the workers do: "a straggler that wakes late
\* simply claims fewer rows - or none - and the fork completes without it"; the
\* join's `!=` never spins past its count.
JoinEnds == size # 0 ~> size = 0

\* However the rows are dealt out, the image is the one the serial scan makes: no
\* row left out, scanned twice, or scanned with another triangle's state.
Serial == INSTANCE SerialScan
ImplementsSerial == Serial!Spec
=============================================================================
