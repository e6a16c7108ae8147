-------------------------------- MODULE Code --------------------------------
(***************************************************************************)
(* Which code runs for a page of MEM1. Four candidates, in the order of    *)
(* gcn_dispatch_native (runtime/src/dispatch.c): the firmware's recompiled *)
(* code, while the page fence of native_code.c lets it; a title chunk whose*)
(* bytes were hashed once (aot_module.c); an overlay variant found by hash *)
(* (overlay_module.c); the interpreter, which names the page it missed by  *)
(* a checksum it remembers (interpreter.c). The three caches are dropped   *)
(* by icbi, as the instruction cache of the machine would be; a write by   *)
(* itself drops none, or only some. Contents of a page are members of a    *)
(* small set.                                                              *)
(***************************************************************************)
EXTENDS Naturals, FiniteSets

CONSTANTS
    Pages, Contents,
    IplPages, IplCode,       \* pages the firmware was compiled from, and the bytes
    TitlePages, TitleCode,   \* the pages of a title chunk, and the bytes
    OverlayPages, Variants   \* pages with overlay variants, and the bytes of these

ASSUME CodeAssumption ==
    /\ IplPages \subseteq Pages /\ TitlePages \subseteq Pages /\ OverlayPages \subseteq Pages
    /\ {IplCode, TitleCode} \cup Variants \subseteq Contents

VARIABLES
    mem,       \* what each page holds
    fence,     \* s_invalid: pages the firmware's code may not run from
    stale,     \* s_content_stale, a byte of which covers eight pages
    chunk,     \* the title chunk's state
    resident,  \* the variant each overlay page is known to hold
    memo,      \* the checksum remembered for each page
    taking,    \* the CPU between its load and its store of a stale byte
    copier,    \* the GX worker in an EFB copy
    due,       \* history: pages written and not covered by an icbi since
    covered,   \* history: pages some call reported since the last take
    misran     \* history: native code of other bytes ran from a page not due

codevars == <<mem, fence, stale, chunk, resident, memo, taking, copier, due, covered, misran>>

CodeInit ==
    /\ mem \in {[p \in Pages |-> IF p \in IplPages THEN IplCode ELSE c] : c \in Contents}
    /\ fence = {} /\ stale = Pages /\ covered = Pages
    /\ chunk = "UNVERIFIED" /\ resident = [p \in OverlayPages |-> "UNKNOWN"]
    /\ memo = [p \in Pages |-> "unseen"]
    /\ taking = {} /\ copier = [at |-> "idle", page |-> {}, byte |-> {}]
    /\ due = {} /\ misran = FALSE

-----------------------------------------------------------------------------
(* Writers. *)

Written(ps, c) == mem' = [p \in Pages |-> IF p \in ps THEN c ELSE mem[p]]

\* gcn_native_code_content_dirty
ContentDirty(ps) == stale' = stale \cup ps /\ covered' = covered \cup ps

\* gcn_native_code_invalidate
Invalidate(ps) == fence' = fence \cup ps /\ ContentDirty(ps)

\* A store of recompiled code, which the emitter inlines: nobody is told.
StoreInlined(p, c) ==
    /\ Written({p}, c) /\ due' = due \cup {p}
    /\ UNCHANGED <<fence, stale, chunk, resident, memo, taking, copier, covered, misran>>

\* A store of the interpreter or of a helper, or a disc DMA, which may cover several
\* pages: the fence and the checksum hear of it, the title and the overlays do not.
StoreFenced(ps, c) ==
    /\ Written(ps, c) /\ due' = due \cup ps
    /\ Invalidate(ps)
    /\ UNCHANGED <<chunk, resident, memo, taking, copier, misran>>

\* dcbz, the gather pipe, an ARAM or card DMA, an EFB copy of the CPU thread: only the
\* checksum hears of it.
StoreByDevice(p, c) ==
    /\ Written({p}, c) /\ due' = due \cup {p}
    /\ ContentDirty({p})
    /\ UNCHANGED <<fence, chunk, resident, memo, taking, copier, misran>>

-----------------------------------------------------------------------------
(* icbi, of a line or of the range of a batched loop, and the restore of a snapshot. *)

\* Mutant: a range drops only a chunk that it covers.
ChunkDroppedWhole(ps) == TitlePages \subseteq ps

\* gcn_aot_module_invalidate: whether a range drops the title chunk.
ChunkDropped(ps) == ps \cap TitlePages # {}

DropCaches(ps) ==
    /\ Invalidate(ps)
    /\ chunk' = IF ChunkDropped(ps) THEN "UNVERIFIED" ELSE chunk
    /\ resident' = [p \in OverlayPages |-> IF p \in ps THEN "UNKNOWN" ELSE resident[p]]
    /\ due' = due \ ps

Icbi(ps) ==
    /\ DropCaches(ps)
    /\ UNCHANGED <<mem, memo, taking, copier, misran>>

\* gcn_snapshot_load: all of MEM1 is new, and every cache of it is dropped.
SnapshotRestore(m) ==
    /\ mem' = m
    /\ DropCaches(Pages)
    /\ UNCHANGED <<memo, taking, copier, misran>>

-----------------------------------------------------------------------------
(* Dispatch of a block in page p. *)

\* The state of the title chunk once it is looked at: hashed, when it is not known.
ChunkLooked ==
    IF chunk # "UNVERIFIED" THEN chunk
    ELSE IF \A p \in TitlePages : mem[p] = TitleCode THEN "VERIFIED" ELSE "FAILED"

\* resolve_resident, when it is not known which variant is there.
ResidentLooked(p) ==
    IF resident[p] # "UNKNOWN" THEN resident[p]
    ELSE IF mem[p] \in Variants THEN mem[p] ELSE "NONE"

RunsIpl(p)   == p \in IplPages /\ p \notin fence
LooksTitle(p)  == p \in TitlePages /\ ~RunsIpl(p)
RunsTitle(p) == LooksTitle(p) /\ ChunkLooked = "VERIFIED"
LooksOverlay(p)  == p \in OverlayPages /\ ~RunsIpl(p) /\ ~RunsTitle(p)
RunsOverlay(p) == LooksOverlay(p) /\ ResidentLooked(p) # "NONE"

\* Native code compiled from content c runs in page p.
Ran(p, c) == misran' = (misran \/ (p \notin due /\ c # mem[p]))

DispatchNative(p) ==
    /\ RunsIpl(p) \/ RunsTitle(p) \/ RunsOverlay(p)
    /\ chunk' = IF LooksTitle(p) THEN ChunkLooked ELSE chunk
    /\ resident' = IF LooksOverlay(p) THEN [resident EXCEPT ![p] = ResidentLooked(p)]
                   ELSE resident
    /\ Ran(p, IF RunsIpl(p) THEN IplCode ELSE IF RunsTitle(p) THEN TitleCode
              ELSE ResidentLooked(p))
    /\ UNCHANGED <<mem, fence, stale, memo, taking, copier, due, covered>>

\* None runs: the interpreter does, and takes the page's stale bit. The byte it is in
\* is loaded here.
DispatchMiss(p) ==
    /\ ~RunsIpl(p) /\ ~RunsTitle(p) /\ ~RunsOverlay(p)
    /\ chunk' = IF LooksTitle(p) THEN ChunkLooked ELSE chunk
    /\ resident' = IF LooksOverlay(p) THEN [resident EXCEPT ![p] = "NONE"] ELSE resident
    /\ taking' = {[page |-> p, byte |-> stale]}
    /\ UNCHANGED <<mem, fence, stale, memo, copier, due, covered, misran>>

\* Mutant: the checksum is computed once and for all.
RememberedOnce(t) == IF memo[t.page] = "unseen" THEN mem[t.page] ELSE memo[t.page]

\* miss_page_crc: the checksum the miss is known by.
Remembered(t) ==
    IF t.page \in t.byte \/ memo[t.page] = "unseen" THEN mem[t.page] ELSE memo[t.page]

\* The byte is stored back without the bit, if it was set, and the checksum computed.
TakeEnds(t) ==
    /\ t \in taking /\ taking' = {}
    /\ stale' = IF t.page \in t.byte THEN t.byte \ {t.page} ELSE stale
    /\ covered' = IF t.page \in t.byte THEN covered \ {t.page} ELSE covered
    /\ memo' = [memo EXCEPT ![t.page] = Remembered(t)]
    /\ UNCHANGED <<mem, fence, chunk, resident, copier, due, misran>>

-----------------------------------------------------------------------------
(* The GX worker's EFB copy, while the guest runs: it writes the pages, then sets the *)
(* bit with a plain read-modify-write of the byte. *)

CopierWrites(p, c) ==
    /\ copier.at = "idle"
    /\ Written({p}, c) /\ due' = due \cup {p}
    /\ copier' = [at |-> "load", page |-> {p}, byte |-> {}]
    /\ UNCHANGED <<fence, stale, chunk, resident, memo, taking, covered, misran>>

CopierLoads ==
    /\ copier.at = "load" /\ copier' = [copier EXCEPT !.at = "store", !.byte = stale]
    /\ UNCHANGED <<mem, fence, stale, chunk, resident, memo, taking, due, covered, misran>>

CopierStores ==
    /\ copier.at = "store" /\ copier' = [at |-> "idle", page |-> {}, byte |-> {}]
    /\ stale' = copier.byte \cup copier.page /\ covered' = covered \cup copier.page
    /\ UNCHANGED <<mem, fence, chunk, resident, memo, taking, due, misran>>

-----------------------------------------------------------------------------

PageRanges == {{p \in Pages : a <= p /\ p <= b} : a, b \in Pages} \ {{}}

Stores ==
    /\ taking = {}
    /\ \E c \in Contents :
          \/ \E p \in Pages : StoreInlined(p, c) \/ StoreByDevice(p, c)
          \/ \E ps \in PageRanges : StoreFenced(ps, c)
          \/ SnapshotRestore([p \in Pages |-> c])

Runs ==
    \/ /\ taking = {}
       /\ \/ \E ps \in PageRanges : Icbi(ps)
          \/ \E p \in Pages : DispatchNative(p) \/ DispatchMiss(p)
    \/ \E t \in taking : TakeEnds(t)

Copies ==
    \/ \E p \in Pages, c \in Contents : CopierWrites(p, c)
    \/ CopierLoads
    \/ CopierStores

-----------------------------------------------------------------------------
(* Properties. *)

CodeTypeOK ==
    /\ mem \in [Pages -> Contents]
    /\ {fence, stale, due, covered} \subseteq SUBSET Pages
    /\ chunk \in {"UNVERIFIED", "VERIFIED", "FAILED"}
    /\ \A p \in OverlayPages :
          resident[p] \in {"UNKNOWN", "NONE"} \/ resident[p] \in Variants
    /\ \A p \in Pages : memo[p] = "unseen" \/ memo[p] \in Contents
    /\ Cardinality(taking) <= 1 /\ copier.at \in {"idle", "load", "store"}
    /\ misran \in BOOLEAN

\* A guest that covers what it wrote with icbi before it branches there never runs
\* native code of other bytes than are in memory, whichever of the caches it comes
\* from and whoever wrote: no cache survives an icbi, and none is filled with bytes
\* that an icbi has not yet made good.
NeverStale == ~misran

\* The checksum a miss goes by is that of the bytes in memory, in every page that is not
\* waiting for an icbi and has not been reported since it was computed.
MemoTrue ==
    \A p \in Pages \ (due \cup stale) : memo[p] \in {"unseen", mem[p]}

\* Every page reported since its bit was last taken has its bit set, when nobody is in
\* the middle of a read-modify-write.
ReportsKept == taking = {} /\ copier.at = "idle" => covered \subseteq stale
=============================================================================
