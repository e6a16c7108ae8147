------------------------------ MODULE Resident ------------------------------
(***************************************************************************)
(* The resident Vulkan renderer (gx_vulkan.c, gx_render.c): the frame      *)
(* buffer lives on the GPU, triangles and copies are recorded and run      *)
(* together at the next submission, textures are staged in an arena of     *)
(* versions, copies reach guest memory after the fence, and what the GPU   *)
(* cannot do is done by the software rasteriser on its own planes. One     *)
(* action is one call of gx_render.h. A submission waits for its fence, so *)
(* the GPU's part of it is one step; a device error ends the program and   *)
(* is left out.                                                            *)
(***************************************************************************)
EXTENDS GxImage

CONSTANTS
    Slots,        \* cache entries of each kind
    ArenaSize,    \* bytes of the staging arena of each kind
    DrawArena,    \* bytes of the draw arena: a packet takes one, a tile list one
    XfbRing,      \* copies of each kind that may await the fence
    TexRing,
    Attempts,     \* tries to bring a triangle's bindings into one epoch
    Cow,          \* the settings of GCN_GX_VK_TEXTURE_COW to run with
    Scenes        \* what the guest does: names of operations, and how many in all

Kinds   == {"texture", "palette"}
NoArea  == "none"
Unseen  == Pictures
Kind(a) == IF a \in Cells THEN "texture" ELSE "palette"

ASSUME ResidentAssumption ==
    /\ NoArea \notin Cells \cup Palettes
    /\ Slots \in [Kinds -> Nat] /\ ArenaSize \in [Kinds -> Nat] /\ DrawArena \in Nat \ {0, 1}
    /\ XfbRing \in Nat \ {0} /\ TexRing \in Nat \ {0} /\ Attempts \in Nat \ {0}
    /\ Cow \subseteq BOOLEAN
    /\ \A s \in Scenes : s.ops \in Nat
\* A primitive's textures fit the cache together (32 entries, 8 units).
ASSUME CacheAssumption ==
    \A d \in Draws, k \in Kinds : Slots[k] >= Cardinality({a \in Areas(d) : Kind(a) = k})

VARIABLES
    vk,      \* s_vk, the software planes and memory: what the renderers work on
    owed,    \* cells copied to since the last fence, which the guest leaves alone
    seen,    \* what the guest has just read
    saved,   \* a snapshot just taken: the frame buffer it holds and the one there was
    due,     \* the frame buffer and memory as they will be when all recorded has run
    scene, ops

vars == <<vk, owed, seen, saved, due, scene, ops>>

NoEntry == [area |-> NoArea, bytes |-> Blank, offset |-> 0, capacity |-> 0,
            current |-> FALSE, dirty |-> FALSE]

Init ==
    /\ vk \in [cow : Cow,
               memory    : {[a \in Cells \cup Palettes |-> Blank]},
               soft      : {Blank},            \* the software EFB
               efb       : {Blank},            \* the EFB image on the GPU
               valid     : {FALSE},            \* resident_efb_valid
               recording : {FALSE},
               commands  : {<<>>},             \* the command buffer
               jobs      : {0},                \* triangles not yet dispatched
               used      : {0},                \* resident_draw_arena_used
               packets   : {[i \in 0 .. DrawArena - 1 |-> <<>>]},
               planes    : {Blank},            \* staged planes, to upload
               cache     : {[k \in Kinds |-> [i \in 1 .. Slots[k] |-> NoEntry]]},
               order     : {[k \in Kinds |-> <<>>]},   \* entries in use, oldest stamp first
               top       : {[k \in Kinds |-> 0]},      \* texture_arena_used, tlut_arena_used
               staging   : {[k \in Kinds |-> [i \in 0 .. ArenaSize[k] - 1 |-> Blank]]},
               xfb       : {<<>>},             \* targets of the copies awaiting the fence
               tex       : {<<>>},
               readback  : {[xfb |-> [i \in 1 .. XfbRing |-> Blank],
                             tex |-> [i \in 1 .. TexRing |-> Blank], plane |-> Blank]},
               ok        : {TRUE}]             \* the last call's result
    /\ owed = {} /\ seen = Unseen /\ saved = <<>>
    /\ due = [efb |-> Blank, memory |-> [a \in Cells \cup Palettes |-> Blank]]
    /\ scene \in Scenes /\ ops = 0

-----------------------------------------------------------------------------
\* The GPU.

\* The bytes a packet's bindings point to in the arenas.
Sampled(v, packet) ==
    FlattenSeq([i \in DOMAIN packet |->
        [k \in 1 .. packet[i].length |-> v.staging[packet[i].kind][packet[i].offset + k - 1]]])

Execute(v, c) ==
    CASE c.op = "upload"   -> [v EXCEPT !.efb = v.planes]
      [] c.op = "dispatch" ->
            [v EXCEPT !.efb = FoldLeft(LAMBDA p, i : Painted(p, Sampled(v, v.packets[c.at + i - 1])),
                                       v.efb, [i \in 1 .. c.count |-> i])]
      [] c.op = "xfb"      -> [v EXCEPT !.readback.xfb[c.at] = v.efb]
      [] c.op = "tex"      -> [v EXCEPT !.readback.tex[c.at] = v.efb]
      [] c.op = "clear"    -> [v EXCEPT !.efb = Blank]
      [] c.op = "download" -> [v EXCEPT !.readback.plane = v.efb]

Recording(v, op, at, count) ==
    [v EXCEPT !.commands = Append(@, [op |-> op, at |-> at, count |-> count])]

\* resident_emit_draw_batch
Emitted(v) ==
    IF v.jobs = 0 THEN v
    ELSE [Recording(v, "dispatch", v.used, v.jobs) EXCEPT !.used = v.used + v.jobs + 1, !.jobs = 0]

\* resident_materialize_pending: the frames first, then the textures.
Landed(m, targets, from) ==
    FoldLeft(LAMBDA n, i : [n EXCEPT ![targets[i]] = from[i]], m, [i \in DOMAIN targets |-> i])

Materialized(v) ==
    [v EXCEPT !.memory = Landed(Landed(@, v.xfb, v.readback.xfb), v.tex, v.readback.tex),
              !.xfb = <<>>, !.tex = <<>>]

\* resident_submit_batch, with the wait for its fence.
Submitted(v) ==
    LET e   == IF v.recording THEN Emitted(v) ELSE v
        ran == FoldLeft(Execute, e, e.commands)
    IN  Materialized([ran EXCEPT !.commands = <<>>, !.recording = FALSE, !.used = 0])

\* resident_begin_commands
Begun(v) ==
    IF v.recording THEN v
    ELSE IF v.valid THEN [v EXCEPT !.recording = TRUE]
    ELSE Recording([v EXCEPT !.recording = TRUE, !.planes = v.soft, !.valid = TRUE], "upload", 0, 0)

\* resident_sync_to_software
Synced(v) ==
    IF ~v.valid THEN v
    ELSE LET w == Submitted(Recording(Emitted(Begun(v)), "download", 0, 0))
         IN  [w EXCEPT !.soft = w.readback.plane]

-----------------------------------------------------------------------------
\* Textures and palettes.

Failed(v) == [v EXCEPT !.ok = FALSE]

\* resident_pending_ram_overlap
PendingOverlap(v, a) == a \in ToSet(v.xfb) \cup ToSet(v.tex)

EntryOf(v, a) == {i \in 1 .. Slots[Kind(a)] : v.cache[Kind(a)][i].area = a}

\* The entry a new area takes: the last one unused, or the one used longest ago.
Victim(v, k) == LET free == 1 .. Slots[k] \ ToSet(v.order[k])
                IN  IF free # {} THEN CHOOSE i \in free : \A j \in free : j <= i
                    ELSE Head(v.order[k])

Stamped(v, k, i) == [v EXCEPT !.order[k] = Append(RemoveFirst(@, i), i)]

\* validate_texture_binding, validate_tlut_binding: the entry holds the bytes that
\* memory holds. An entry taken over keeps its place in the arena.
Validated(v, a) ==
    LET w == IF Kind(a) = "texture" /\ PendingOverlap(v, a) THEN Submitted(v) ELSE v
        k == Kind(a)
        i == IF EntryOf(w, a) # {} THEN CHOOSE j \in EntryOf(w, a) : TRUE ELSE Victim(w, k)
        e == w.cache[k][i]
        hit == e.area = a /\ e.bytes = w.memory[a]
    IN  [Stamped(w, k, i) EXCEPT !.cache[k][i] =
            IF hit THEN e ELSE [e EXCEPT !.area = a, !.bytes = w.memory[a], !.dirty = TRUE]]

\* validate_draw_textures: unit by unit.
UnitOrder(d) ==
    FlattenSeq([i \in DOMAIN d |-> IF d[i].palette = NoPalette THEN <<d[i].texture>>
                                   ELSE <<d[i].texture, d[i].palette>>])
DrawValidated(v, d) == FoldLeft(Validated, v, UnitOrder(d))

Ready(e) == ~e.dirty /\ e.capacity >= Length[e.area] /\ e.current

\* The arena's epoch ends: no version of it is current.
RolledOver(v, k) ==
    [v EXCEPT !.cache[k] = [i \in DOMAIN @ |-> [@[i] EXCEPT !.current = FALSE]], !.top[k] = 0]

\* A new version of the entry, at the top of the arena.
Placed(v, k, i) ==
    LET n == Length[v.cache[k][i].area]
    IN  [v EXCEPT !.cache[k][i].offset = v.top[k], !.cache[k][i].capacity = n,
                  !.cache[k][i].current = TRUE, !.top[k] = v.top[k] + n]

Uploaded(v, k, i) ==
    LET e == v.cache[k][i]
    IN  [v EXCEPT !.staging[k] = [b \in DOMAIN @ |->
                       IF b \in e.offset .. e.offset + Length[e.area] - 1 THEN e.bytes ELSE @[b]],
                  !.cache[k][i].dirty = FALSE]

\* Mutant: a fixed slot is overwritten under the draws recorded.
SettledNever(v) == v

\* Without copy-on-write the draws recorded are finished before their bytes change.
Settled(v) == IF ~v.cow /\ v.recording THEN Submitted(v) ELSE v

NeedsVersion(v, e) == e.capacity < Length[e.area] \/ ~e.current \/ (v.cow /\ v.recording)

Versioned(v, k, i) ==
    LET n == Length[v.cache[k][i].area]
    IN  IF n > ArenaSize[k] THEN Failed(v)
        ELSE IF v.top[k] + n <= ArenaSize[k] THEN Uploaded(Placed(v, k, i), k, i)
        ELSE IF ~v.cow THEN Failed(v)
        ELSE Uploaded(Placed(RolledOver(IF v.recording THEN Submitted(v) ELSE v, k), k, i), k, i)

\* ensure_resident_texture, ensure_resident_tlut
Ensured(v, a) ==
    LET k == Kind(a)
        i == CHOOSE j \in EntryOf(v, a) : TRUE
        w == Settled(v)
    IN  IF ~v.ok \/ Ready(v.cache[k][i]) THEN v
        ELSE IF NeedsVersion(w, w.cache[k][i]) THEN Versioned(w, k, i)
        ELSE Uploaded(w, k, i)

\* Every binding is of the present epoch.
BindingsReady(v, d) ==
    \A a \in Areas(d) : \A i \in EntryOf(v, a) : v.cache[Kind(a)][i].current

Bindings(v, d) ==
    FoldLeft(LAMBDA w, n : IF n > 1 /\ (~w.ok \/ BindingsReady(w, d)) THEN w
                           ELSE FoldLeft(Ensured, w, Bound(d)),
             v, [n \in 1 .. Attempts |-> n])

-----------------------------------------------------------------------------
\* Triangles.

\* Mutant: the tile list's own bytes are forgotten.
ArenaFullOfPackets(v) == v.used + v.jobs + 1 > DrawArena

\* The packet and the tile list that will follow the packets; the limits of the tile
\* lists are met in the same way.
ArenaFull(v) == v.used + v.jobs + 2 > DrawArena

Packet(v, d) ==
    [n \in DOMAIN Bound(d) |->
        LET a == Bound(d)[n]
            i == CHOOSE j \in EntryOf(v, a) : TRUE
        IN  [kind |-> Kind(a), offset |-> v.cache[Kind(a)][i].offset, length |-> Length[a]]]

\* resident_record_draw, once the bindings are ready.
Queued(v, d) ==
    LET w == Begun(IF ArenaFull(v) THEN Submitted(v) ELSE v)
    IN  [w EXCEPT !.packets[w.used + w.jobs] = Packet(w, d), !.jobs = w.jobs + 1]

RecordDraw(v, d) ==
    LET w == Bindings(v, d)
    IN  IF ~w.ok \/ ~BindingsReady(w, d) \/ (ArenaFull(w) /\ w.jobs = 0) THEN Failed(w)
        ELSE Queued(w, d)

\* The fallback: the software planes become the frame buffer, and its rasteriser
\* samples memory itself.
InSoftware(v, d) ==
    LET w == Synced(v)
    IN  [w EXCEPT !.valid = FALSE, !.soft = Painted(w.soft, Bytes(d, w.memory)), !.ok = TRUE]

\* gx_vulkan_resident_triangle
Triangle(v, d, supported) ==
    LET w == RecordDraw(v, d)
    IN  IF ~supported THEN InSoftware(v, d) ELSE IF w.ok THEN w ELSE InSoftware(w, d)

-----------------------------------------------------------------------------
\* The calls.

Op(name) == /\ name \in scene.does /\ ops < scene.ops /\ ops' = ops + 1
            /\ UNCHANGED scene

\* gx_render_draw. The textures are validated once, by the first triangle.
Draw(d, n, supported) ==
    /\ Op(IF supported THEN "draw" ELSE "fallback")
    /\ vk' = FoldLeft(LAMBDA v, i : Triangle(v, d, supported),
                      IF supported THEN DrawValidated(vk, d) ELSE vk, [i \in 1 .. n |-> i])
    /\ seen' = Unseen /\ saved' = <<>> /\ UNCHANGED owed

\* gx_vulkan_resident_efb_copy of a frame: the copy, then the clear.
CopyXfb(c, clear) ==
    LET v == Emitted(Begun(IF Len(vk.xfb) = XfbRing THEN Submitted(vk) ELSE vk))
        w == Recording(v, "xfb", Len(v.xfb) + 1, 0)
    IN  /\ Op("copy")
        /\ vk' = [(IF clear THEN Recording(w, "clear", 0, 0) ELSE w) EXCEPT !.xfb = Append(@, c)]
        /\ owed' = owed \cup {c} /\ seen' = Unseen /\ saved' = <<>>

\* gx_vulkan_resident_efb_tex_copy
CopyTex(c) ==
    LET v == Emitted(Begun(IF Len(vk.tex) = TexRing THEN Submitted(vk) ELSE vk))
    IN  /\ Op("copy")
        /\ vk' = [Recording(v, "tex", Len(v.tex) + 1, 0) EXCEPT !.tex = Append(@, c)]
        /\ owed' = owed \cup {c} /\ seen' = Unseen /\ saved' = <<>>

\* A copy the GPU cannot make: gx_raster_efb_copy makes it from the software planes.
CopyInSoftware(c, clear) ==
    LET v == Synced(vk)
    IN  /\ Op("fallback")
        /\ vk' = [v EXCEPT !.valid = FALSE, !.memory[c] = v.soft,
                           !.soft = IF clear THEN Blank ELSE @]
        /\ owed' = owed \cup {c} /\ seen' = Unseen /\ saved' = <<>>

\* gx_render_flush, at the draw-done and token writes.
Fence == /\ Op("copy")
         /\ vk' = Submitted(vk)
         /\ owed' = {} /\ seen' = Unseen /\ saved' = <<>>

\* gcn_pe_efb_read: drain, download, read the software planes.
Peek == /\ Op("peek")
        /\ vk' = Synced(Submitted(vk))
        /\ owed' = {} /\ seen' = vk'.soft /\ saved' = <<>>

\* LOADTLUT1 reads memory when it is decoded. The guest has waited for what it loads.
LoadPalette(c, p) ==
    /\ c \notin owed /\ Op("palette")
    /\ vk' = [vk EXCEPT !.memory[p] = vk.memory[c]]
    /\ seen' = Unseen /\ saved' = <<>> /\ UNCHANGED owed

GuestReads(c) ==
    /\ c \notin owed /\ Op("peek")
    /\ seen' = vk.memory[c] /\ saved' = <<>>
    /\ UNCHANGED <<vk, owed>>

GuestWrites(c, b) ==
    /\ c \notin owed /\ Op("write")
    /\ vk' = [vk EXCEPT !.memory[c] = b]
    /\ seen' = Unseen /\ saved' = <<>> /\ UNCHANGED owed

Due(v) == LET w == Submitted(v)
          IN  [efb |-> IF v.valid THEN w.efb ELSE v.soft, memory |-> w.memory]

\* gcn_snapshot_save: the drain, then the software planes.
Save == /\ Op("save")
        /\ vk' = Submitted(vk)
        /\ saved' = <<[held |-> vk'.soft, shown |-> due.efb]>>
        /\ owed' = {} /\ seen' = Unseen

Operation ==
    \/ \E d \in Draws, n \in 1 .. MaxTriangles, supported \in BOOLEAN : Draw(d, n, supported)
    \/ \E c \in XfbCells, clear \in BOOLEAN : CopyXfb(c, clear)
    \/ \E c \in TexCells : CopyTex(c)
    \/ \E c \in XfbCells \cup TexCells, clear \in BOOLEAN : CopyInSoftware(c, clear)
    \/ \E c \in Cells, p \in Palettes : LoadPalette(c, p)
    \/ \E c \in Cells : GuestReads(c) \/ \E b \in Values : GuestWrites(c, b)
    \/ Fence \/ Peek \/ Save

Next == Operation /\ due' = Due(vk')

Spec == Init /\ [][Next]_vars

-----------------------------------------------------------------------------
(* Properties. *)

\* Every part of the backend keeps its type: what is staged, recorded or pending has
\* its place in the arenas and rings (the capacity tests of resident_record_draw,
\* the copies and ensure_resident_texture).
TypeOK ==
    /\ vk.memory \in [Cells \cup Palettes -> Picture]
    /\ {vk.soft, vk.efb, vk.planes, vk.readback.plane} \subseteq Picture
    /\ \A k \in Kinds : /\ vk.top[k] \in 0 .. ArenaSize[k]
                        /\ IsInjective(vk.order[k])
                        /\ \A i \in 1 .. Slots[k] : LET e == vk.cache[k][i] IN
                              e.area # NoArea => Kind(e.area) = k /\ i \in ToSet(vk.order[k])
    /\ vk.used + vk.jobs + (IF vk.jobs = 0 THEN 0 ELSE 1) <= DrawArena
    /\ Len(vk.xfb) <= XfbRing /\ Len(vk.tex) <= TexRing
    /\ vk.ok /\ owed \subseteq Cells /\ seen \in Picture \cup {Unseen}

Abstract == INSTANCE Renderer WITH efb <- due.efb, memory <- due.memory

\* Recording, batching, staging, versions, the rings and the change between GPU and
\* software are not seen: the guest's reads and peeks show what a renderer shows that
\* does each command at once.
ImplementsRenderer == Abstract!Spec

\* A snapshot's drain materialises the resident batch "to guest RAM/software EFB"
\* (snapshot.c:462-465): the frame buffer saved is the one there is.
SnapshotWhole == saved # <<>> => saved[1].held = saved[1].shown
=============================================================================
