----------------------------- MODULE GxConsumer -----------------------------
(***************************************************************************)
(* What the GX command consumer of runtime/src/gx.c promises the guest,    *)
(* with or without its pipeline: the commands of the stream are decoded    *)
(* once each and in order, none before it has been fetched whole from the  *)
(* FIFO; a tick does not end before the PE signals of what it fetched have *)
(* been raised; a CPU access to what GX draws sees every whole command     *)
(* fetched before it. Otherwise decoding may lag behind fetching.          *)
(***************************************************************************)
EXTENDS GxStream

VARIABLES
    stream,       \* the commands the guest writes
    fetched,      \* cells fetched from the FIFO
    decoded,      \* the commands decoded, by their place in the stream
    ticking,      \* gcn_gx_tick is running
    seen          \* what the CPU's last peek at the EFB saw decoded

vars == <<stream, fetched, decoded, ticking, seen>>

Init ==
    /\ stream \in Streams
    /\ fetched = 0
    /\ decoded = <<>>
    /\ ticking = FALSE
    /\ seen = 0

TickBegin == ~ ticking /\ ticking' = TRUE /\ UNCHANGED <<stream, fetched, decoded, seen>>

Fetch ==
    /\ ticking
    /\ fetched + Chunk <= SizeOf(stream)
    /\ fetched' = fetched + Chunk
    /\ UNCHANGED <<stream, decoded, ticking, seen>>

Decode ==
    /\ Len(decoded) < WholeIn(stream, fetched)
    /\ decoded' = Append(decoded, Len(decoded) + 1)
    /\ UNCHANGED <<stream, fetched, ticking, seen>>

\* The PE signal of a command fetched in a tick is raised in that tick.
TickEnd ==
    /\ ticking
    /\ \A i \in DOMAIN stream :
           stream[i].kind = "fence" /\ End(stream, i) <= fetched => i <= Len(decoded)
    /\ ticking' = FALSE
    /\ UNCHANGED <<stream, fetched, decoded, seen>>

Peek ==
    /\ ~ ticking
    /\ Len(decoded) = WholeIn(stream, fetched)
    /\ seen' = Len(decoded)
    /\ UNCHANGED <<stream, fetched, decoded, ticking>>

Next == TickBegin \/ Fetch \/ Decode \/ TickEnd \/ Peek

Spec == Init /\ [][Next]_vars
=============================================================================
