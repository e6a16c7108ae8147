------------------------------- MODULE Screen -------------------------------
(***************************************************************************)
(* What the host window promises (host/host_window.h, gx/gx.h): the screen *)
(* shows whole frame-buffer copies only and never goes back to an older    *)
(* one; the last frame the guest has finished gets there unless the host   *)
(* has given it up or the window is closed; closing the window ends the    *)
(* run. Copies are numbered in the order in which the GPU makes them.      *)
(***************************************************************************)
EXTENDS Naturals

VARIABLES
    copies,     \* whole copies landed in the external frame buffer
    finished,   \* the last of them when the guest last finished a frame
    shown,      \* the copy on the screen, 0 for black
    lost,       \* the newest copy the host had no window or no memory for
    closed,     \* the user has closed the window
    running     \* the guest runs

vars == <<copies, finished, shown, lost, closed, running>>

Init ==
    /\ copies = 0 /\ finished = 0 /\ shown = 0 /\ lost = 0
    /\ closed = FALSE /\ running = TRUE

Copy == copies' = copies + 1 /\ UNCHANGED <<finished, shown, lost, closed, running>>

Finish == finished' = copies /\ UNCHANGED <<copies, shown, lost, closed, running>>

Show ==
    /\ ~ closed
    /\ \E c \in (shown + 1)..copies : shown' = c
    /\ UNCHANGED <<copies, finished, lost, closed, running>>

GiveUp ==
    /\ \E c \in (lost + 1)..copies : lost' = c
    /\ UNCHANGED <<copies, finished, shown, closed, running>>

Close == closed' = TRUE /\ UNCHANGED <<copies, finished, shown, lost, running>>

Stop == closed /\ running' = FALSE /\ UNCHANGED <<copies, finished, shown, lost, closed>>

Next == Copy \/ Finish \/ Show \/ GiveUp \/ Close \/ Stop

\* The last finished frame is on the screen, or a newer copy is, or it was given up.
UpToDate == finished <= shown \/ finished <= lost \/ closed

Liveness ==
    /\ (~ UpToDate) ~> UpToDate
    /\ closed ~> ~ running

Spec == Init /\ [][Next]_vars /\ Liveness
=============================================================================
