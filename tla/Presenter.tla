----------------------------- MODULE Presenter -----------------------------
(***************************************************************************)
(* The way of a frame to the host window (runtime/src/host_window.c, with  *)
(* vi.c's field boundary and gx.c's frame-buffer lock). Three threads:     *)
(*                                                                         *)
(*   the GX worker writes copies into the external frame buffer, row by    *)
(*   row, and counts a generation when the guest has finished a frame;     *)
(*   the CPU thread looks at each field boundary for a new generation and  *)
(*   copies the buffer to a mailbox of one frame, with one message posted  *)
(*   at most;                                                              *)
(*   the window thread takes the message, copies the mailbox out, converts *)
(*   it and draws it: with OpenGL at once, with GDI when it is painted.    *)
(*                                                                         *)
(* A row holds the number of the copy that wrote it last, so a frame is    *)
(* torn when two of its rows differ. The two locks are SRW locks; who      *)
(* holds one is read off the threads' positions. One geometry: the buffers *)
(* grow with the first frame, and only then can they fail to. A redraw of  *)
(* an uncovered window shows what was shown and is left out.               *)
(***************************************************************************)
EXTENDS Naturals

CONSTANTS
    Height,         \* rows of the frame buffer
    MaxCopies,      \* bound on the copies the guest asks for
    MaxFrames       \* bound on the frames it finishes

ASSUME PresenterAssumption == Height \in Nat \ {0} /\ MaxCopies \in Nat /\ MaxFrames \in Nat

VARIABLES
    xfb,                \* the rows of the external frame buffer
    generation,         \* s_xfb_generation
    copies, finished,   \* copies made, and made when the generation was last counted
    gpc, grow,          \* where the GX worker is, and the row it writes
    cpc, crow, gen,     \* where the CPU thread is; its row; the generation it has read
    presented,          \* s_presented_xfb_generation
    hwnd,               \* s_hwnd is set
    mailbox,            \* s_shared_data
    posted,             \* s_present_posted
    messages,           \* WM_GCN_PRESENT messages in the window's queue
    wpc, wrow,          \* where the window thread is, and its row
    scratch, rgb,       \* s_scratch, s_rgb
    gl,                 \* s_gl_active
    dirty,              \* the client area waits to be painted
    screen,             \* what the window shows
    sized,              \* the buffers that have their size
    quit,               \* s_quit
    lost                \* the newest copy whose way to the screen ended early

gpu    == <<xfb, generation, copies, finished, gpc, grow>>
cpu    == <<cpc, crow, gen, presented>>
mail   == <<mailbox, posted, messages>>
window == <<hwnd, wpc, wrow, scratch, rgb, gl, dirty, screen, quit>>
vars   == <<gpu, cpu, mail, window, sized, lost>>

Rows  == 1..Height
Black == [r \in Rows |-> 0]

Init ==
    /\ xfb = Black /\ generation = 0 /\ copies = 0 /\ finished = 0
    /\ gpc = "decode" /\ grow = 1
    /\ cpc = "start" /\ crow = 1 /\ gen = 0 /\ presented = 0
    /\ hwnd = FALSE /\ mailbox = Black /\ posted = FALSE /\ messages = 0
    /\ wpc = "none" /\ wrow = 1 /\ scratch = Black /\ rgb = Black
    /\ gl = FALSE /\ dirty = FALSE /\ screen = Black
    /\ sized = {} /\ quit = FALSE /\ lost = 0

\* s_xfb_lock: exclusive around the rows of a copy, shared around the look of VI.
XfbWritten == gpc = "copy"
XfbRead    == cpc \in {"look", "lockmail", "mail", "post", "send", "unpost"}

\* s_lock of the mailbox: exclusive for the publication, shared for the copy-out.
MailWritten == cpc = "mail"
MailRead    == wpc = "copyout"

LoseUpTo(c) == lost' = IF c > lost THEN c ELSE lost

-----------------------------------------------------------------------------
(* The GX worker. *)

GuestStarted == cpc \notin {"start", "await"}

\* gcn_gx_xfb_write_begin: waits for the readers.
G_CopyBegin ==
    /\ gpc = "decode" /\ GuestStarted /\ copies < MaxCopies
    /\ ~ XfbRead
    /\ gpc' = "copy" /\ grow' = 1
    /\ UNCHANGED <<xfb, generation, copies, finished, cpu, mail, window, sized, lost>>

\* One destination row; the guard is released after the last.
G_CopyRow ==
    /\ gpc = "copy"
    /\ xfb' = [xfb EXCEPT ![grow] = copies + 1]
    /\ IF grow = Height
       THEN gpc' = "decode" /\ copies' = copies + 1 /\ grow' = 1
       ELSE grow' = grow + 1 /\ UNCHANGED <<gpc, copies>>
    /\ UNCHANGED <<generation, finished, cpu, mail, window, sized, lost>>

\* GX_BP_SETDRAWDONE: every copy is in memory, and the generation is counted
\* without the lock.
G_DrawDone ==
    /\ gpc = "decode" /\ GuestStarted /\ generation < MaxFrames
    /\ generation' = generation + 1 /\ finished' = copies
    /\ UNCHANGED <<xfb, copies, gpc, grow, cpu, mail, window, sized, lost>>

-----------------------------------------------------------------------------
(* The CPU thread: gcn_host_window_start, then the field boundaries. *)

\* Without the event or the thread the run goes on without a window.
C_Start ==
    /\ cpc = "start"
    /\ \/ cpc' = "await" /\ wpc' = "create"
       \/ cpc' = "run" /\ UNCHANGED wpc
    /\ UNCHANGED <<gpu, crow, gen, presented, mail, hwnd, wrow, scratch, rgb, gl, dirty,
                   screen, quit, sized, lost>>

\* The wait for the window ends with its event or after five seconds, whatever the
\* window thread has done by then.
C_Started ==
    /\ cpc = "await"
    /\ cpc' = "run"
    /\ UNCHANGED <<gpu, crow, gen, presented, mail, window, sized, lost>>

\* gcn_gx_xfb_read_begin at a field boundary.
C_FieldBoundary ==
    /\ cpc = "run"
    /\ ~ XfbWritten
    /\ cpc' = "look"
    /\ UNCHANGED <<gpu, crow, gen, presented, mail, window, sized, lost>>

\* gcn_host_window_present has returned: the generation counts as presented,
\* whatever became of it, and the frame buffer is released.
PresentReturns == presented' = gen /\ cpc' = "run"

\* The generation is read under the lock; without a window the frame is dropped.
C_Look ==
    /\ cpc = "look"
    /\ gen' = generation
    /\ CASE generation = presented -> cpc' = "run" /\ UNCHANGED <<presented, lost>>
         [] generation # presented /\ hwnd -> cpc' = "lockmail" /\ UNCHANGED <<presented, lost>>
         [] generation # presented /\ ~ hwnd ->
              /\ presented' = generation /\ cpc' = "run"
              /\ LoseUpTo(xfb[1])
    /\ UNCHANGED <<gpu, crow, mail, window, sized>>

\* s_lock exclusive; a mailbox that cannot grow drops the frame.
C_LockMail ==
    /\ cpc = "lockmail"
    /\ ~ MailRead
    /\ \/ /\ cpc' = "mail" /\ crow' = 1 /\ sized' = sized \cup {"mailbox"}
          /\ UNCHANGED <<presented, lost>>
       \/ /\ "mailbox" \notin sized
          /\ PresentReturns /\ LoseUpTo(xfb[1])
          /\ UNCHANGED <<crow, sized>>
    /\ UNCHANGED <<gpu, gen, mail, window>>

\* A row of the memcpy out of guest memory; s_lock is released after the last.
C_MailRow ==
    /\ cpc = "mail"
    /\ mailbox' = [mailbox EXCEPT ![crow] = xfb[crow]]
    /\ IF crow = Height THEN cpc' = "post" /\ crow' = 1 ELSE crow' = crow + 1 /\ UNCHANGED cpc
    /\ UNCHANGED <<gpu, gen, presented, posted, messages, window, sized, lost>>

\* Mutant: a message for every frame.
C_PostAlways ==
    /\ cpc = "post"
    /\ posted' = TRUE
    /\ cpc' = "send"
    /\ UNCHANGED <<gpu, crow, gen, presented, mailbox, messages, window, sized, lost>>

\* InterlockedExchange: a message is sent if none is on its way.
C_Post ==
    /\ cpc = "post"
    /\ posted' = TRUE
    /\ IF posted THEN PresentReturns ELSE cpc' = "send" /\ UNCHANGED presented
    /\ UNCHANGED <<gpu, crow, gen, mailbox, messages, window, sized, lost>>

\* PostMessageA, which fails without a window and may fail with one.
C_Send ==
    /\ cpc = "send"
    /\ \/ wpc # "exited" /\ messages' = messages + 1 /\ PresentReturns
       \/ cpc' = "unpost" /\ UNCHANGED <<messages, presented>>
    /\ UNCHANGED <<gpu, crow, gen, mailbox, posted, window, sized, lost>>

\* Mutant: the bit stays set after a message that was not sent.
C_UnpostKeeps ==
    /\ cpc = "unpost"
    /\ PresentReturns /\ LoseUpTo(mailbox[1])
    /\ UNCHANGED <<gpu, crow, gen, mail, window, sized>>

\* A failed message clears the bit: left set, it would keep all later ones back.
C_Unpost ==
    /\ cpc = "unpost"
    /\ posted' = FALSE
    /\ PresentReturns /\ LoseUpTo(mailbox[1])
    /\ UNCHANGED <<gpu, crow, gen, mailbox, messages, window, sized>>

\* The dispatch loop's look at gcn_host_window_quit_requested.
C_Quit ==
    /\ cpc = "run" /\ quit
    /\ cpc' = "stopped"
    /\ UNCHANGED <<gpu, crow, gen, presented, mail, window, sized, lost>>

-----------------------------------------------------------------------------
(* The window thread: window_thread_proc, then wnd_proc and do_present. *)

W_Create ==
    /\ wpc = "create"
    /\ \/ hwnd' = TRUE /\ wpc' = "glinit"
       \/ wpc' = "exited" /\ UNCHANGED hwnd
    /\ UNCHANGED <<gpu, cpu, mail, wrow, scratch, rgb, gl, dirty, screen, quit, sized, lost>>

\* gl_init: OpenGL, or GDI if it is switched off or fails.
W_GlInit ==
    /\ wpc = "glinit"
    /\ gl' \in BOOLEAN
    /\ wpc' = "pump"
    /\ UNCHANGED <<gpu, cpu, mail, hwnd, wrow, scratch, rgb, dirty, screen, quit, sized, lost>>

\* GetMessageA takes a present message.
W_Take ==
    /\ wpc = "pump" /\ messages > 0
    /\ messages' = messages - 1
    /\ wpc' = "clear"
    /\ UNCHANGED <<gpu, cpu, mailbox, posted, hwnd, wrow, scratch, rgb, gl, dirty, screen,
                   quit, sized, lost>>

\* The wake bit is cleared before the mailbox is read, so that a frame published
\* from now on sends a message of its own.
W_Clear ==
    /\ wpc = "clear"
    /\ posted' = FALSE
    /\ wpc' = "lockout"
    /\ UNCHANGED <<gpu, cpu, mailbox, messages, hwnd, wrow, scratch, rgb, gl, dirty, screen,
                   quit, sized, lost>>

\* s_lock shared; no memory for the copy drops the frame.
W_LockOut ==
    /\ wpc = "lockout"
    /\ ~ MailWritten
    /\ \/ wpc' = "copyout" /\ wrow' = 1 /\ sized' = sized \cup {"scratch"} /\ UNCHANGED lost
       \/ "scratch" \notin sized /\ wpc' = "pump" /\ LoseUpTo(mailbox[1]) /\ UNCHANGED <<wrow, sized>>
    /\ UNCHANGED <<gpu, cpu, mail, hwnd, scratch, rgb, gl, dirty, screen, quit>>

W_OutRow ==
    /\ wpc = "copyout"
    /\ scratch' = [scratch EXCEPT ![wrow] = mailbox[wrow]]
    /\ IF wrow = Height THEN wpc' = "draw" /\ wrow' = 1 ELSE wrow' = wrow + 1 /\ UNCHANGED wpc
    /\ UNCHANGED <<gpu, cpu, mail, hwnd, rgb, gl, dirty, screen, quit, sized, lost>>

\* The conversion, and SwapBuffers or InvalidateRect.
W_Draw ==
    /\ wpc = "draw"
    /\ wpc' = "pump"
    /\ \/ /\ rgb' = scratch /\ sized' = sized \cup {"rgb"}
          /\ IF gl THEN screen' = scratch /\ UNCHANGED dirty ELSE dirty' = TRUE /\ UNCHANGED screen
          /\ UNCHANGED lost
       \/ /\ "rgb" \notin sized
          /\ LoseUpTo(scratch[1])
          /\ UNCHANGED <<rgb, sized, dirty, screen>>
    /\ UNCHANGED <<gpu, cpu, mail, hwnd, wrow, scratch, gl, quit>>

\* WM_PAINT, which GetMessageA makes up when no message is queued.
W_Paint ==
    /\ wpc = "pump" /\ messages = 0 /\ dirty
    /\ screen' = rgb /\ dirty' = FALSE
    /\ UNCHANGED <<gpu, cpu, mail, hwnd, wpc, wrow, scratch, rgb, gl, quit, sized, lost>>

\* WM_CLOSE and WM_DESTROY: the queue goes with the window, s_hwnd stays.
W_Close ==
    /\ wpc = "pump"
    /\ quit' = TRUE /\ wpc' = "exited" /\ messages' = 0
    /\ UNCHANGED <<gpu, cpu, mailbox, posted, hwnd, wrow, scratch, rgb, gl, dirty, screen,
                   sized, lost>>

-----------------------------------------------------------------------------
GxStep  == G_CopyBegin \/ G_CopyRow \/ G_DrawDone
CpuStep == C_Start \/ C_Started \/ C_FieldBoundary \/ C_Look \/ C_LockMail \/ C_MailRow
           \/ C_Post \/ C_Send \/ C_Unpost \/ C_Quit
Present == W_Create \/ W_GlInit \/ W_Take \/ W_Clear \/ W_LockOut \/ W_OutRow \/ W_Draw \/ W_Paint

Next == GxStep \/ CpuStep \/ Present \/ W_Close

Spec == Init /\ [][Next]_vars

\* Every thread runs and a copy once begun ends; the dispatch loop, which goes on
\* for as long as the guest does, comes by its look at the quit flag again and again.
\* Nothing makes the guest draw or the user close the window.
Fairness ==
    /\ WF_vars(G_CopyRow)
    /\ WF_vars(CpuStep)
    /\ SF_vars(C_Quit)
    /\ WF_vars(Present)

FairSpec == Spec /\ Fairness

-----------------------------------------------------------------------------
(* Properties. *)

Frames == [Rows -> 0..copies]

\* The types, and "instead of growing an unbounded stale-message backlog"
\* (wnd_proc): no more than one message is ever queued, and none without the bit.
TypeOK ==
    /\ xfb \in [Rows -> 0..(copies + 1)] /\ generation \in 0..MaxFrames
    /\ copies \in 0..MaxCopies /\ finished \in 0..copies
    /\ gpc \in {"decode", "copy"} /\ grow \in Rows
    /\ cpc \in {"start", "await", "run", "look", "lockmail", "mail", "post", "send", "unpost",
                "stopped"}
    /\ crow \in Rows /\ gen \in 0..generation /\ presented \in 0..generation
    /\ hwnd \in BOOLEAN /\ mailbox \in Frames /\ posted \in BOOLEAN
    /\ messages \in 0..1 /\ (messages = 1 => posted)
    /\ wpc \in {"none", "create", "glinit", "pump", "clear", "lockout", "copyout", "draw", "exited"}
    /\ wrow \in Rows /\ scratch \in Frames /\ rgb \in Frames /\ screen \in Frames
    /\ gl \in BOOLEAN /\ dirty \in BOOLEAN /\ quit \in BOOLEAN
    /\ sized \subseteq {"mailbox", "scratch", "rgb"} /\ lost \in 0..copies

\* A torn frame stands for no copy.
ShownCopy == IF \A r \in Rows : screen[r] = screen[1] THEN screen[1] ELSE copies + 1

Target == INSTANCE Screen WITH
    shown <- ShownCopy, closed <- quit, running <- cpc # "stopped"

\* "no torn frame is ever displayed" (host_window.h), "The mailbox always keeps the
\* newest complete field" (window_thread_proc): what reaches the screen is a whole
\* copy, never older than the one before; a finished frame gets there unless it was
\* given up; and a closed window ends the run.
ImplementsScreen == Target!Spec
=============================================================================
