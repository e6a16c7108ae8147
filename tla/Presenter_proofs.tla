-------------------------- MODULE Presenter_proofs --------------------------
(***************************************************************************)
(* What holds of Presenter for a frame buffer of any height and any number *)
(* of copies and frames: no torn frame reaches the screen and none older   *)
(* than the one before, which is what Screen promises short of liveness.   *)
(***************************************************************************)
EXTENDS Presenter, TLAPS

\* The two locks: a writer and a reader never hold one together.
LocksHold == ~(XfbWritten /\ XfbRead) /\ ~(MailWritten /\ MailRead)

\* Each buffer is one whole copy, but for the rows that the copy under way has done.
XfbRight ==
    \A r \in Rows : xfb[r] = IF gpc = "copy" /\ r < grow THEN copies + 1 ELSE copies
MailRight ==
    \A r \in Rows : mailbox[r] = IF cpc = "mail" /\ r < crow THEN copies ELSE mailbox[Height]
OutRight ==
    \A r \in Rows : scratch[r] = IF wpc = "copyout" /\ r < wrow THEN mailbox[r]
                                 ELSE scratch[Height]
RgbRight    == \A r \in Rows : rgb[r] = rgb[Height]
ScreenRight == \A r \in Rows : screen[r] = screen[Height]

\* A row is never newer downstream.
InStep ==
    \A r \in Rows : /\ screen[r] <= rgb[r] /\ rgb[r] <= scratch[r]
                    /\ scratch[r] <= mailbox[r] /\ mailbox[r] <= copies

\* One of the three has the present message: the queue, the window thread before it
\* clears the bit, the CPU thread before it has sent or given it up.
Queued  == messages = 1
Taken   == wpc = "clear"
Unsent  == cpc \in {"send", "unpost"}
OneMessage ==
    /\ Queued \/ Taken \/ Unsent => posted
    /\ ~(Queued /\ Taken) /\ ~(Queued /\ Unsent) /\ ~(Taken /\ Unsent)

ClosedRight == quit => wpc = "exited"

\* A copy is begun below the bound only, and there is no window before it is asked for.
Bounded   == gpc = "copy" => copies < MaxCopies
Unstarted == cpc = "start" => wpc = "none"

PresenterInv ==
    /\ TypeOK
    /\ LocksHold /\ XfbRight /\ MailRight /\ OutRight /\ RgbRight /\ ScreenRight
    /\ InStep /\ OneMessage /\ ClosedRight /\ Bounded /\ Unstarted

-----------------------------------------------------------------------------
(* The invariant. *)

\* The types, buffer by buffer.
GpuTypes ==
    /\ xfb \in [Rows -> 0..(copies + 1)] /\ generation \in 0..MaxFrames
    /\ copies \in 0..MaxCopies /\ finished \in 0..copies
    /\ gpc \in {"decode", "copy"} /\ grow \in Rows
CpuTypes ==
    /\ cpc \in {"start", "await", "run", "look", "lockmail", "mail", "post", "send", "unpost",
                "stopped"}
    /\ crow \in Rows /\ gen \in 0..generation /\ presented \in 0..generation
MailTypes ==
    /\ mailbox \in [Rows -> 0..copies] /\ posted \in BOOLEAN
    /\ messages \in 0..1 /\ (messages = 1 => posted)
WindowTypes ==
    /\ hwnd \in BOOLEAN
    /\ wpc \in {"none", "create", "glinit", "pump", "clear", "lockout", "copyout", "draw", "exited"}
    /\ wrow \in Rows
    /\ scratch \in [Rows -> 0..copies] /\ rgb \in [Rows -> 0..copies]
    /\ screen \in [Rows -> 0..copies]
    /\ gl \in BOOLEAN /\ dirty \in BOOLEAN /\ quit \in BOOLEAN
    /\ sized \subseteq {"mailbox", "scratch", "rgb"}

\* TypeOK is their conjunction.
LEMMA TypeParts == TypeOK <=> GpuTypes /\ CpuTypes /\ MailTypes /\ WindowTypes /\ lost \in 0..copies
  BY DEF TypeOK, GpuTypes, CpuTypes, MailTypes, WindowTypes, Frames

\* Everything is black and nobody is anywhere.
LEMMA InitInv == Init => PresenterInv
<1> SUFFICES ASSUME Init PROVE PresenterInv
  OBVIOUS
<1>1. 1 \in Rows /\ Height \in Rows
  BY PresenterAssumption DEF Rows
<1>2. TypeOK
  <2>1. Black \in [Rows -> 0..0] /\ 0 \in 0..0 /\ 0 \in 0..1 /\ 0 + 1 = 1
    BY DEF Black
  <2>2. Black \in [Rows -> 0..1] /\ 0 \in 0..MaxCopies /\ 0 \in 0..MaxFrames
    BY PresenterAssumption DEF Black
  <2>3. GpuTypes
    BY <1>1, <2>1, <2>2 DEF Init, GpuTypes
  <2>4. CpuTypes
    BY <1>1, <2>1 DEF Init, CpuTypes
  <2>5. MailTypes
    <3>1. mailbox \in [Rows -> 0..copies]
      BY <2>1 DEF Init
    <3>2. messages \in 0..1 /\ messages # 1
      BY DEF Init
    <3>3. posted \in BOOLEAN
      BY DEF Init
    <3> QED BY <3>1, <3>2, <3>3 DEF MailTypes
  <2>6. WindowTypes
    BY <1>1, <2>1 DEF Init, WindowTypes
  <2>7. lost \in 0..copies
    BY DEF Init
  <2> QED BY <2>3, <2>4, <2>5, <2>6, <2>7, TypeParts
<1>3. XfbRight /\ MailRight /\ OutRight /\ RgbRight /\ ScreenRight /\ InStep
  BY <1>1 DEF Init, Black, XfbRight, MailRight, OutRight, RgbRight, ScreenRight, InStep
<1>4. LocksHold /\ OneMessage /\ ClosedRight /\ Bounded /\ Unstarted
  BY DEF Init, Bounded, Unstarted, LocksHold, XfbWritten, XfbRead, MailWritten, MailRead,
     OneMessage, Queued, Taken, Unsent, ClosedRight
<1> QED BY <1>2, <1>3, <1>4 DEF PresenterInv

\* What the frame on its way may be given up for is a copy that was made.
LEMMA LostRight ==
    ASSUME TypeOK, NEW c \in 0..copies, LoseUpTo(c)
    PROVE  lost' \in 0..copies /\ (lost' = lost \/ (lost' = c /\ c > lost))
  BY DEF TypeOK, LoseUpTo

\* A step of the GX worker.
LEMMA GxKeeps ==
    ASSUME PresenterInv, GxStep
    PROVE  PresenterInv'
<1>1. /\ TypeOK /\ GpuTypes /\ CpuTypes /\ MailTypes /\ WindowTypes /\ lost \in 0..copies
      /\ LocksHold /\ XfbRight /\ MailRight /\ OutRight /\ RgbRight /\ ScreenRight
      /\ InStep /\ OneMessage /\ ClosedRight /\ Bounded /\ Unstarted
  BY TypeParts DEF PresenterInv
<1>2. Height \in Nat \ {0} /\ Rows = 1..Height /\ 1 \in Rows /\ Height \in Rows
  BY PresenterAssumption DEF Rows
<1>3. MaxCopies \in Nat /\ MaxFrames \in Nat
  BY PresenterAssumption
<1>4. CASE G_CopyBegin
  <2>1. TypeOK'
    <3>1. GpuTypes'
      BY <1>1, <1>2, <1>3, <1>4 DEF GpuTypes, G_CopyBegin, GuestStarted, gpu, cpu, mail, window
    <3>2. CpuTypes'
      BY <1>1, <1>2, <1>3, <1>4 DEF CpuTypes, GpuTypes, G_CopyBegin, GuestStarted, gpu, cpu, mail,
         window
    <3>3. MailTypes'
      BY <1>1, <1>2, <1>4 DEF MailTypes, CpuTypes, GpuTypes, Frames, OneMessage, Queued, Taken,
         Unsent, G_CopyBegin, GuestStarted, gpu, cpu, mail, window
    <3>4. WindowTypes'
      BY <1>1, <1>2, <1>4 DEF WindowTypes, MailTypes, GpuTypes, Frames, G_CopyBegin, GuestStarted,
         gpu, cpu, mail, window
    <3>5. lost' \in 0..copies'
      BY <1>1, <1>4 DEF GpuTypes, G_CopyBegin, GuestStarted, gpu, cpu, mail, window
    <3> QED BY <3>1, <3>2, <3>3, <3>4, <3>5, TypeParts DEF TypeOK, GpuTypes, CpuTypes, MailTypes,
       WindowTypes, Frames
  <2>2. LocksHold' /\ OneMessage' /\ ClosedRight' /\ Bounded' /\ Unstarted'
    BY <1>1, <1>4 DEF TypeOK, Bounded, Unstarted, LocksHold, OneMessage, ClosedRight, XfbWritten,
       XfbRead, MailWritten, MailRead, Queued, Taken, Unsent, G_CopyBegin, GuestStarted, gpu, cpu,
       mail, window
  <2>3. XfbRight' /\ MailRight'
    BY <1>1, <1>2, <1>4 DEF TypeOK, Frames, XfbRight, MailRight, LocksHold, XfbWritten, XfbRead,
       G_CopyBegin, GuestStarted, gpu, cpu, mail, window
  <2>4. OutRight' /\ RgbRight' /\ ScreenRight'
    BY <1>1, <1>2, <1>4 DEF TypeOK, Frames, OutRight, MailRight, RgbRight, ScreenRight, LocksHold,
       Unstarted, MailWritten, MailRead, G_CopyBegin, GuestStarted, gpu, cpu, mail, window
  <2>5. InStep'
    BY <1>1, <1>2, <1>4 DEF TypeOK, Frames, InStep, XfbRight, LocksHold, XfbWritten, XfbRead,
       G_CopyBegin, GuestStarted, gpu, cpu, mail, window
  <2> QED BY <2>1, <2>2, <2>3, <2>4, <2>5 DEF PresenterInv
<1>5. CASE G_CopyRow
  <2>1. /\ gpc = "copy" /\ xfb' = [xfb EXCEPT ![grow] = copies + 1]
        /\ UNCHANGED <<generation, finished, cpu, mail, window, sized, lost>>
    BY <1>5 DEF G_CopyRow
  <2>2. \/ grow = Height /\ gpc' = "decode" /\ copies' = copies + 1 /\ grow' = 1
        \/ grow # Height /\ grow' = grow + 1 /\ gpc' = "copy" /\ copies' = copies
    BY <1>5 DEF G_CopyRow
  <2>3. copies' \in 0..MaxCopies /\ copies' >= copies /\ copies \in Nat /\ grow \in Nat
    <3>1. copies \in Nat /\ grow \in Nat /\ copies < MaxCopies
      BY <1>1, <1>2, <1>3, <2>1 DEF GpuTypes, Bounded
    <3>2. copies' = copies + 1 \/ copies' = copies
      BY <2>2
    <3>3. copies + 1 \in 0..MaxCopies /\ copies \in 0..MaxCopies
      BY <1>3, <3>1
    <3> QED BY <3>1, <3>2, <3>3
  <2>4. \A r \in Rows : xfb'[r] = IF r = grow THEN copies + 1 ELSE xfb[r]
    BY <1>1, <2>1 DEF GpuTypes
  <2>5. XfbRight'
    <3>1. \A r \in Rows : r \in Nat /\ r <= Height
      BY <1>2
    <3>2. CASE grow = Height
      <4>1. gpc' = "decode" /\ copies' = copies + 1
        BY <2>2, <3>2
      <4>2. ASSUME NEW r \in Rows PROVE xfb'[r] = copies + 1
        <5>1. xfb[r] = IF r < grow THEN copies + 1 ELSE copies
          BY <1>1, <2>1 DEF XfbRight
        <5>2. r = grow \/ r < grow
          BY <1>2, <3>1, <3>2
        <5> QED BY <2>4, <5>1, <5>2
      <4> QED BY <4>1, <4>2 DEF XfbRight
    <3>3. CASE grow # Height
      <4>1. gpc' = "copy" /\ copies' = copies /\ grow' = grow + 1
        BY <2>2, <3>3
      <4>2. ASSUME NEW r \in Rows PROVE xfb'[r] = IF r < grow + 1 THEN copies + 1 ELSE copies
        <5>1. xfb[r] = IF r < grow THEN copies + 1 ELSE copies
          BY <1>1, <2>1 DEF XfbRight
        <5>2. r < grow + 1 <=> r < grow \/ r = grow
          BY <2>3, <3>1
        <5>3. ~(r < grow /\ r = grow)
          BY <2>3, <3>1
        <5> QED BY <2>4, <5>1, <5>2, <5>3
      <4> QED BY <4>1, <4>2 DEF XfbRight
    <3> QED BY <3>2, <3>3
  <2>6. GpuTypes'
    <3>1. grow' \in Rows /\ gpc' \in {"decode", "copy"}
      BY <1>1, <1>2, <2>2 DEF GpuTypes
    <3>2. xfb' \in [Rows -> 0..(copies' + 1)]
      <4>1. DOMAIN xfb' = Rows /\ xfb' = [r \in Rows |-> xfb'[r]]
        BY <1>1, <2>1 DEF GpuTypes
      <4>2. ASSUME NEW r \in Rows PROVE xfb'[r] \in {copies, copies + 1}
        <5>1. xfb[r] \in {copies, copies + 1}
          BY <1>1 DEF XfbRight
        <5> QED BY <2>4, <5>1
      <4>3. copies \in 0..(copies' + 1) /\ copies + 1 \in 0..(copies' + 1)
        <5>1. CASE copies' = copies
          BY <2>3, <5>1
        <5>2. CASE copies' = copies + 1
          BY <2>3, <5>2
        <5> QED BY <2>2, <5>1, <5>2
      <4> QED BY <4>1, <4>2, <4>3
    <3>3. generation' \in 0..MaxFrames /\ finished' \in 0..copies'
      BY <1>1, <2>1, <2>3 DEF GpuTypes
    <3> QED BY <2>3, <3>1, <3>2, <3>3 DEF GpuTypes
  <2>7. 0..copies \subseteq 0..copies'
    BY <2>2, <2>3
  <2>8. CpuTypes' /\ MailTypes' /\ WindowTypes' /\ lost' \in 0..copies'
    <3>1. [Rows -> 0..copies] \subseteq [Rows -> 0..copies']
      BY <2>7
    <3>2. CpuTypes' /\ lost' \in 0..copies'
      BY <1>1, <2>1, <2>7 DEF CpuTypes, cpu
    <3>3. MailTypes'
      BY <1>1, <2>1, <3>1 DEF MailTypes, mail
    <3>4. WindowTypes'
      BY <1>1, <2>1, <3>1 DEF WindowTypes, window
    <3> QED BY <3>2, <3>3, <3>4
  <2>9. TypeOK'
    BY <2>6, <2>8, TypeParts DEF TypeOK, GpuTypes, CpuTypes, MailTypes, WindowTypes, Frames
  <2>10. cpc # "mail"
    BY <1>1, <2>1 DEF LocksHold, XfbWritten, XfbRead
  <2>11. LocksHold' /\ OneMessage' /\ ClosedRight' /\ Bounded' /\ Unstarted'
    BY <1>1, <2>1, <2>2 DEF LocksHold, OneMessage, ClosedRight, Bounded, Unstarted, XfbWritten,
       XfbRead, MailWritten, MailRead, Queued, Taken, Unsent, cpu, mail, window
  <2>12. MailRight' /\ OutRight' /\ RgbRight' /\ ScreenRight'
    BY <1>1, <2>1, <2>10 DEF MailRight, OutRight, RgbRight, ScreenRight, cpu, mail, window
  <2>13. InStep'
    <3>1. ASSUME NEW r \in Rows, mailbox[r] <= copies PROVE mailbox[r] <= copies'
      <4>1. mailbox[r] \in Nat
        BY <1>1 DEF MailTypes
      <4> QED BY <2>2, <2>3, <3>1, <4>1
    <3> QED BY <1>1, <2>1, <3>1 DEF InStep, mail, window
  <2> QED BY <2>5, <2>9, <2>11, <2>12, <2>13 DEF PresenterInv
<1>6. CASE G_DrawDone
  <2>1. TypeOK'
    <3>1. GpuTypes'
      BY <1>1, <1>2, <1>3, <1>6 DEF GpuTypes, G_DrawDone, gpu, cpu, mail, window
    <3>2. CpuTypes'
      BY <1>1, <1>2, <1>3, <1>6 DEF CpuTypes, GpuTypes, G_DrawDone, gpu, cpu, mail, window
    <3>3. MailTypes'
      BY <1>1, <1>2, <1>6 DEF MailTypes, CpuTypes, GpuTypes, Frames, OneMessage, Queued, Taken,
         Unsent, G_DrawDone, gpu, cpu, mail, window
    <3>4. WindowTypes'
      BY <1>1, <1>2, <1>6 DEF WindowTypes, MailTypes, GpuTypes, Frames, G_DrawDone, gpu, cpu,
         mail, window
    <3>5. lost' \in 0..copies'
      BY <1>1, <1>6 DEF GpuTypes, G_DrawDone, gpu, cpu, mail, window
    <3> QED BY <3>1, <3>2, <3>3, <3>4, <3>5, TypeParts DEF TypeOK, GpuTypes, CpuTypes, MailTypes,
       WindowTypes, Frames
  <2>2. LocksHold' /\ OneMessage' /\ ClosedRight' /\ Bounded' /\ Unstarted'
    BY <1>1, <1>6 DEF TypeOK, Bounded, Unstarted, LocksHold, OneMessage, ClosedRight, XfbWritten,
       XfbRead, MailWritten, MailRead, Queued, Taken, Unsent, G_DrawDone, gpu, cpu, mail, window
  <2>3. XfbRight' /\ MailRight'
    BY <1>1, <1>2, <1>6 DEF TypeOK, Frames, XfbRight, MailRight, LocksHold, XfbWritten, XfbRead,
       G_DrawDone, gpu, cpu, mail, window
  <2>4. OutRight' /\ RgbRight' /\ ScreenRight'
    BY <1>1, <1>2, <1>6 DEF TypeOK, Frames, OutRight, MailRight, RgbRight, ScreenRight, LocksHold,
       Unstarted, MailWritten, MailRead, G_DrawDone, gpu, cpu, mail, window
  <2>5. InStep'
    BY <1>1, <1>2, <1>6 DEF TypeOK, Frames, InStep, XfbRight, LocksHold, XfbWritten, XfbRead,
       G_DrawDone, gpu, cpu, mail, window
  <2> QED BY <2>1, <2>2, <2>3, <2>4, <2>5 DEF PresenterInv
<1> QED BY <1>4, <1>5, <1>6 DEF GxStep, CpuStep, Present

\* A step of the CPU thread.
LEMMA CpuKeeps ==
    ASSUME PresenterInv, CpuStep
    PROVE  PresenterInv'
<1>1. /\ TypeOK /\ GpuTypes /\ CpuTypes /\ MailTypes /\ WindowTypes /\ lost \in 0..copies
      /\ LocksHold /\ XfbRight /\ MailRight /\ OutRight /\ RgbRight /\ ScreenRight
      /\ InStep /\ OneMessage /\ ClosedRight /\ Bounded /\ Unstarted
  BY TypeParts DEF PresenterInv
<1>2. Height \in Nat \ {0} /\ Rows = 1..Height /\ 1 \in Rows /\ Height \in Rows
  BY PresenterAssumption DEF Rows
<1>3. MaxCopies \in Nat /\ MaxFrames \in Nat
  BY PresenterAssumption
<1>4. CASE C_Start
  <2>1. TypeOK'
    <3>1. GpuTypes'
      BY <1>1, <1>2, <1>3, <1>4 DEF GpuTypes, C_Start, gpu, cpu, mail, window
    <3>2. CpuTypes'
      BY <1>1, <1>2, <1>3, <1>4 DEF CpuTypes, GpuTypes, C_Start, gpu, cpu, mail, window
    <3>3. MailTypes'
      BY <1>1, <1>2, <1>4 DEF MailTypes, CpuTypes, GpuTypes, Frames, OneMessage, Queued, Taken,
         Unsent, C_Start, gpu, cpu, mail, window
    <3>4. WindowTypes'
      BY <1>1, <1>2, <1>4 DEF WindowTypes, MailTypes, GpuTypes, Frames, C_Start, gpu, cpu, mail,
         window
    <3>5. lost' \in 0..copies'
      BY <1>1, <1>4 DEF GpuTypes, C_Start, gpu, cpu, mail, window
    <3> QED BY <3>1, <3>2, <3>3, <3>4, <3>5, TypeParts DEF TypeOK, GpuTypes, CpuTypes, MailTypes,
       WindowTypes, Frames
  <2>2. LocksHold' /\ OneMessage' /\ ClosedRight' /\ Bounded' /\ Unstarted'
    BY <1>1, <1>4 DEF TypeOK, Bounded, Unstarted, LocksHold, OneMessage, ClosedRight, XfbWritten,
       XfbRead, MailWritten, MailRead, Queued, Taken, Unsent, C_Start, gpu, cpu, mail, window
  <2>3. XfbRight' /\ MailRight'
    BY <1>1, <1>2, <1>4 DEF TypeOK, Frames, XfbRight, MailRight, LocksHold, XfbWritten, XfbRead,
       C_Start, gpu, cpu, mail, window
  <2>4. OutRight' /\ RgbRight' /\ ScreenRight'
    BY <1>1, <1>2, <1>4 DEF TypeOK, Frames, OutRight, MailRight, RgbRight, ScreenRight, LocksHold,
       Unstarted, MailWritten, MailRead, C_Start, gpu, cpu, mail, window
  <2>5. InStep'
    BY <1>1, <1>2, <1>4 DEF TypeOK, Frames, InStep, XfbRight, LocksHold, XfbWritten, XfbRead,
       C_Start, gpu, cpu, mail, window
  <2> QED BY <2>1, <2>2, <2>3, <2>4, <2>5 DEF PresenterInv
<1>5. CASE C_Started
  <2>1. TypeOK'
    <3>1. GpuTypes'
      BY <1>1, <1>2, <1>3, <1>5 DEF GpuTypes, C_Started, gpu, cpu, mail, window
    <3>2. CpuTypes'
      BY <1>1, <1>2, <1>3, <1>5 DEF CpuTypes, GpuTypes, C_Started, gpu, cpu, mail, window
    <3>3. MailTypes'
      BY <1>1, <1>2, <1>5 DEF MailTypes, CpuTypes, GpuTypes, Frames, OneMessage, Queued, Taken,
         Unsent, C_Started, gpu, cpu, mail, window
    <3>4. WindowTypes'
      BY <1>1, <1>2, <1>5 DEF WindowTypes, MailTypes, GpuTypes, Frames, C_Started, gpu, cpu, mail,
         window
    <3>5. lost' \in 0..copies'
      BY <1>1, <1>5 DEF GpuTypes, C_Started, gpu, cpu, mail, window
    <3> QED BY <3>1, <3>2, <3>3, <3>4, <3>5, TypeParts DEF TypeOK, GpuTypes, CpuTypes, MailTypes,
       WindowTypes, Frames
  <2>2. LocksHold' /\ OneMessage' /\ ClosedRight' /\ Bounded' /\ Unstarted'
    BY <1>1, <1>5 DEF TypeOK, Bounded, Unstarted, LocksHold, OneMessage, ClosedRight, XfbWritten,
       XfbRead, MailWritten, MailRead, Queued, Taken, Unsent, C_Started, gpu, cpu, mail, window
  <2>3. XfbRight' /\ MailRight'
    BY <1>1, <1>2, <1>5 DEF TypeOK, Frames, XfbRight, MailRight, LocksHold, XfbWritten, XfbRead,
       C_Started, gpu, cpu, mail, window
  <2>4. OutRight' /\ RgbRight' /\ ScreenRight'
    BY <1>1, <1>2, <1>5 DEF TypeOK, Frames, OutRight, MailRight, RgbRight, ScreenRight, LocksHold,
       Unstarted, MailWritten, MailRead, C_Started, gpu, cpu, mail, window
  <2>5. InStep'
    BY <1>1, <1>2, <1>5 DEF TypeOK, Frames, InStep, XfbRight, LocksHold, XfbWritten, XfbRead,
       C_Started, gpu, cpu, mail, window
  <2> QED BY <2>1, <2>2, <2>3, <2>4, <2>5 DEF PresenterInv
<1>6. CASE C_FieldBoundary
  <2>1. TypeOK'
    <3>1. GpuTypes'
      BY <1>1, <1>2, <1>3, <1>6 DEF GpuTypes, C_FieldBoundary, gpu, cpu, mail, window
    <3>2. CpuTypes'
      BY <1>1, <1>2, <1>3, <1>6 DEF CpuTypes, GpuTypes, C_FieldBoundary, gpu, cpu, mail, window
    <3>3. MailTypes'
      BY <1>1, <1>2, <1>6 DEF MailTypes, CpuTypes, GpuTypes, Frames, OneMessage, Queued, Taken,
         Unsent, C_FieldBoundary, gpu, cpu, mail, window
    <3>4. WindowTypes'
      BY <1>1, <1>2, <1>6 DEF WindowTypes, MailTypes, GpuTypes, Frames, C_FieldBoundary, gpu, cpu,
         mail, window
    <3>5. lost' \in 0..copies'
      BY <1>1, <1>6 DEF GpuTypes, C_FieldBoundary, gpu, cpu, mail, window
    <3> QED BY <3>1, <3>2, <3>3, <3>4, <3>5, TypeParts DEF TypeOK, GpuTypes, CpuTypes, MailTypes,
       WindowTypes, Frames
  <2>2. LocksHold' /\ OneMessage' /\ ClosedRight' /\ Bounded' /\ Unstarted'
    BY <1>1, <1>6 DEF TypeOK, Bounded, Unstarted, LocksHold, OneMessage, ClosedRight, XfbWritten,
       XfbRead, MailWritten, MailRead, Queued, Taken, Unsent, C_FieldBoundary, gpu, cpu, mail,
       window
  <2>3. XfbRight' /\ MailRight'
    BY <1>1, <1>2, <1>6 DEF TypeOK, Frames, XfbRight, MailRight, LocksHold, XfbWritten, XfbRead,
       C_FieldBoundary, gpu, cpu, mail, window
  <2>4. OutRight' /\ RgbRight' /\ ScreenRight'
    BY <1>1, <1>2, <1>6 DEF TypeOK, Frames, OutRight, MailRight, RgbRight, ScreenRight, LocksHold,
       Unstarted, MailWritten, MailRead, C_FieldBoundary, gpu, cpu, mail, window
  <2>5. InStep'
    BY <1>1, <1>2, <1>6 DEF TypeOK, Frames, InStep, XfbRight, LocksHold, XfbWritten, XfbRead,
       C_FieldBoundary, gpu, cpu, mail, window
  <2> QED BY <2>1, <2>2, <2>3, <2>4, <2>5 DEF PresenterInv
<1>7. CASE C_Look
  <2>8. gpc # "copy" /\ xfb[1] = copies /\ copies \in 0..copies
    <3>1. gpc # "copy"
      BY <1>1, <1>7 DEF LocksHold, XfbWritten, XfbRead, C_Look, C_LockMail
    <3>2. copies \in Nat
      BY <1>1, <1>3 DEF GpuTypes
    <3> QED BY <1>1, <1>2, <3>1, <3>2 DEF XfbRight
  <2>9. lost' \in 0..copies
    <3>1. lost' = lost \/ LoseUpTo(copies)
      BY <1>7, <2>8 DEF C_Look, C_LockMail
    <3> QED BY <1>1, <2>8, <3>1, LostRight
  <2>1. TypeOK'
    <3>1. GpuTypes'
      BY <1>1, <1>2, <1>3, <1>7 DEF GpuTypes, C_Look, gpu, cpu, mail, window
    <3>2. CpuTypes'
      <4>1. /\ generation \in 0..generation /\ generation' = generation /\ gen' = generation
            /\ presented' = presented \/ presented' = generation
            /\ cpc' = "run" \/ cpc' = "lockmail"
            /\ crow' = crow
        <5>1. generation \in 0..generation
          BY <1>1, <1>3 DEF GpuTypes
        <5>2. generation' = generation /\ gen' = generation /\ crow' = crow
          BY <1>7 DEF C_Look, gpu
        <5>3. CASE generation = presented
          BY <1>7, <5>1, <5>2, <5>3 DEF C_Look
        <5>4. CASE generation # presented /\ hwnd
          BY <1>7, <5>1, <5>2, <5>4 DEF C_Look
        <5>5. CASE generation # presented /\ ~hwnd
          BY <1>7, <5>1, <5>2, <5>5 DEF C_Look
        <5> QED BY <1>1, <5>3, <5>4, <5>5 DEF WindowTypes
      <4> QED BY <1>1, <4>1 DEF CpuTypes
    <3>3. MailTypes'
      BY <1>1, <1>2, <1>7 DEF MailTypes, CpuTypes, GpuTypes, Frames, OneMessage, Queued, Taken,
         Unsent, C_Look, gpu, cpu, mail, window
    <3>4. WindowTypes'
      BY <1>1, <1>2, <1>7 DEF WindowTypes, MailTypes, GpuTypes, Frames, C_Look, gpu, cpu, mail,
         window
    <3>5. lost' \in 0..copies'
      BY <1>1, <1>7, <2>9 DEF GpuTypes, C_Look, gpu, cpu, mail, window
    <3> QED BY <3>1, <3>2, <3>3, <3>4, <3>5, TypeParts DEF TypeOK, GpuTypes, CpuTypes, MailTypes,
       WindowTypes, Frames
  <2>2. LocksHold' /\ OneMessage' /\ ClosedRight' /\ Bounded' /\ Unstarted'
    BY <1>1, <1>7 DEF TypeOK, Bounded, Unstarted, LocksHold, OneMessage, ClosedRight, XfbWritten,
       XfbRead, MailWritten, MailRead, Queued, Taken, Unsent, C_Look, gpu, cpu, mail, window
  <2>3. XfbRight' /\ MailRight'
    BY <1>1, <1>2, <1>7 DEF TypeOK, Frames, XfbRight, MailRight, LocksHold, XfbWritten, XfbRead,
       C_Look, gpu, cpu, mail, window
  <2>4. OutRight' /\ RgbRight' /\ ScreenRight'
    BY <1>1, <1>2, <1>7 DEF TypeOK, Frames, OutRight, MailRight, RgbRight, ScreenRight, LocksHold,
       Unstarted, MailWritten, MailRead, C_Look, gpu, cpu, mail, window
  <2>5. InStep'
    BY <1>1, <1>2, <1>7 DEF TypeOK, Frames, InStep, XfbRight, LocksHold, XfbWritten, XfbRead,
       C_Look, gpu, cpu, mail, window
  <2> QED BY <2>1, <2>2, <2>3, <2>4, <2>5 DEF PresenterInv
<1>8. CASE C_LockMail
  <2>8. gpc # "copy" /\ xfb[1] = copies /\ copies \in 0..copies
    <3>1. gpc # "copy"
      BY <1>1, <1>8 DEF LocksHold, XfbWritten, XfbRead, C_Look, C_LockMail
    <3>2. copies \in Nat
      BY <1>1, <1>3 DEF GpuTypes
    <3> QED BY <1>1, <1>2, <3>1, <3>2 DEF XfbRight
  <2>9. lost' \in 0..copies
    <3>1. lost' = lost \/ LoseUpTo(copies)
      BY <1>8, <2>8 DEF C_Look, C_LockMail
    <3> QED BY <1>1, <2>8, <3>1, LostRight
  <2>1. TypeOK'
    <3>1. GpuTypes'
      BY <1>1, <1>2, <1>3, <1>8 DEF GpuTypes, C_LockMail, PresentReturns, gpu, cpu, mail, window
    <3>2. CpuTypes'
      BY <1>1, <1>2, <1>3, <1>8 DEF CpuTypes, GpuTypes, C_LockMail, PresentReturns, gpu, cpu,
         mail, window
    <3>3. MailTypes'
      BY <1>1, <1>2, <1>8 DEF MailTypes, CpuTypes, GpuTypes, Frames, OneMessage, Queued, Taken,
         Unsent, C_LockMail, PresentReturns, gpu, cpu, mail, window
    <3>4. WindowTypes'
      BY <1>1, <1>2, <1>8 DEF WindowTypes, MailTypes, GpuTypes, Frames, C_LockMail,
         PresentReturns, gpu, cpu, mail, window
    <3>5. lost' \in 0..copies'
      BY <1>1, <1>8, <2>9 DEF GpuTypes, C_LockMail, PresentReturns, gpu, cpu, mail, window
    <3> QED BY <3>1, <3>2, <3>3, <3>4, <3>5, TypeParts DEF TypeOK, GpuTypes, CpuTypes, MailTypes,
       WindowTypes, Frames
  <2>2. LocksHold' /\ OneMessage' /\ ClosedRight' /\ Bounded' /\ Unstarted'
    BY <1>1, <1>8 DEF TypeOK, Bounded, Unstarted, LocksHold, OneMessage, ClosedRight, XfbWritten,
       XfbRead, MailWritten, MailRead, Queued, Taken, Unsent, C_LockMail, PresentReturns, gpu,
       cpu, mail, window
  <2>3. XfbRight' /\ MailRight'
    BY <1>1, <1>2, <1>8 DEF TypeOK, Frames, XfbRight, MailRight, LocksHold, XfbWritten, XfbRead,
       C_LockMail, PresentReturns, gpu, cpu, mail, window
  <2>4. OutRight' /\ RgbRight' /\ ScreenRight'
    BY <1>1, <1>2, <1>8 DEF TypeOK, Frames, OutRight, MailRight, RgbRight, ScreenRight, LocksHold,
       Unstarted, MailWritten, MailRead, C_LockMail, PresentReturns, gpu, cpu, mail, window
  <2>5. InStep'
    BY <1>1, <1>2, <1>8 DEF TypeOK, Frames, InStep, XfbRight, LocksHold, XfbWritten, XfbRead,
       C_LockMail, PresentReturns, gpu, cpu, mail, window
  <2> QED BY <2>1, <2>2, <2>3, <2>4, <2>5 DEF PresenterInv
<1>9. CASE C_MailRow
  <2>1. /\ cpc = "mail" /\ mailbox' = [mailbox EXCEPT ![crow] = xfb[crow]]
        /\ UNCHANGED <<gpu, gen, presented, posted, messages, window, sized, lost>>
    BY <1>9 DEF C_MailRow
  <2>2. \/ crow = Height /\ cpc' = "post" /\ crow' = 1
        \/ crow # Height /\ crow' = crow + 1 /\ cpc' = "mail"
    BY <1>9, <2>1 DEF C_MailRow
  <2>3. gpc # "copy" /\ wpc # "copyout"
    BY <1>1, <2>1 DEF LocksHold, XfbWritten, XfbRead, MailWritten, MailRead
  <2>4. xfb[crow] = copies /\ copies \in Nat /\ copies \in 0..copies /\ crow \in Rows
    <3>1. crow \in Rows /\ copies \in Nat
      BY <1>1, <1>3 DEF GpuTypes, CpuTypes
    <3>2. xfb[crow] = copies
      BY <1>1, <2>3, <3>1 DEF XfbRight
    <3>3. copies \in 0..copies
      BY <3>1
    <3> QED BY <3>1, <3>2, <3>3
  <2>5. \A r \in Rows : mailbox'[r] = IF r = crow THEN copies ELSE mailbox[r]
    BY <1>1, <2>1, <2>4 DEF MailTypes
  <2>6. /\ mailbox' \in [Rows -> 0..copies] /\ crow' \in Rows
        /\ cpc' \in {"post", "mail"}
    <3>1. crow' \in Rows
      BY <1>2, <2>2, <2>4
    <3> QED BY <1>1, <2>1, <2>2, <2>4, <3>1 DEF MailTypes
  <2>7. TypeOK'
    <3>1. GpuTypes' /\ WindowTypes' /\ lost' \in 0..copies'
      BY <1>1, <2>1 DEF GpuTypes, WindowTypes, gpu, window
    <3>2. CpuTypes'
      BY <1>1, <2>1, <2>6 DEF CpuTypes, gpu
    <3>3. MailTypes'
      BY <1>1, <2>1, <2>6 DEF MailTypes, gpu
    <3> QED BY <3>1, <3>2, <3>3, TypeParts DEF TypeOK, GpuTypes, CpuTypes, MailTypes, WindowTypes,
       Frames
  <2>8. LocksHold' /\ OneMessage' /\ ClosedRight' /\ Bounded' /\ Unstarted'
    BY <1>1, <2>1, <2>2, <2>3 DEF LocksHold, OneMessage, ClosedRight, Bounded, Unstarted,
       XfbWritten, XfbRead, MailWritten, MailRead, Queued, Taken, Unsent, gpu, window
  <2>9. XfbRight'
    BY <1>1, <2>1 DEF XfbRight, gpu
  <2>10. MailRight'
    <3>1. \A r \in Rows : r \in Nat /\ r <= Height
      BY <1>2
    <3>2. ASSUME NEW r \in Rows
          PROVE  mailbox[r] = IF r < crow THEN copies ELSE mailbox[Height]
      BY <1>1, <2>1 DEF MailRight
    <3>3. CASE crow = Height
      <4>1. cpc' # "mail" /\ mailbox'[Height] = copies
        BY <1>2, <2>2, <2>5, <3>3
      <4>2. ASSUME NEW r \in Rows PROVE mailbox'[r] = copies
        <5>1. r = crow \/ r < crow
          BY <1>2, <3>1, <3>3
        <5> QED BY <2>5, <3>2, <5>1
      <4> QED BY <4>1, <4>2 DEF MailRight
    <3>4. CASE crow # Height
      <4>1. /\ cpc' = "mail" /\ crow' = crow + 1 /\ mailbox'[Height] = mailbox[Height]
            /\ copies' = copies
        BY <1>2, <2>1, <2>2, <2>5, <3>4 DEF gpu
      <4>2. ASSUME NEW r \in Rows
            PROVE  mailbox'[r] = IF r < crow + 1 THEN copies ELSE mailbox[Height]
        <5>1. (r < crow + 1 <=> r < crow \/ r = crow) /\ crow \in Nat
          BY <1>2, <2>4, <3>1
        <5> QED BY <2>5, <3>1, <3>2, <5>1
      <4> QED BY <4>1, <4>2 DEF MailRight
    <3> QED BY <3>3, <3>4
  <2>11. OutRight' /\ RgbRight' /\ ScreenRight'
    BY <1>1, <2>1, <2>3 DEF OutRight, RgbRight, ScreenRight, window
  <2>12. InStep'
    <3> SUFFICES ASSUME NEW r \in Rows
                 PROVE  /\ screen[r] <= rgb[r] /\ rgb[r] <= scratch[r]
                        /\ scratch[r] <= mailbox'[r] /\ mailbox'[r] <= copies
      BY <2>1 DEF InStep, window, gpu
    <3>1. /\ screen[r] <= rgb[r] /\ rgb[r] <= scratch[r] /\ scratch[r] <= mailbox[r]
          /\ mailbox[r] <= copies
      BY <1>1 DEF InStep
    <3>2. scratch[r] \in Nat /\ mailbox[r] \in Nat
      BY <1>1 DEF MailTypes, WindowTypes
    <3> QED BY <2>4, <2>5, <3>1, <3>2
  <2> QED BY <2>7, <2>8, <2>9, <2>10, <2>11, <2>12 DEF PresenterInv
<1>10. CASE C_Post
  <2>1. TypeOK'
    <3>1. GpuTypes'
      BY <1>1, <1>2, <1>3, <1>10 DEF GpuTypes, C_Post, PresentReturns, gpu, cpu, mail, window
    <3>2. CpuTypes'
      BY <1>1, <1>2, <1>3, <1>10 DEF CpuTypes, GpuTypes, C_Post, PresentReturns, gpu, cpu, mail,
         window
    <3>3. MailTypes'
      BY <1>1, <1>2, <1>10 DEF MailTypes, CpuTypes, GpuTypes, Frames, OneMessage, Queued, Taken,
         Unsent, C_Post, PresentReturns, gpu, cpu, mail, window
    <3>4. WindowTypes'
      BY <1>1, <1>2, <1>10 DEF WindowTypes, MailTypes, GpuTypes, Frames, C_Post, PresentReturns,
         gpu, cpu, mail, window
    <3>5. lost' \in 0..copies'
      BY <1>1, <1>10 DEF GpuTypes, C_Post, PresentReturns, gpu, cpu, mail, window
    <3> QED BY <3>1, <3>2, <3>3, <3>4, <3>5, TypeParts DEF TypeOK, GpuTypes, CpuTypes, MailTypes,
       WindowTypes, Frames
  <2>2. LocksHold' /\ OneMessage' /\ ClosedRight' /\ Bounded' /\ Unstarted'
    BY <1>1, <1>10 DEF TypeOK, Bounded, Unstarted, LocksHold, OneMessage, ClosedRight, XfbWritten,
       XfbRead, MailWritten, MailRead, Queued, Taken, Unsent, C_Post, PresentReturns, gpu, cpu,
       mail, window
  <2>3. XfbRight' /\ MailRight'
    BY <1>1, <1>2, <1>10 DEF TypeOK, Frames, XfbRight, MailRight, LocksHold, XfbWritten, XfbRead,
       C_Post, PresentReturns, gpu, cpu, mail, window
  <2>4. OutRight' /\ RgbRight' /\ ScreenRight'
    BY <1>1, <1>2, <1>10 DEF TypeOK, Frames, OutRight, MailRight, RgbRight, ScreenRight,
       LocksHold, Unstarted, MailWritten, MailRead, C_Post, PresentReturns, gpu, cpu, mail, window
  <2>5. InStep'
    BY <1>1, <1>2, <1>10 DEF TypeOK, Frames, InStep, XfbRight, LocksHold, XfbWritten, XfbRead,
       C_Post, PresentReturns, gpu, cpu, mail, window
  <2> QED BY <2>1, <2>2, <2>3, <2>4, <2>5 DEF PresenterInv
<1>11. CASE C_Send
  <2>1. TypeOK'
    <3>1. GpuTypes'
      BY <1>1, <1>2, <1>3, <1>11 DEF GpuTypes, C_Send, PresentReturns, gpu, cpu, mail, window
    <3>2. CpuTypes'
      BY <1>1, <1>2, <1>3, <1>11 DEF CpuTypes, GpuTypes, C_Send, PresentReturns, gpu, cpu, mail,
         window
    <3>3. MailTypes'
      BY <1>1, <1>2, <1>11 DEF MailTypes, CpuTypes, GpuTypes, Frames, OneMessage, Queued, Taken,
         Unsent, C_Send, PresentReturns, gpu, cpu, mail, window
    <3>4. WindowTypes'
      BY <1>1, <1>2, <1>11 DEF WindowTypes, MailTypes, GpuTypes, Frames, C_Send, PresentReturns,
         gpu, cpu, mail, window
    <3>5. lost' \in 0..copies'
      BY <1>1, <1>11 DEF GpuTypes, C_Send, PresentReturns, gpu, cpu, mail, window
    <3> QED BY <3>1, <3>2, <3>3, <3>4, <3>5, TypeParts DEF TypeOK, GpuTypes, CpuTypes, MailTypes,
       WindowTypes, Frames
  <2>2. LocksHold' /\ OneMessage' /\ ClosedRight' /\ Bounded' /\ Unstarted'
    BY <1>1, <1>11 DEF TypeOK, Bounded, Unstarted, LocksHold, OneMessage, ClosedRight, XfbWritten,
       XfbRead, MailWritten, MailRead, Queued, Taken, Unsent, C_Send, PresentReturns, gpu, cpu,
       mail, window
  <2>3. XfbRight' /\ MailRight'
    BY <1>1, <1>2, <1>11 DEF TypeOK, Frames, XfbRight, MailRight, LocksHold, XfbWritten, XfbRead,
       C_Send, PresentReturns, gpu, cpu, mail, window
  <2>4. OutRight' /\ RgbRight' /\ ScreenRight'
    BY <1>1, <1>2, <1>11 DEF TypeOK, Frames, OutRight, MailRight, RgbRight, ScreenRight,
       LocksHold, Unstarted, MailWritten, MailRead, C_Send, PresentReturns, gpu, cpu, mail, window
  <2>5. InStep'
    BY <1>1, <1>2, <1>11 DEF TypeOK, Frames, InStep, XfbRight, LocksHold, XfbWritten, XfbRead,
       C_Send, PresentReturns, gpu, cpu, mail, window
  <2> QED BY <2>1, <2>2, <2>3, <2>4, <2>5 DEF PresenterInv
<1>12. CASE C_Unpost
  <2>9. lost' \in 0..copies
    <3>1. mailbox[1] \in 0..copies /\ scratch[1] \in 0..copies
      BY <1>1, <1>2 DEF MailTypes, WindowTypes
    <3>2. lost' = lost \/ LoseUpTo(mailbox[1]) \/ LoseUpTo(scratch[1])
      BY <1>12 DEF C_Unpost, W_LockOut, W_Draw
    <3> QED BY <1>1, <3>1, <3>2, LostRight
  <2>1. TypeOK'
    <3>1. GpuTypes'
      BY <1>1, <1>2, <1>3, <1>12 DEF GpuTypes, C_Unpost, PresentReturns, gpu, cpu, mail, window
    <3>2. CpuTypes'
      BY <1>1, <1>2, <1>3, <1>12 DEF CpuTypes, GpuTypes, C_Unpost, PresentReturns, gpu, cpu, mail,
         window
    <3>3. MailTypes'
      BY <1>1, <1>2, <1>12 DEF MailTypes, CpuTypes, GpuTypes, Frames, OneMessage, Queued, Taken,
         Unsent, C_Unpost, PresentReturns, gpu, cpu, mail, window
    <3>4. WindowTypes'
      BY <1>1, <1>2, <1>12 DEF WindowTypes, MailTypes, GpuTypes, Frames, C_Unpost, PresentReturns,
         gpu, cpu, mail, window
    <3>5. lost' \in 0..copies'
      BY <1>1, <1>12, <2>9 DEF GpuTypes, C_Unpost, PresentReturns, gpu, cpu, mail, window
    <3> QED BY <3>1, <3>2, <3>3, <3>4, <3>5, TypeParts DEF TypeOK, GpuTypes, CpuTypes, MailTypes,
       WindowTypes, Frames
  <2>2. LocksHold' /\ OneMessage' /\ ClosedRight' /\ Bounded' /\ Unstarted'
    BY <1>1, <1>12 DEF TypeOK, Bounded, Unstarted, LocksHold, OneMessage, ClosedRight, XfbWritten,
       XfbRead, MailWritten, MailRead, Queued, Taken, Unsent, C_Unpost, PresentReturns, gpu, cpu,
       mail, window
  <2>3. XfbRight' /\ MailRight'
    BY <1>1, <1>2, <1>12 DEF TypeOK, Frames, XfbRight, MailRight, LocksHold, XfbWritten, XfbRead,
       C_Unpost, PresentReturns, gpu, cpu, mail, window
  <2>4. OutRight' /\ RgbRight' /\ ScreenRight'
    BY <1>1, <1>2, <1>12 DEF TypeOK, Frames, OutRight, MailRight, RgbRight, ScreenRight,
       LocksHold, Unstarted, MailWritten, MailRead, C_Unpost, PresentReturns, gpu, cpu, mail,
       window
  <2>5. InStep'
    BY <1>1, <1>2, <1>12 DEF TypeOK, Frames, InStep, XfbRight, LocksHold, XfbWritten, XfbRead,
       C_Unpost, PresentReturns, gpu, cpu, mail, window
  <2> QED BY <2>1, <2>2, <2>3, <2>4, <2>5 DEF PresenterInv
<1>13. CASE C_Quit
  <2>1. TypeOK'
    <3>1. GpuTypes'
      BY <1>1, <1>2, <1>3, <1>13 DEF GpuTypes, C_Quit, gpu, cpu, mail, window
    <3>2. CpuTypes'
      BY <1>1, <1>2, <1>3, <1>13 DEF CpuTypes, GpuTypes, C_Quit, gpu, cpu, mail, window
    <3>3. MailTypes'
      BY <1>1, <1>2, <1>13 DEF MailTypes, CpuTypes, GpuTypes, Frames, OneMessage, Queued, Taken,
         Unsent, C_Quit, gpu, cpu, mail, window
    <3>4. WindowTypes'
      BY <1>1, <1>2, <1>13 DEF WindowTypes, MailTypes, GpuTypes, Frames, C_Quit, gpu, cpu, mail,
         window
    <3>5. lost' \in 0..copies'
      BY <1>1, <1>13 DEF GpuTypes, C_Quit, gpu, cpu, mail, window
    <3> QED BY <3>1, <3>2, <3>3, <3>4, <3>5, TypeParts DEF TypeOK, GpuTypes, CpuTypes, MailTypes,
       WindowTypes, Frames
  <2>2. LocksHold' /\ OneMessage' /\ ClosedRight' /\ Bounded' /\ Unstarted'
    BY <1>1, <1>13 DEF TypeOK, Bounded, Unstarted, LocksHold, OneMessage, ClosedRight, XfbWritten,
       XfbRead, MailWritten, MailRead, Queued, Taken, Unsent, C_Quit, gpu, cpu, mail, window
  <2>3. XfbRight' /\ MailRight'
    BY <1>1, <1>2, <1>13 DEF TypeOK, Frames, XfbRight, MailRight, LocksHold, XfbWritten, XfbRead,
       C_Quit, gpu, cpu, mail, window
  <2>4. OutRight' /\ RgbRight' /\ ScreenRight'
    BY <1>1, <1>2, <1>13 DEF TypeOK, Frames, OutRight, MailRight, RgbRight, ScreenRight,
       LocksHold, Unstarted, MailWritten, MailRead, C_Quit, gpu, cpu, mail, window
  <2>5. InStep'
    BY <1>1, <1>2, <1>13 DEF TypeOK, Frames, InStep, XfbRight, LocksHold, XfbWritten, XfbRead,
       C_Quit, gpu, cpu, mail, window
  <2> QED BY <2>1, <2>2, <2>3, <2>4, <2>5 DEF PresenterInv
<1> QED BY <1>4, <1>5, <1>6, <1>7, <1>8, <1>9, <1>10, <1>11, <1>12, <1>13 DEF GxStep, CpuStep,
   Present

\* A step of the window thread.
LEMMA WindowKeeps ==
    ASSUME PresenterInv, Present \/ W_Close
    PROVE  PresenterInv'
<1>1. /\ TypeOK /\ GpuTypes /\ CpuTypes /\ MailTypes /\ WindowTypes /\ lost \in 0..copies
      /\ LocksHold /\ XfbRight /\ MailRight /\ OutRight /\ RgbRight /\ ScreenRight
      /\ InStep /\ OneMessage /\ ClosedRight /\ Bounded /\ Unstarted
  BY TypeParts DEF PresenterInv
<1>2. Height \in Nat \ {0} /\ Rows = 1..Height /\ 1 \in Rows /\ Height \in Rows
  BY PresenterAssumption DEF Rows
<1>3. MaxCopies \in Nat /\ MaxFrames \in Nat
  BY PresenterAssumption
<1>4. CASE W_Create
  <2>1. TypeOK'
    <3>1. GpuTypes'
      BY <1>1, <1>2, <1>3, <1>4 DEF GpuTypes, W_Create, gpu, cpu, mail, window
    <3>2. CpuTypes'
      BY <1>1, <1>2, <1>3, <1>4 DEF CpuTypes, GpuTypes, W_Create, gpu, cpu, mail, window
    <3>3. MailTypes'
      BY <1>1, <1>2, <1>4 DEF MailTypes, CpuTypes, GpuTypes, Frames, OneMessage, Queued, Taken,
         Unsent, W_Create, gpu, cpu, mail, window
    <3>4. WindowTypes'
      BY <1>1, <1>2, <1>4 DEF WindowTypes, MailTypes, GpuTypes, Frames, W_Create, gpu, cpu, mail,
         window
    <3>5. lost' \in 0..copies'
      BY <1>1, <1>4 DEF GpuTypes, W_Create, gpu, cpu, mail, window
    <3> QED BY <3>1, <3>2, <3>3, <3>4, <3>5, TypeParts DEF TypeOK, GpuTypes, CpuTypes, MailTypes,
       WindowTypes, Frames
  <2>2. LocksHold' /\ OneMessage' /\ ClosedRight' /\ Bounded' /\ Unstarted'
    BY <1>1, <1>4 DEF TypeOK, Bounded, Unstarted, LocksHold, OneMessage, ClosedRight, XfbWritten,
       XfbRead, MailWritten, MailRead, Queued, Taken, Unsent, W_Create, gpu, cpu, mail, window
  <2>3. XfbRight' /\ MailRight'
    BY <1>1, <1>2, <1>4 DEF TypeOK, Frames, XfbRight, MailRight, LocksHold, XfbWritten, XfbRead,
       W_Create, gpu, cpu, mail, window
  <2>4. OutRight' /\ RgbRight' /\ ScreenRight'
    BY <1>1, <1>2, <1>4 DEF TypeOK, Frames, OutRight, MailRight, RgbRight, ScreenRight, LocksHold,
       Unstarted, MailWritten, MailRead, W_Create, gpu, cpu, mail, window
  <2>5. InStep'
    BY <1>1, <1>2, <1>4 DEF TypeOK, Frames, InStep, XfbRight, LocksHold, XfbWritten, XfbRead,
       W_Create, gpu, cpu, mail, window
  <2> QED BY <2>1, <2>2, <2>3, <2>4, <2>5 DEF PresenterInv
<1>5. CASE W_GlInit
  <2>1. TypeOK'
    <3>1. GpuTypes'
      BY <1>1, <1>2, <1>3, <1>5 DEF GpuTypes, W_GlInit, gpu, cpu, mail, window
    <3>2. CpuTypes'
      BY <1>1, <1>2, <1>3, <1>5 DEF CpuTypes, GpuTypes, W_GlInit, gpu, cpu, mail, window
    <3>3. MailTypes'
      BY <1>1, <1>2, <1>5 DEF MailTypes, CpuTypes, GpuTypes, Frames, OneMessage, Queued, Taken,
         Unsent, W_GlInit, gpu, cpu, mail, window
    <3>4. WindowTypes'
      BY <1>1, <1>2, <1>5 DEF WindowTypes, MailTypes, GpuTypes, Frames, W_GlInit, gpu, cpu, mail,
         window
    <3>5. lost' \in 0..copies'
      BY <1>1, <1>5 DEF GpuTypes, W_GlInit, gpu, cpu, mail, window
    <3> QED BY <3>1, <3>2, <3>3, <3>4, <3>5, TypeParts DEF TypeOK, GpuTypes, CpuTypes, MailTypes,
       WindowTypes, Frames
  <2>2. LocksHold' /\ OneMessage' /\ ClosedRight' /\ Bounded' /\ Unstarted'
    BY <1>1, <1>5 DEF TypeOK, Bounded, Unstarted, LocksHold, OneMessage, ClosedRight, XfbWritten,
       XfbRead, MailWritten, MailRead, Queued, Taken, Unsent, W_GlInit, gpu, cpu, mail, window
  <2>3. XfbRight' /\ MailRight'
    BY <1>1, <1>2, <1>5 DEF TypeOK, Frames, XfbRight, MailRight, LocksHold, XfbWritten, XfbRead,
       W_GlInit, gpu, cpu, mail, window
  <2>4. OutRight' /\ RgbRight' /\ ScreenRight'
    BY <1>1, <1>2, <1>5 DEF TypeOK, Frames, OutRight, MailRight, RgbRight, ScreenRight, LocksHold,
       Unstarted, MailWritten, MailRead, W_GlInit, gpu, cpu, mail, window
  <2>5. InStep'
    BY <1>1, <1>2, <1>5 DEF TypeOK, Frames, InStep, XfbRight, LocksHold, XfbWritten, XfbRead,
       W_GlInit, gpu, cpu, mail, window
  <2> QED BY <2>1, <2>2, <2>3, <2>4, <2>5 DEF PresenterInv
<1>6. CASE W_Take
  <2>1. TypeOK'
    <3>1. GpuTypes'
      BY <1>1, <1>2, <1>3, <1>6 DEF GpuTypes, W_Take, gpu, cpu, mail, window
    <3>2. CpuTypes'
      BY <1>1, <1>2, <1>3, <1>6 DEF CpuTypes, GpuTypes, W_Take, gpu, cpu, mail, window
    <3>3. MailTypes'
      BY <1>1, <1>2, <1>6 DEF MailTypes, CpuTypes, GpuTypes, Frames, OneMessage, Queued, Taken,
         Unsent, W_Take, gpu, cpu, mail, window
    <3>4. WindowTypes'
      BY <1>1, <1>2, <1>6 DEF WindowTypes, MailTypes, GpuTypes, Frames, W_Take, gpu, cpu, mail,
         window
    <3>5. lost' \in 0..copies'
      BY <1>1, <1>6 DEF GpuTypes, W_Take, gpu, cpu, mail, window
    <3> QED BY <3>1, <3>2, <3>3, <3>4, <3>5, TypeParts DEF TypeOK, GpuTypes, CpuTypes, MailTypes,
       WindowTypes, Frames
  <2>2. LocksHold' /\ OneMessage' /\ ClosedRight' /\ Bounded' /\ Unstarted'
    BY <1>1, <1>6 DEF TypeOK, Bounded, Unstarted, LocksHold, OneMessage, ClosedRight, XfbWritten,
       XfbRead, MailWritten, MailRead, Queued, Taken, Unsent, W_Take, gpu, cpu, mail, window
  <2>3. XfbRight' /\ MailRight'
    BY <1>1, <1>2, <1>6 DEF TypeOK, Frames, XfbRight, MailRight, LocksHold, XfbWritten, XfbRead,
       W_Take, gpu, cpu, mail, window
  <2>4. OutRight' /\ RgbRight' /\ ScreenRight'
    BY <1>1, <1>2, <1>6 DEF TypeOK, Frames, OutRight, MailRight, RgbRight, ScreenRight, LocksHold,
       Unstarted, MailWritten, MailRead, W_Take, gpu, cpu, mail, window
  <2>5. InStep'
    BY <1>1, <1>2, <1>6 DEF TypeOK, Frames, InStep, XfbRight, LocksHold, XfbWritten, XfbRead,
       W_Take, gpu, cpu, mail, window
  <2> QED BY <2>1, <2>2, <2>3, <2>4, <2>5 DEF PresenterInv
<1>7. CASE W_Clear
  <2>1. TypeOK'
    <3>1. GpuTypes'
      BY <1>1, <1>2, <1>3, <1>7 DEF GpuTypes, W_Clear, gpu, cpu, mail, window
    <3>2. CpuTypes'
      BY <1>1, <1>2, <1>3, <1>7 DEF CpuTypes, GpuTypes, W_Clear, gpu, cpu, mail, window
    <3>3. MailTypes'
      BY <1>1, <1>2, <1>7 DEF MailTypes, CpuTypes, GpuTypes, Frames, OneMessage, Queued, Taken,
         Unsent, W_Clear, gpu, cpu, mail, window
    <3>4. WindowTypes'
      BY <1>1, <1>2, <1>7 DEF WindowTypes, MailTypes, GpuTypes, Frames, W_Clear, gpu, cpu, mail,
         window
    <3>5. lost' \in 0..copies'
      BY <1>1, <1>7 DEF GpuTypes, W_Clear, gpu, cpu, mail, window
    <3> QED BY <3>1, <3>2, <3>3, <3>4, <3>5, TypeParts DEF TypeOK, GpuTypes, CpuTypes, MailTypes,
       WindowTypes, Frames
  <2>2. LocksHold' /\ OneMessage' /\ ClosedRight' /\ Bounded' /\ Unstarted'
    BY <1>1, <1>7 DEF TypeOK, Bounded, Unstarted, LocksHold, OneMessage, ClosedRight, XfbWritten,
       XfbRead, MailWritten, MailRead, Queued, Taken, Unsent, W_Clear, gpu, cpu, mail, window
  <2>3. XfbRight' /\ MailRight'
    BY <1>1, <1>2, <1>7 DEF TypeOK, Frames, XfbRight, MailRight, LocksHold, XfbWritten, XfbRead,
       W_Clear, gpu, cpu, mail, window
  <2>4. OutRight' /\ RgbRight' /\ ScreenRight'
    BY <1>1, <1>2, <1>7 DEF TypeOK, Frames, OutRight, MailRight, RgbRight, ScreenRight, LocksHold,
       Unstarted, MailWritten, MailRead, W_Clear, gpu, cpu, mail, window
  <2>5. InStep'
    BY <1>1, <1>2, <1>7 DEF TypeOK, Frames, InStep, XfbRight, LocksHold, XfbWritten, XfbRead,
       W_Clear, gpu, cpu, mail, window
  <2> QED BY <2>1, <2>2, <2>3, <2>4, <2>5 DEF PresenterInv
<1>8. CASE W_LockOut
  <2>9. lost' \in 0..copies
    <3>1. mailbox[1] \in 0..copies /\ scratch[1] \in 0..copies
      BY <1>1, <1>2 DEF MailTypes, WindowTypes
    <3>2. lost' = lost \/ LoseUpTo(mailbox[1]) \/ LoseUpTo(scratch[1])
      BY <1>8 DEF C_Unpost, W_LockOut, W_Draw
    <3> QED BY <1>1, <3>1, <3>2, LostRight
  <2>1. TypeOK'
    <3>1. GpuTypes'
      BY <1>1, <1>2, <1>3, <1>8 DEF GpuTypes, W_LockOut, gpu, cpu, mail, window
    <3>2. CpuTypes'
      BY <1>1, <1>2, <1>3, <1>8 DEF CpuTypes, GpuTypes, W_LockOut, gpu, cpu, mail, window
    <3>3. MailTypes'
      BY <1>1, <1>2, <1>8 DEF MailTypes, CpuTypes, GpuTypes, Frames, OneMessage, Queued, Taken,
         Unsent, W_LockOut, gpu, cpu, mail, window
    <3>4. WindowTypes'
      BY <1>1, <1>2, <1>8 DEF WindowTypes, MailTypes, GpuTypes, Frames, W_LockOut, gpu, cpu, mail,
         window
    <3>5. lost' \in 0..copies'
      BY <1>1, <1>8, <2>9 DEF GpuTypes, W_LockOut, gpu, cpu, mail, window
    <3> QED BY <3>1, <3>2, <3>3, <3>4, <3>5, TypeParts DEF TypeOK, GpuTypes, CpuTypes, MailTypes,
       WindowTypes, Frames
  <2>2. LocksHold' /\ OneMessage' /\ ClosedRight' /\ Bounded' /\ Unstarted'
    BY <1>1, <1>8 DEF TypeOK, Bounded, Unstarted, LocksHold, OneMessage, ClosedRight, XfbWritten,
       XfbRead, MailWritten, MailRead, Queued, Taken, Unsent, W_LockOut, gpu, cpu, mail, window
  <2>3. XfbRight' /\ MailRight'
    BY <1>1, <1>2, <1>8 DEF TypeOK, Frames, XfbRight, MailRight, LocksHold, XfbWritten, XfbRead,
       W_LockOut, gpu, cpu, mail, window
  <2>4. OutRight' /\ RgbRight' /\ ScreenRight'
    BY <1>1, <1>2, <1>8 DEF TypeOK, Frames, OutRight, MailRight, RgbRight, ScreenRight, LocksHold,
       Unstarted, MailWritten, MailRead, W_LockOut, gpu, cpu, mail, window
  <2>5. InStep'
    BY <1>1, <1>2, <1>8 DEF TypeOK, Frames, InStep, XfbRight, LocksHold, XfbWritten, XfbRead,
       W_LockOut, gpu, cpu, mail, window
  <2> QED BY <2>1, <2>2, <2>3, <2>4, <2>5 DEF PresenterInv
<1>9. CASE W_OutRow
  <2>1. /\ wpc = "copyout" /\ scratch' = [scratch EXCEPT ![wrow] = mailbox[wrow]]
        /\ UNCHANGED <<gpu, cpu, mail, hwnd, rgb, gl, dirty, screen, quit, sized, lost>>
    BY <1>9 DEF W_OutRow
  <2>2. \/ wrow = Height /\ wpc' = "draw" /\ wrow' = 1
        \/ wrow # Height /\ wrow' = wrow + 1 /\ wpc' = "copyout"
    BY <1>9, <2>1 DEF W_OutRow
  <2>3. cpc # "mail"
    BY <1>1, <2>1 DEF LocksHold, MailWritten, MailRead
  <2>4. wrow \in Rows /\ wrow \in Nat /\ mailbox[wrow] \in 0..copies
    BY <1>1, <1>2 DEF WindowTypes, MailTypes
  <2>5. \A r \in Rows : scratch'[r] = IF r = wrow THEN mailbox[wrow] ELSE scratch[r]
    BY <1>1, <2>1, <2>4 DEF WindowTypes
  <2>6. scratch' \in [Rows -> 0..copies] /\ wrow' \in Rows /\ wpc' \in {"draw", "copyout"}
    <3>1. wrow' \in Rows
      BY <1>2, <2>2, <2>4
    <3> QED BY <1>1, <2>1, <2>2, <2>4, <3>1 DEF WindowTypes
  <2>7. TypeOK'
    <3>1. GpuTypes' /\ CpuTypes' /\ MailTypes' /\ lost' \in 0..copies'
      BY <1>1, <2>1 DEF GpuTypes, CpuTypes, MailTypes, gpu, cpu, mail
    <3>2. WindowTypes'
      BY <1>1, <2>1, <2>6 DEF WindowTypes, gpu
    <3> QED BY <3>1, <3>2, TypeParts DEF TypeOK, GpuTypes, CpuTypes, MailTypes, WindowTypes,
       Frames
  <2>8. LocksHold' /\ OneMessage' /\ ClosedRight' /\ Bounded' /\ Unstarted'
    BY <1>1, <2>1, <2>2, <2>3 DEF LocksHold, OneMessage, ClosedRight, Bounded, Unstarted,
       XfbWritten, XfbRead, MailWritten, MailRead, Queued, Taken, Unsent, gpu, cpu, mail
  <2>9. XfbRight' /\ MailRight'
    BY <1>1, <2>1 DEF XfbRight, MailRight, gpu, cpu, mail
  <2>10. OutRight'
    <3>1. \A r \in Rows : r \in Nat /\ r <= Height
      BY <1>2
    <3>2. ASSUME NEW r \in Rows
          PROVE  scratch[r] = IF r < wrow THEN mailbox[r] ELSE scratch[Height]
      BY <1>1, <2>1 DEF OutRight
    <3>3. CASE wrow = Height
      <4>1. wpc' # "copyout" /\ scratch'[Height] = mailbox[Height]
        BY <1>2, <2>2, <2>5, <3>3
      <4>2. ASSUME NEW r \in Rows PROVE scratch'[r] = mailbox[Height]
        <5>1. r = wrow \/ r < wrow
          BY <1>2, <3>1, <3>3
        <5>2. mailbox[r] = mailbox[Height]
          BY <1>1, <2>3 DEF MailRight
        <5> QED BY <2>5, <3>2, <3>3, <5>1, <5>2
      <4> QED BY <4>1, <4>2 DEF OutRight
    <3>4. CASE wrow # Height
      <4>1. /\ wpc' = "copyout" /\ wrow' = wrow + 1 /\ scratch'[Height] = scratch[Height]
            /\ mailbox' = mailbox
        BY <1>2, <2>1, <2>2, <2>5, <3>4 DEF mail
      <4>2. ASSUME NEW r \in Rows
            PROVE  scratch'[r] = IF r < wrow + 1 THEN mailbox[r] ELSE scratch[Height]
        <5>1. r < wrow + 1 <=> r < wrow \/ r = wrow
          BY <2>4, <3>1
        <5> QED BY <2>5, <3>1, <3>2, <5>1
      <4> QED BY <4>1, <4>2 DEF OutRight
    <3> QED BY <3>3, <3>4
  <2>11. RgbRight' /\ ScreenRight'
    BY <1>1, <2>1 DEF RgbRight, ScreenRight
  <2>12. InStep'
    <3> SUFFICES ASSUME NEW r \in Rows
                 PROVE  /\ screen[r] <= rgb[r] /\ rgb[r] <= scratch'[r]
                        /\ scratch'[r] <= mailbox[r] /\ mailbox[r] <= copies
      BY <2>1 DEF InStep, mail, gpu
    <3>1. /\ screen[r] <= rgb[r] /\ rgb[r] <= scratch[r] /\ scratch[r] <= mailbox[r]
          /\ mailbox[r] <= copies
      BY <1>1 DEF InStep
    <3>2. scratch[r] \in Nat /\ mailbox[r] \in Nat /\ rgb[r] \in Nat
      BY <1>1 DEF MailTypes, WindowTypes
    <3> QED BY <2>5, <3>1, <3>2
  <2> QED BY <2>7, <2>8, <2>9, <2>10, <2>11, <2>12 DEF PresenterInv
<1>10. CASE W_Draw
  <2>9. lost' \in 0..copies
    <3>1. mailbox[1] \in 0..copies /\ scratch[1] \in 0..copies
      BY <1>1, <1>2 DEF MailTypes, WindowTypes
    <3>2. lost' = lost \/ LoseUpTo(mailbox[1]) \/ LoseUpTo(scratch[1])
      BY <1>10 DEF C_Unpost, W_LockOut, W_Draw
    <3> QED BY <1>1, <3>1, <3>2, LostRight
  <2>1. TypeOK'
    <3>1. GpuTypes'
      BY <1>1, <1>2, <1>3, <1>10 DEF GpuTypes, W_Draw, gpu, cpu, mail, window
    <3>2. CpuTypes'
      BY <1>1, <1>2, <1>3, <1>10 DEF CpuTypes, GpuTypes, W_Draw, gpu, cpu, mail, window
    <3>3. MailTypes'
      BY <1>1, <1>2, <1>10 DEF MailTypes, CpuTypes, GpuTypes, Frames, OneMessage, Queued, Taken,
         Unsent, W_Draw, gpu, cpu, mail, window
    <3>4. WindowTypes'
      BY <1>1, <1>2, <1>10 DEF WindowTypes, MailTypes, GpuTypes, Frames, W_Draw, gpu, cpu, mail,
         window
    <3>5. lost' \in 0..copies'
      BY <1>1, <1>10, <2>9 DEF GpuTypes, W_Draw, gpu, cpu, mail, window
    <3> QED BY <3>1, <3>2, <3>3, <3>4, <3>5, TypeParts DEF TypeOK, GpuTypes, CpuTypes, MailTypes,
       WindowTypes, Frames
  <2>2. LocksHold' /\ OneMessage' /\ ClosedRight' /\ Bounded' /\ Unstarted'
    BY <1>1, <1>10 DEF TypeOK, Bounded, Unstarted, LocksHold, OneMessage, ClosedRight, XfbWritten,
       XfbRead, MailWritten, MailRead, Queued, Taken, Unsent, W_Draw, gpu, cpu, mail, window
  <2>3. XfbRight' /\ MailRight'
    BY <1>1, <1>2, <1>10 DEF TypeOK, Frames, XfbRight, MailRight, LocksHold, XfbWritten, XfbRead,
       W_Draw, gpu, cpu, mail, window
  <2>4. OutRight' /\ RgbRight' /\ ScreenRight'
    BY <1>1, <1>2, <1>10 DEF TypeOK, Frames, OutRight, MailRight, RgbRight, ScreenRight,
       LocksHold, Unstarted, MailWritten, MailRead, W_Draw, gpu, cpu, mail, window
  <2>5. InStep'
    <3> SUFFICES ASSUME NEW r \in Rows
                 PROVE  /\ screen'[r] <= rgb'[r] /\ rgb'[r] <= scratch[r]
                        /\ scratch[r] <= mailbox[r] /\ mailbox[r] <= copies
      BY <1>10 DEF W_Draw, InStep, mail, gpu
    <3>1. /\ screen[r] <= rgb[r] /\ rgb[r] <= scratch[r] /\ scratch[r] <= mailbox[r]
          /\ mailbox[r] <= copies
      BY <1>1 DEF InStep
    <3>2. scratch[r] \in Nat /\ rgb[r] \in Nat /\ screen[r] \in Nat
      BY <1>1 DEF WindowTypes
    <3>3. /\ rgb' = scratch \/ (rgb' = rgb /\ screen' = screen)
          /\ screen' = scratch \/ screen' = screen
      BY <1>10 DEF W_Draw
    <3> QED BY <3>1, <3>2, <3>3
  <2> QED BY <2>1, <2>2, <2>3, <2>4, <2>5 DEF PresenterInv
<1>11. CASE W_Paint
  <2>1. TypeOK'
    <3>1. GpuTypes'
      BY <1>1, <1>2, <1>3, <1>11 DEF GpuTypes, W_Paint, gpu, cpu, mail, window
    <3>2. CpuTypes'
      BY <1>1, <1>2, <1>3, <1>11 DEF CpuTypes, GpuTypes, W_Paint, gpu, cpu, mail, window
    <3>3. MailTypes'
      BY <1>1, <1>2, <1>11 DEF MailTypes, CpuTypes, GpuTypes, Frames, OneMessage, Queued, Taken,
         Unsent, W_Paint, gpu, cpu, mail, window
    <3>4. WindowTypes'
      BY <1>1, <1>2, <1>11 DEF WindowTypes, MailTypes, GpuTypes, Frames, W_Paint, gpu, cpu, mail,
         window
    <3>5. lost' \in 0..copies'
      BY <1>1, <1>11 DEF GpuTypes, W_Paint, gpu, cpu, mail, window
    <3> QED BY <3>1, <3>2, <3>3, <3>4, <3>5, TypeParts DEF TypeOK, GpuTypes, CpuTypes, MailTypes,
       WindowTypes, Frames
  <2>2. LocksHold' /\ OneMessage' /\ ClosedRight' /\ Bounded' /\ Unstarted'
    BY <1>1, <1>11 DEF TypeOK, Bounded, Unstarted, LocksHold, OneMessage, ClosedRight, XfbWritten,
       XfbRead, MailWritten, MailRead, Queued, Taken, Unsent, W_Paint, gpu, cpu, mail, window
  <2>3. XfbRight' /\ MailRight'
    BY <1>1, <1>2, <1>11 DEF TypeOK, Frames, XfbRight, MailRight, LocksHold, XfbWritten, XfbRead,
       W_Paint, gpu, cpu, mail, window
  <2>4. OutRight' /\ RgbRight' /\ ScreenRight'
    BY <1>1, <1>2, <1>11 DEF TypeOK, Frames, OutRight, MailRight, RgbRight, ScreenRight,
       LocksHold, Unstarted, MailWritten, MailRead, W_Paint, gpu, cpu, mail, window
  <2>5. InStep'
    BY <1>1, <1>2, <1>11 DEF TypeOK, Frames, InStep, XfbRight, LocksHold, XfbWritten, XfbRead,
       W_Paint, gpu, cpu, mail, window
  <2> QED BY <2>1, <2>2, <2>3, <2>4, <2>5 DEF PresenterInv
<1>12. CASE W_Close
  <2>1. TypeOK'
    <3>1. GpuTypes'
      BY <1>1, <1>2, <1>3, <1>12 DEF GpuTypes, W_Close, gpu, cpu, mail, window
    <3>2. CpuTypes'
      BY <1>1, <1>2, <1>3, <1>12 DEF CpuTypes, GpuTypes, W_Close, gpu, cpu, mail, window
    <3>3. MailTypes'
      BY <1>1, <1>2, <1>12 DEF MailTypes, CpuTypes, GpuTypes, Frames, OneMessage, Queued, Taken,
         Unsent, W_Close, gpu, cpu, mail, window
    <3>4. WindowTypes'
      BY <1>1, <1>2, <1>12 DEF WindowTypes, MailTypes, GpuTypes, Frames, W_Close, gpu, cpu, mail,
         window
    <3>5. lost' \in 0..copies'
      BY <1>1, <1>12 DEF GpuTypes, W_Close, gpu, cpu, mail, window
    <3> QED BY <3>1, <3>2, <3>3, <3>4, <3>5, TypeParts DEF TypeOK, GpuTypes, CpuTypes, MailTypes,
       WindowTypes, Frames
  <2>2. LocksHold' /\ OneMessage' /\ ClosedRight' /\ Bounded' /\ Unstarted'
    BY <1>1, <1>12 DEF TypeOK, Bounded, Unstarted, LocksHold, OneMessage, ClosedRight, XfbWritten,
       XfbRead, MailWritten, MailRead, Queued, Taken, Unsent, W_Close, gpu, cpu, mail, window
  <2>3. XfbRight' /\ MailRight'
    BY <1>1, <1>2, <1>12 DEF TypeOK, Frames, XfbRight, MailRight, LocksHold, XfbWritten, XfbRead,
       W_Close, gpu, cpu, mail, window
  <2>4. OutRight' /\ RgbRight' /\ ScreenRight'
    BY <1>1, <1>2, <1>12 DEF TypeOK, Frames, OutRight, MailRight, RgbRight, ScreenRight,
       LocksHold, Unstarted, MailWritten, MailRead, W_Close, gpu, cpu, mail, window
  <2>5. InStep'
    BY <1>1, <1>2, <1>12 DEF TypeOK, Frames, InStep, XfbRight, LocksHold, XfbWritten, XfbRead,
       W_Close, gpu, cpu, mail, window
  <2> QED BY <2>1, <2>2, <2>3, <2>4, <2>5 DEF PresenterInv
<1> QED BY <1>4, <1>5, <1>6, <1>7, <1>8, <1>9, <1>10, <1>11, <1>12 DEF GxStep, CpuStep, Present

\* PresenterInv is inductive.
THEOREM InductiveInvariant == Spec => []PresenterInv
<1>1. Init => PresenterInv
  BY InitInv
<1>2. PresenterInv /\ [Next]_vars => PresenterInv'
  <2> SUFFICES ASSUME PresenterInv, [Next]_vars PROVE PresenterInv'
    OBVIOUS
  <2>1. CASE UNCHANGED vars
    BY <2>1 DEF PresenterInv, TypeOK, Frames, LocksHold, XfbWritten, XfbRead, MailWritten,
       MailRead, XfbRight, MailRight, OutRight, RgbRight, ScreenRight, InStep, OneMessage, Queued,
       Taken, Unsent, ClosedRight, Bounded, Unstarted, vars, gpu, cpu, mail, window
  <2>2. CASE Next
    BY <2>2, GxKeeps, CpuKeeps, WindowKeeps DEF Next
  <2> QED BY <2>1, <2>2
<1> QED BY <1>1, <1>2, PTL DEF Spec

\* Every variable keeps its type, no more than one present message is ever queued, and
\* none without the bit.
THEOREM Typing == Spec => []TypeOK
<1>1. PresenterInv => TypeOK
  BY DEF PresenterInv
<1> QED BY <1>1, InductiveInvariant, PTL

-----------------------------------------------------------------------------
(* The refinement of Screen. *)

\* The screen is one copy, no newer than those that were made.
LEMMA Shown ==
    ASSUME PresenterInv
    PROVE  ShownCopy = screen[Height] /\ screen[Height] \in 0..copies
<1>1. 1 \in Rows /\ Height \in Rows
  BY PresenterAssumption DEF Rows
<1>2. \A r \in Rows : screen[r] = screen[Height]
  BY DEF PresenterInv, ScreenRight
<1>3. screen[Height] \in 0..copies
  BY <1>1, TypeParts DEF PresenterInv, WindowTypes
<1> QED BY <1>1, <1>2, <1>3 DEF ShownCopy

\* A step that moves nothing of what Screen sees is none of Screen's.
LEMMA Unseen ==
    ASSUME PresenterInv, PresenterInv', UNCHANGED <<copies, finished, screen, lost, quit>>,
           (cpc # "stopped") <=> (cpc' # "stopped")
    PROVE  UNCHANGED Target!vars
<1>1. ShownCopy' = ShownCopy
  BY DEF ShownCopy
<1>2. (cpc # "stopped")' = (cpc # "stopped")
  OBVIOUS
<1> QED BY <1>1, <1>2 DEF Target!vars

\* A step that gives a frame up, and moves nothing else of what Screen sees.
LEMMA GivenUp ==
    ASSUME PresenterInv, PresenterInv', NEW c \in 0..copies, LoseUpTo(c),
           UNCHANGED <<copies, finished, screen, quit>>,
           (cpc # "stopped") <=> (cpc' # "stopped")
    PROVE  [Target!Next]_(Target!vars)
<1>1. CASE lost' = lost
  BY <1>1, Unseen
<1>2. CASE lost' # lost
  <2>1. lost' = c /\ c > lost /\ lost \in Nat /\ copies \in Nat
    BY <1>2, TypeParts, PresenterAssumption DEF LoseUpTo, PresenterInv, GpuTypes
  <2>2. lost' \in (lost + 1)..copies
    BY <2>1
  <2>3. ShownCopy' = ShownCopy
    BY DEF ShownCopy
  <2>4. (cpc # "stopped")' = (cpc # "stopped")
    OBVIOUS
  <2>5. Target!GiveUp
    BY <2>2, <2>3, <2>4 DEF Target!GiveUp
  <2> QED BY <2>5 DEF Target!Next
<1> QED BY <1>1, <1>2

\* A step that shows another copy, and moves nothing else of what Screen sees.
LEMMA ShownNext ==
    ASSUME PresenterInv, PresenterInv', ~quit,
           UNCHANGED <<copies, finished, lost, quit>>, screen'[Height] >= screen[Height],
           (cpc # "stopped") <=> (cpc' # "stopped")
    PROVE  [Target!Next]_(Target!vars)
<1>1. /\ ShownCopy = screen[Height] /\ screen[Height] \in 0..copies
      /\ ShownCopy' = screen'[Height]
  <2>1. ShownCopy' = screen'[Height]
    <3>1. \A r \in Rows : screen'[r] = screen'[Height]
      BY DEF PresenterInv, ScreenRight
    <3>2. 1 \in Rows
      BY PresenterAssumption DEF Rows
    <3> QED BY <3>1, <3>2 DEF ShownCopy
  <2> QED BY <2>1, Shown
<1>2. screen'[Height] \in 0..copies
  <2>1. TypeOK'
    BY DEF PresenterInv
  <2>2. Height \in Rows
    BY PresenterAssumption DEF Rows
  <2> QED BY <2>1, <2>2 DEF TypeOK, Frames
<1>3. (cpc # "stopped")' = (cpc # "stopped")
  OBVIOUS
<1>4. CASE screen'[Height] = screen[Height]
  BY <1>1, <1>3, <1>4 DEF Target!vars
<1>5. CASE screen'[Height] # screen[Height]
  <2>1. copies \in Nat
    BY TypeParts, PresenterAssumption DEF PresenterInv, GpuTypes
  <2>2. screen'[Height] \in (screen[Height] + 1)..copies
    BY <1>1, <1>2, <1>5, <2>1
  <2>3. Target!Show
    BY <1>1, <1>3, <2>2 DEF Target!Show
  <2> QED BY <2>3 DEF Target!Next
<1> QED BY <1>4, <1>5

\* Every step of the three threads is one of Screen's or none.
LEMMA StepMaps ==
    ASSUME PresenterInv, PresenterInv', [Next]_vars
    PROVE  [Target!Next]_(Target!vars)
<1>1. Height \in Rows /\ 1 \in Rows
  BY PresenterAssumption DEF Rows
<1>2. /\ GpuTypes /\ CpuTypes /\ MailTypes /\ WindowTypes /\ LocksHold /\ XfbRight /\ MailRight
      /\ OutRight /\ RgbRight /\ ScreenRight /\ InStep /\ ClosedRight
  BY TypeParts DEF PresenterInv
<1>3. CASE UNCHANGED vars
  BY <1>3, Unseen DEF vars, gpu, cpu, window
<1>4. CASE G_CopyBegin
  BY <1>4, Unseen DEF G_CopyBegin, cpu, window
<1>5. CASE G_CopyRow
  <2>1. /\ UNCHANGED <<finished, cpu, window, lost>>
        /\ copies' = copies \/ copies' = copies + 1
    BY <1>5 DEF G_CopyRow
  <2>2. CASE copies' = copies
    BY <2>1, <2>2, Unseen DEF cpu, window
  <2>3. CASE copies' = copies + 1
    <3>1. ShownCopy = screen[Height] /\ ShownCopy' = screen'[Height]
      <4>1. \A r \in Rows : screen'[r] = screen'[Height]
        BY DEF PresenterInv, ScreenRight
      <4> QED BY <1>1, <4>1, Shown DEF ShownCopy
    <3>2. (cpc # "stopped")' = (cpc # "stopped") /\ screen' = screen /\ quit' = quit
      BY <2>1 DEF cpu, window
    <3>3. Target!Copy
      BY <2>1, <2>3, <3>1, <3>2 DEF Target!Copy
    <3> QED BY <3>3 DEF Target!Next
  <2> QED BY <2>1, <2>2, <2>3
<1>6. CASE G_DrawDone
  <2>1. finished' = copies /\ UNCHANGED <<copies, screen, lost, quit, cpc>>
    BY <1>6 DEF G_DrawDone, cpu, window
  <2>2. ShownCopy' = ShownCopy /\ (cpc # "stopped")' = (cpc # "stopped")
    BY <2>1 DEF ShownCopy
  <2>3. Target!Finish
    BY <2>1, <2>2 DEF Target!Finish
  <2> QED BY <2>3 DEF Target!Next
<1>7. CASE C_Start \/ C_Started \/ C_FieldBoundary \/ C_MailRow \/ C_Post \/ C_Send
  <2>1. UNCHANGED <<gpu, screen, quit, lost>> /\ cpc # "stopped"
    BY <1>7 DEF C_Start, C_Started, C_FieldBoundary, C_MailRow, C_Post, C_Send, window
  <2>2. cpc' # "stopped"
    BY <1>7 DEF C_Start, C_Started, C_FieldBoundary, C_MailRow, C_Post, C_Send, PresentReturns
  <2> QED BY <2>1, <2>2, Unseen DEF gpu
<1>8. CASE C_Look \/ C_LockMail
  <2>1. gpc # "copy" /\ xfb[1] = copies /\ copies \in 0..copies
    <3>1. gpc # "copy"
      BY <1>2, <1>8 DEF LocksHold, XfbWritten, XfbRead, C_Look, C_LockMail
    <3>2. copies \in Nat
      BY <1>2, PresenterAssumption DEF GpuTypes
    <3> QED BY <1>1, <1>2, <3>1, <3>2 DEF XfbRight
  <2>2. UNCHANGED <<copies, finished, screen, quit>> /\ cpc # "stopped"
    BY <1>8 DEF C_Look, C_LockMail, gpu, window
  <2>3. cpc' # "stopped"
    <3>1. CASE C_LockMail
      BY <3>1 DEF C_LockMail, PresentReturns
    <3>2. CASE C_Look
      <4>1. hwnd \in BOOLEAN
        BY <1>2 DEF WindowTypes
      <4>2. CASE generation = presented
        BY <3>2, <4>2 DEF C_Look
      <4>3. CASE generation # presented /\ hwnd
        BY <3>2, <4>3 DEF C_Look
      <4>4. CASE generation # presented /\ ~hwnd
        BY <3>2, <4>4 DEF C_Look
      <4> QED BY <4>1, <4>2, <4>3, <4>4
    <3> QED BY <1>8, <3>1, <3>2
  <2>4. lost' = lost \/ LoseUpTo(copies)
    BY <1>8, <2>1 DEF C_Look, C_LockMail
  <2> QED BY <2>1, <2>2, <2>3, <2>4, Unseen, GivenUp
<1>9. CASE C_Unpost \/ W_LockOut
  <2>1. /\ UNCHANGED <<copies, finished, screen, quit>>
        /\ cpc' = cpc \/ (cpc = "unpost" /\ cpc' = "run")
        /\ lost' = lost \/ LoseUpTo(mailbox[1])
    BY <1>9 DEF C_Unpost, PresentReturns, W_LockOut, gpu, cpu, window
  <2>2. mailbox[1] \in 0..copies
    BY <1>1, <1>2 DEF MailTypes
  <2> QED BY <2>1, <2>2, Unseen, GivenUp
<1>10. CASE C_Quit
  <2>1. quit /\ cpc' = "stopped" /\ UNCHANGED <<copies, finished, screen, lost, quit>>
    BY <1>10 DEF C_Quit, gpu, window
  <2>2. ShownCopy' = ShownCopy /\ (cpc # "stopped")' = FALSE
    BY <2>1 DEF ShownCopy
  <2>3. Target!Stop
    BY <2>1, <2>2 DEF Target!Stop
  <2> QED BY <2>3 DEF Target!Next
<1>11. CASE W_Create \/ W_GlInit \/ W_Take \/ W_Clear \/ W_OutRow
  <2>1. UNCHANGED <<copies, finished, screen, lost, quit, cpc>>
    BY <1>11 DEF W_Create, W_GlInit, W_Take, W_Clear, W_OutRow, gpu, cpu
  <2> QED BY <2>1, Unseen
<1>12. CASE W_Draw
  <2>1. /\ ~quit /\ UNCHANGED <<copies, finished, quit, cpc>>
        /\ \/ lost' = lost /\ (screen' = scratch \/ screen' = screen)
           \/ LoseUpTo(scratch[1]) /\ screen' = screen
    BY <1>2, <1>12 DEF W_Draw, ClosedRight, gpu, cpu
  <2>2. scratch[1] \in 0..copies /\ screen[Height] <= scratch[Height]
    <3>1. scratch[1] \in 0..copies
      BY <1>1, <1>2 DEF WindowTypes
    <3>2. screen[Height] <= rgb[Height] /\ rgb[Height] <= scratch[Height]
      BY <1>1, <1>2 DEF InStep
    <3>3. screen[Height] \in Nat /\ rgb[Height] \in Nat /\ scratch[Height] \in Nat
      BY <1>1, <1>2 DEF WindowTypes
    <3> QED BY <3>1, <3>2, <3>3
  <2>3. screen[Height] \in Nat
    BY <1>1, <1>2 DEF WindowTypes
  <2>4. CASE lost' = lost /\ screen' = scratch
    BY <2>1, <2>2, <2>4, <2>3, ShownNext
  <2>5. CASE lost' = lost /\ screen' = screen
    BY <2>1, <2>5, Unseen
  <2>6. CASE LoseUpTo(scratch[1]) /\ screen' = screen
    BY <2>1, <2>2, <2>6, GivenUp
  <2> QED BY <2>1, <2>4, <2>5, <2>6
<1>13. CASE W_Paint
  <2>1. /\ ~quit /\ UNCHANGED <<copies, finished, quit, cpc, lost>> /\ screen' = rgb
    BY <1>2, <1>13 DEF W_Paint, ClosedRight, gpu, cpu
  <2>2. screen[Height] <= rgb[Height]
    BY <1>1, <1>2 DEF InStep
  <2>3. screen'[Height] >= screen[Height]
    <3>1. screen[Height] \in Nat /\ rgb[Height] \in Nat
      BY <1>1, <1>2 DEF WindowTypes
    <3> QED BY <2>1, <2>2, <3>1
  <2> QED BY <2>1, <2>3, ShownNext
<1>14. CASE W_Close
  <2>1. quit' = TRUE /\ UNCHANGED <<copies, finished, screen, lost, cpc>>
    BY <1>14 DEF W_Close, gpu, cpu
  <2>2. ShownCopy' = ShownCopy /\ (cpc # "stopped")' = (cpc # "stopped")
    BY <2>1 DEF ShownCopy
  <2>3. Target!Close
    BY <2>1, <2>2 DEF Target!Close
  <2> QED BY <2>3 DEF Target!Next
<1> QED
  BY <1>3, <1>4, <1>5, <1>6, <1>7, <1>8, <1>9, <1>10, <1>11, <1>12, <1>13, <1>14 DEF Next, GxStep,
     CpuStep, Present

\* Every behaviour of the three threads is one of Screen, liveness left aside: what the
\* window shows is a whole copy, never older than the one before; a frame is given up only
\* by the threads that say so; the run ends only after the window is closed.
THEOREM Refinement == Spec => Target!Init /\ [][Target!Next]_(Target!vars)
<1>1. Init => Target!Init
  <2> SUFFICES ASSUME Init PROVE Target!Init
    OBVIOUS
  <2>1. ShownCopy = 0
    <3>1. 1 \in Rows /\ Height \in Rows
      BY PresenterAssumption DEF Rows
    <3>2. ShownCopy = screen[Height]
      BY InitInv, Shown
    <3> QED BY <3>1, <3>2 DEF Init, Black
  <2> QED BY <2>1 DEF Init, Target!Init
<1>2. PresenterInv /\ PresenterInv' /\ [Next]_vars => [Target!Next]_(Target!vars)
  BY StepMaps
<1> QED BY <1>1, <1>2, InductiveInvariant, PTL DEF Spec

=============================================================================
