-------------------------- MODULE DspWorker_proofs --------------------------
(***************************************************************************)
(* What holds of DspWorker for every Ratio, BatchCap, FlushMin, Costs and  *)
(* MaxCharged: the types, the exclusion of the two threads, the wake of    *)
(* dsp_thread_grant, and the refinement of DspBudget.                      *)
(***************************************************************************)
EXTENDS DspWorker, TLAPS

\* Where the CPU is between the end of a drain and the next grant.
DrainedPcs == {"flush", "flushlatch", "access", "quit", "quitwake", "join", "shutdown",
               "done"}

\* The counters in the order in which a granted cycle passes through them.
CounterOrder ==
    /\ consumed <= wconsumed
    /\ cbuf <= wconsumed
    /\ cbuf # Empty => consumed <= cbuf
    /\ wconsumed <= granted
    /\ wgranted <= granted

RunsSomething == wpc = "run" => wconsumed < wgranted

DrainedIsIdle == cpc \in DrainedPcs => consumed = granted

ParkedIsSet == wpc \in {"wait", "asleep", "unpark"} => parked

\* What a drain was entered for, and what makes it go on to run the residue.
OpOfPc ==
    /\ cpc \in {"drain", "drainset", "drainwait", "drainasleep", "drainunset"} =>
          /\ op \in {"pi", "read", "write", "free"}
          /\ op = "pi" => owed >= FlushMin
    /\ cpc = "flush" =>
          /\ op \in {"pi", "read", "write"}
          /\ op \in {"pi", "read"} => owed >= FlushMin
          /\ Whole(owed) # 0
    /\ cpc = "flushlatch" => op \in {"pi", "read", "write"}
    /\ cpc = "access" => op \in {"read", "write"}
    /\ cpc # "grant" => toGrant = 0

\* The inductive invariant.
IInv ==
    /\ TypeOK
    /\ CounterOrder
    /\ RunsSomething
    /\ DrainedIsIdle
    /\ ParkedIsSet
    /\ NoMissedGrantWake
    /\ OpOfPc

-----------------------------------------------------------------------------
(* Whole. *)

\* The part of a debt that is run is a natural number no larger than the debt.
LEMMA WholeBounds ==
    ASSUME NEW d \in Nat
    PROVE  /\ Whole(d) \in Nat
           /\ Whole(d) <= d
           /\ d - Whole(d) \in Nat
<1>1. Ratio \in Nat /\ Ratio > 0
  BY RatioAssumption
<1>2. d % Ratio \in 0..(Ratio - 1)
  BY <1>1
<1>3. d = Ratio * (d \div Ratio) + (d % Ratio) /\ d \div Ratio \in Nat
  BY <1>1, SMT
<1>4. Ratio * (d \div Ratio) \in Nat
  BY <1>1, <1>3
<1> QED
  BY <1>1, <1>2, <1>3, <1>4 DEF Whole

\* A call of dsp_lle_update keeps the core's types.
LEMMA UpdateTypes ==
    ASSUME TypeOK, NEW n \in Nat, Update(n)
    PROVE  fed' \in Nat /\ halted' \in BOOLEAN /\ pending' \in BOOLEAN
<1>1. (IF halted THEN 0 ELSE n) \in Nat
  OBVIOUS
<1>2. fed' \in Nat
  BY <1>1 DEF TypeOK, Update
<1>3. halted' \in BOOLEAN
  BY Zenon DEF TypeOK, Update
<1>4. pending' \in BOOLEAN
  BY Zenon DEF TypeOK, Update
<1> QED
  BY <1>2, <1>3, <1>4

-----------------------------------------------------------------------------
(* The inductive invariant holds. *)

\* It holds at the start: nothing is owed, granted or awaited.
LEMMA InitIInv == Init => IInv
<1> SUFFICES ASSUME Init PROVE IInv
  OBVIOUS
<1>1. TypeOK
  BY DEF Init, TypeOK, Empty, CpuPcs, WorkerPcs, Ops
<1>2. CounterOrder /\ RunsSomething
  BY DEF Init, CounterOrder, RunsSomething, Empty
<1>3. DrainedIsIdle /\ ParkedIsSet /\ NoMissedGrantWake /\ OpOfPc
  BY DEF Init, DrainedIsIdle, DrainedPcs, ParkedIsSet, NoMissedGrantWake, OpOfPc
<1> QED
  BY <1>1, <1>2, <1>3 DEF IInv

\* The steps of the worker, its store buffer and its wait.
LEMMA WorkerIInv ==
    IInv /\ (WorkerStep \/ W_StoreVisible \/ W_SpuriousWake) => IInv'
<1> SUFFICES ASSUME IInv, WorkerStep \/ W_StoreVisible \/ W_SpuriousWake
             PROVE  IInv'
  OBVIOUS
<1> USE DEF IInv, TypeOK, CounterOrder, RunsSomething, DrainedIsIdle, ParkedIsSet,
            NoMissedGrantWake, OpOfPc, DrainedPcs, Empty, CpuPcs, WorkerPcs, Ops,
            sync, cpu, worker, core, WorkerAt
<1>1. CASE W_Load
  BY <1>1 DEF W_Load
<1>2. CASE W_QuitCheck
  BY <1>2 DEF W_QuitCheck
<1>3. CASE W_Spin
  BY <1>3 DEF W_Spin
<1>4. CASE W_SpinQuit
  BY <1>4 DEF W_SpinQuit
<1>5. CASE W_Park
  BY <1>5 DEF W_Park
<1>6. CASE W_Wait
  BY <1>6 DEF W_Wait
<1>7. CASE W_Unpark
  <2>1. /\ parked' \in BOOLEAN /\ wpc' = "spin"
        /\ UNCHANGED <<granted, consumed, cbuf, quit, waiting, cpu, wgranted, wconsumed,
                      core, charged>>
    BY <1>7 DEF W_Unpark
  <2>2. TypeOK'
    BY <2>1
  <2>3. CounterOrder' /\ RunsSomething' /\ DrainedIsIdle'
    BY <1>7 DEF W_Unpark
  <2>4. ParkedIsSet' /\ NoMissedGrantWake' /\ OpOfPc'
    BY <1>7 DEF W_Unpark
  <2> QED
    BY <2>2, <2>3, <2>4
<1>8. CASE W_Run
  <2>1. wgranted - wconsumed \in Nat
    BY <1>8 DEF W_Run
  <2>2. fed' \in Nat /\ halted' \in BOOLEAN /\ pending' \in BOOLEAN
    BY <1>8, <2>1, UpdateTypes DEF W_Run
  <2>3. /\ wconsumed' = wgranted /\ wpc' = "publish"
        /\ UNCHANGED <<sync, cpu, wgranted, alive, seen, dspint, charged>>
    BY <1>8 DEF W_Run
  <2>4. TypeOK'
    BY <2>2, <2>3
  <2>5. CounterOrder' /\ RunsSomething' /\ DrainedIsIdle'
    BY <1>8 DEF W_Run
  <2>6. ParkedIsSet' /\ NoMissedGrantWake' /\ OpOfPc'
    BY <1>8 DEF W_Run
  <2> QED
    BY <2>4, <2>5, <2>6
<1>9. CASE W_Publish
  BY <1>9 DEF W_Publish
<1>10. CASE W_Check
  BY <1>10 DEF W_Check
<1>11. CASE W_Wake
  BY <1>11 DEF W_Wake
<1>12. CASE W_StoreVisible
  BY <1>12 DEF W_StoreVisible
<1>13. CASE W_SpuriousWake
  BY <1>13 DEF W_SpuriousWake
<1> QED
  BY <1>1, <1>2, <1>3, <1>4, <1>5, <1>6, <1>7, <1>8, <1>9, <1>10, <1>11, <1>12, <1>13 DEF WorkerStep

\* The steps the guest, the debugger and the end of the run begin.
LEMMA GuestIInv == IInv /\ GuestStep => IInv'
<1> SUFFICES ASSUME IInv, GuestStep PROVE IInv'
  OBVIOUS
<1> USE DEF IInv, TypeOK, CounterOrder, RunsSomething, DrainedIsIdle, ParkedIsSet,
            NoMissedGrantWake, OpOfPc, DrainedPcs, Empty, CpuPcs, WorkerPcs, Ops,
            sync, cpu, worker, core, Charge, Enter
<1>1. ASSUME NEW c \in Costs, C_TickUnderCap(c) PROVE IInv'
  <2>1. c \in Nat /\ owed + c \in Nat
    BY CostsAssumption
  <2>2. Whole(owed + c) \in Nat /\ owed + c - Whole(owed + c) \in Nat
    BY <2>1, WholeBounds
  <2>3. TypeOK'
    BY <1>1, <2>1, <2>2 DEF C_TickUnderCap
  <2>4. CounterOrder' /\ RunsSomething' /\ DrainedIsIdle'
    BY <1>1 DEF C_TickUnderCap
  <2>5. ParkedIsSet' /\ NoMissedGrantWake' /\ OpOfPc'
    BY <1>1 DEF C_TickUnderCap
  <2> QED
    BY <2>3, <2>4, <2>5
<1>2. ASSUME NEW c \in Costs, C_TickDiscard(c) PROVE IInv'
  <2>1. c \in Nat /\ owed + c \in Nat
    BY CostsAssumption
  <2>2. Whole(owed + c) \in Nat /\ owed + c - Whole(owed + c) \in Nat
    BY <2>1, WholeBounds
  <2>3. TypeOK'
    BY <1>2, <2>1, <2>2 DEF C_TickDiscard
  <2>4. CounterOrder' /\ RunsSomething' /\ DrainedIsIdle'
    BY <1>2 DEF C_TickDiscard
  <2>5. ParkedIsSet' /\ NoMissedGrantWake' /\ OpOfPc'
    BY <1>2 DEF C_TickDiscard
  <2> QED
    BY <2>3, <2>4, <2>5
<1>3. ASSUME NEW c \in Costs, C_TickGrant(c) PROVE IInv'
  <2>1. c \in Nat /\ owed + c \in Nat
    BY CostsAssumption
  <2>2. Whole(owed + c) \in Nat /\ owed + c - Whole(owed + c) \in Nat
    BY <2>1, WholeBounds
  <2>3. TypeOK'
    BY <1>3, <2>1, <2>2 DEF C_TickGrant
  <2>4. CounterOrder' /\ RunsSomething' /\ DrainedIsIdle'
    BY <1>3 DEF C_TickGrant
  <2>5. ParkedIsSet' /\ NoMissedGrantWake' /\ OpOfPc'
    BY <1>3 DEF C_TickGrant
  <2> QED
    BY <2>3, <2>4, <2>5
<1>4. CASE C_PiObserve
  <2>1. TypeOK'
    BY <1>4, FlushMinAssumption DEF C_PiObserve
  <2>2. CounterOrder' /\ RunsSomething' /\ DrainedIsIdle'
    BY <1>4, FlushMinAssumption DEF C_PiObserve
  <2>3. ParkedIsSet' /\ NoMissedGrantWake' /\ OpOfPc'
    BY <1>4, FlushMinAssumption DEF C_PiObserve
  <2> QED
    BY <2>1, <2>2, <2>3
<1>5. CASE C_Read
  <2>1. TypeOK'
    BY <1>5 DEF C_Read
  <2>2. CounterOrder' /\ RunsSomething' /\ DrainedIsIdle'
    BY <1>5 DEF C_Read
  <2>3. ParkedIsSet' /\ NoMissedGrantWake' /\ OpOfPc'
    BY <1>5 DEF C_Read
  <2> QED
    BY <2>1, <2>2, <2>3
<1>6. CASE C_Write
  <2>1. TypeOK'
    BY <1>6 DEF C_Write
  <2>2. CounterOrder' /\ RunsSomething' /\ DrainedIsIdle'
    BY <1>6 DEF C_Write
  <2>3. ParkedIsSet' /\ NoMissedGrantWake' /\ OpOfPc'
    BY <1>6 DEF C_Write
  <2> QED
    BY <2>1, <2>2, <2>3
<1>7. CASE C_SnapshotBegin
  <2>1. TypeOK'
    BY <1>7 DEF C_SnapshotBegin
  <2>2. CounterOrder' /\ RunsSomething' /\ DrainedIsIdle'
    BY <1>7 DEF C_SnapshotBegin
  <2>3. ParkedIsSet' /\ NoMissedGrantWake' /\ OpOfPc'
    BY <1>7 DEF C_SnapshotBegin
  <2> QED
    BY <2>1, <2>2, <2>3
<1>8. CASE C_Free
  <2>1. TypeOK'
    BY <1>8 DEF C_Free
  <2>2. CounterOrder' /\ RunsSomething' /\ DrainedIsIdle'
    BY <1>8 DEF C_Free
  <2>3. ParkedIsSet' /\ NoMissedGrantWake' /\ OpOfPc'
    BY <1>8 DEF C_Free
  <2> QED
    BY <2>1, <2>2, <2>3
<1> QED
  BY <1>1, <1>2, <1>3, <1>4, <1>5, <1>6, <1>7, <1>8 DEF GuestStep

\* The steps the CPU thread takes inside dsp.c.
LEMMA CpuIInv == IInv /\ (CpuStep \/ C_SpuriousWake) => IInv'
<1> SUFFICES ASSUME IInv, CpuStep \/ C_SpuriousWake PROVE IInv'
  OBVIOUS
<1> USE DEF IInv, TypeOK, CounterOrder, RunsSomething, DrainedIsIdle, ParkedIsSet,
            NoMissedGrantWake, OpOfPc, DrainedPcs, Empty, CpuPcs, WorkerPcs, Ops,
            sync, cpu, worker, core, CpuAt
<1>1. CASE C_Grant
  <2>1. TypeOK'
    BY <1>1 DEF C_Grant
  <2>2. CounterOrder' /\ RunsSomething' /\ DrainedIsIdle'
    BY <1>1 DEF C_Grant
  <2>3. ParkedIsSet' /\ NoMissedGrantWake' /\ OpOfPc'
    BY <1>1 DEF C_Grant
  <2> QED
    BY <2>1, <2>2, <2>3
<1>2. CASE C_GrantCheck
  <2>1. TypeOK'
    BY <1>2 DEF C_GrantCheck
  <2>2. CounterOrder' /\ RunsSomething' /\ DrainedIsIdle'
    BY <1>2 DEF C_GrantCheck
  <2>3. ParkedIsSet' /\ NoMissedGrantWake' /\ OpOfPc'
    BY <1>2 DEF C_GrantCheck
  <2> QED
    BY <2>1, <2>2, <2>3
<1>3. CASE C_GrantWake
  <2>1. TypeOK'
    BY <1>3 DEF C_GrantWake, WakeWorker
  <2>2. CounterOrder' /\ RunsSomething' /\ DrainedIsIdle'
    BY <1>3 DEF C_GrantWake, WakeWorker
  <2>3. ParkedIsSet' /\ NoMissedGrantWake' /\ OpOfPc'
    BY <1>3 DEF C_GrantWake, WakeWorker
  <2> QED
    BY <2>1, <2>2, <2>3
<1>4. CASE C_Latch
  <2>1. /\ pending' \in BOOLEAN /\ dspint' \in BOOLEAN /\ cpc' = "guest"
        /\ UNCHANGED <<sync, op, owed, toGrant, cexpect, worker, alive, halted, fed,
                      seen, charged>>
    BY <1>4 DEF C_Latch, TakeInterrupt
  <2>2. TypeOK'
    BY <2>1
  <2>3. CounterOrder' /\ RunsSomething' /\ DrainedIsIdle'
    BY <1>4 DEF C_Latch
  <2>4. ParkedIsSet' /\ NoMissedGrantWake' /\ OpOfPc'
    BY <1>4 DEF C_Latch
  <2> QED
    BY <2>2, <2>3, <2>4
<1>5. CASE C_Drain
  <2>1. TypeOK'
    BY <1>5 DEF C_Drain, AfterDrain, DrainDone
  <2>2. CounterOrder' /\ RunsSomething' /\ DrainedIsIdle'
    BY <1>5 DEF C_Drain, AfterDrain, DrainDone
  <2>3. ParkedIsSet' /\ NoMissedGrantWake'
    BY <1>5 DEF C_Drain
  <2>4. cpc' \in {"drain", "drainset"} \/ cpc' = AfterDrain
    BY <1>5 DEF C_Drain
  <2>5. op \in {"pi", "read", "write", "free"} /\ (op = "pi" => owed >= FlushMin)
    BY <1>5 DEF C_Drain
  <2>6. /\ AfterDrain \in {"quit", "access", "guest", "flush"}
        /\ AfterDrain = "access" => op \in {"read", "write"}
        /\ AfterDrain = "flush" =>
              /\ op \in {"pi", "read", "write"}
              /\ op \in {"pi", "read"} => owed >= FlushMin
              /\ Whole(owed) # 0
    BY <2>5, FlushMinAssumption DEF AfterDrain
  <2>7. UNCHANGED <<op, owed, toGrant>> /\ toGrant = 0
    BY <1>5 DEF C_Drain
  <2>8. OpOfPc'
    BY <2>4, <2>5, <2>6, <2>7
  <2> QED
    BY <2>1, <2>2, <2>3, <2>8
<1>6. CASE C_DrainSet
  <2>1. TypeOK'
    BY <1>6 DEF C_DrainSet
  <2>2. CounterOrder' /\ RunsSomething' /\ DrainedIsIdle'
    BY <1>6 DEF C_DrainSet
  <2>3. ParkedIsSet' /\ NoMissedGrantWake' /\ OpOfPc'
    BY <1>6 DEF C_DrainSet
  <2> QED
    BY <2>1, <2>2, <2>3
<1>7. CASE C_DrainWait
  <2>1. TypeOK'
    BY <1>7 DEF C_DrainWait
  <2>2. CounterOrder' /\ RunsSomething' /\ DrainedIsIdle'
    BY <1>7 DEF C_DrainWait
  <2>3. ParkedIsSet' /\ NoMissedGrantWake' /\ OpOfPc'
    BY <1>7 DEF C_DrainWait
  <2> QED
    BY <2>1, <2>2, <2>3
<1>8. CASE C_DrainUnset
  <2>1. /\ waiting' \in BOOLEAN /\ cpc' = "drain"
        /\ UNCHANGED <<granted, consumed, cbuf, quit, parked, op, owed, toGrant, cexpect,
                      worker, core, charged>>
    BY <1>8 DEF C_DrainUnset
  <2>2. TypeOK'
    BY <2>1
  <2>3. CounterOrder' /\ RunsSomething' /\ DrainedIsIdle'
    BY <1>8 DEF C_DrainUnset
  <2>4. ParkedIsSet' /\ NoMissedGrantWake' /\ OpOfPc'
    BY <1>8 DEF C_DrainUnset
  <2> QED
    BY <2>2, <2>3, <2>4
<1>9. CASE C_Flush
  <2> DEFINE whole == Whole(owed)
  <2>1. whole \in Nat /\ owed - whole \in Nat
    BY WholeBounds
  <2> HIDE DEF whole
  <2>2. /\ owed' = owed - whole
        /\ cpc = "flush" /\ cpc' = "flushlatch"
    BY <1>9 DEF C_Flush, whole
  <2>3. fed' \in Nat /\ halted' \in BOOLEAN /\ pending' \in BOOLEAN
    BY <1>9, <2>1, UpdateTypes DEF C_Flush, whole
  <2>4. UNCHANGED <<sync, op, toGrant, cexpect, worker, alive, seen, dspint, charged>>
    BY <1>9 DEF C_Flush
  <2>5. TypeOK'
    BY <2>1, <2>2, <2>3, <2>4
  <2>6. CounterOrder' /\ RunsSomething' /\ DrainedIsIdle'
    BY <2>2, <2>4
  <2>7. ParkedIsSet' /\ NoMissedGrantWake' /\ OpOfPc'
    BY <2>2, <2>4
  <2> QED
    BY <2>5, <2>6, <2>7
<1>10. CASE C_FlushLatch
  <2>0. /\ cpc' \in {"guest", "access"} /\ pending' \in BOOLEAN /\ dspint' \in BOOLEAN
        /\ UNCHANGED <<granted, consumed, cbuf, quit, parked, waiting, op, owed, toGrant,
                       cexpect, wpc, wgranted, wconsumed, alive, halted, fed, seen,
                       charged>>
    BY <1>10 DEF C_FlushLatch, TakeInterrupt
  <2>1. TypeOK'
    BY <2>0
  <2>2. CounterOrder' /\ RunsSomething' /\ DrainedIsIdle'
    BY <1>10 DEF C_FlushLatch
  <2>3. ParkedIsSet' /\ NoMissedGrantWake' /\ OpOfPc'
    BY <1>10 DEF C_FlushLatch
  <2> QED
    BY <2>1, <2>2, <2>3
<1>11. CASE C_ReadAccess
  <2>1. TypeOK'
    BY <1>11 DEF C_ReadAccess
  <2>2. CounterOrder' /\ RunsSomething' /\ DrainedIsIdle'
    BY <1>11 DEF C_ReadAccess
  <2>3. ParkedIsSet' /\ NoMissedGrantWake' /\ OpOfPc'
    BY <1>11 DEF C_ReadAccess
  <2> QED
    BY <2>1, <2>2, <2>3
<1>12. CASE C_WriteAccess
  <2>1. TypeOK'
    BY <1>12 DEF C_WriteAccess
  <2>2. CounterOrder' /\ RunsSomething' /\ DrainedIsIdle'
    BY <1>12 DEF C_WriteAccess
  <2>3. ParkedIsSet' /\ NoMissedGrantWake' /\ OpOfPc'
    BY <1>12 DEF C_WriteAccess
  <2> QED
    BY <2>1, <2>2, <2>3
<1>13. CASE C_SnapshotEnd
  <2>1. TypeOK'
    BY <1>13 DEF C_SnapshotEnd
  <2>2. CounterOrder' /\ RunsSomething' /\ DrainedIsIdle'
    BY <1>13 DEF C_SnapshotEnd
  <2>3. ParkedIsSet' /\ NoMissedGrantWake' /\ OpOfPc'
    BY <1>13 DEF C_SnapshotEnd
  <2> QED
    BY <2>1, <2>2, <2>3
<1>14. CASE C_Quit
  <2>1. TypeOK'
    BY <1>14 DEF C_Quit
  <2>2. CounterOrder' /\ RunsSomething' /\ DrainedIsIdle'
    BY <1>14 DEF C_Quit
  <2>3. ParkedIsSet' /\ NoMissedGrantWake' /\ OpOfPc'
    BY <1>14 DEF C_Quit
  <2> QED
    BY <2>1, <2>2, <2>3
<1>15. CASE C_QuitWake
  <2>1. TypeOK'
    BY <1>15 DEF C_QuitWake, WakeWorker
  <2>2. CounterOrder' /\ RunsSomething' /\ DrainedIsIdle'
    BY <1>15 DEF C_QuitWake, WakeWorker
  <2>3. ParkedIsSet' /\ NoMissedGrantWake' /\ OpOfPc'
    BY <1>15 DEF C_QuitWake, WakeWorker
  <2> QED
    BY <2>1, <2>2, <2>3
<1>16. CASE C_Join
  <2>1. TypeOK'
    BY <1>16 DEF C_Join
  <2>2. CounterOrder' /\ RunsSomething' /\ DrainedIsIdle'
    BY <1>16 DEF C_Join
  <2>3. ParkedIsSet' /\ NoMissedGrantWake' /\ OpOfPc'
    BY <1>16 DEF C_Join
  <2> QED
    BY <2>1, <2>2, <2>3
<1>17. CASE C_JoinTimeout
  <2>1. TypeOK'
    BY <1>17 DEF C_JoinTimeout
  <2>2. CounterOrder' /\ RunsSomething' /\ DrainedIsIdle'
    BY <1>17 DEF C_JoinTimeout
  <2>3. ParkedIsSet' /\ NoMissedGrantWake' /\ OpOfPc'
    BY <1>17 DEF C_JoinTimeout
  <2> QED
    BY <2>1, <2>2, <2>3
<1>18. CASE C_Shutdown
  <2>1. /\ alive' \in BOOLEAN /\ cpc' = "done"
        /\ UNCHANGED <<sync, op, owed, toGrant, cexpect, worker, halted, fed, seen,
                      pending, dspint, charged>>
    BY <1>18 DEF C_Shutdown
  <2>2. TypeOK'
    BY <2>1
  <2>3. CounterOrder' /\ RunsSomething' /\ DrainedIsIdle'
    BY <1>18 DEF C_Shutdown
  <2>4. ParkedIsSet' /\ NoMissedGrantWake' /\ OpOfPc'
    BY <1>18 DEF C_Shutdown
  <2> QED
    BY <2>2, <2>3, <2>4
<1>19. CASE C_SpuriousWake
  <2>1. TypeOK'
    BY <1>19 DEF C_SpuriousWake
  <2>2. CounterOrder' /\ RunsSomething' /\ DrainedIsIdle'
    BY <1>19 DEF C_SpuriousWake
  <2>3. ParkedIsSet' /\ NoMissedGrantWake' /\ OpOfPc'
    BY <1>19 DEF C_SpuriousWake
  <2> QED
    BY <2>1, <2>2, <2>3
<1>20. CASE C_ReadCsr
  <2>1. /\ cpc' = "guest" /\ seen' = fed /\ pending' \in BOOLEAN /\ dspint' \in BOOLEAN
        /\ UNCHANGED <<sync, op, owed, toGrant, cexpect, worker, alive, halted, fed,
                       charged>>
    BY <1>20 DEF C_ReadCsr, TakeInterrupt
  <2>2. TypeOK'
    BY <2>1
  <2>3. CounterOrder' /\ RunsSomething' /\ DrainedIsIdle'
    BY <1>20 DEF C_ReadCsr
  <2>4. ParkedIsSet' /\ NoMissedGrantWake' /\ OpOfPc'
    BY <1>20 DEF C_ReadCsr
  <2> QED
    BY <2>2, <2>3, <2>4
<1> QED
  BY <1>1, <1>2, <1>3, <1>4, <1>5, <1>6, <1>7, <1>8, <1>9, <1>10, <1>11,
     <1>12, <1>13, <1>14, <1>15, <1>16, <1>17, <1>18, <1>19, <1>20 DEF CpuStep

\* Every reachable state satisfies the inductive invariant.
THEOREM InductiveInvariant == Spec => []IInv
<1>1. Init => IInv
  BY InitIInv
<1>2. IInv /\ [Next]_vars => IInv'
  <2> SUFFICES ASSUME IInv, [Next]_vars PROVE IInv'
    OBVIOUS
  <2>1. CASE Next
    BY <2>1, WorkerIInv, GuestIInv, CpuIInv DEF Next
  <2>2. CASE UNCHANGED vars
    BY <2>2 DEF vars, sync, cpu, worker, core, IInv, TypeOK, CounterOrder, RunsSomething,
                DrainedIsIdle, ParkedIsSet, NoMissedGrantWake, OpOfPc
  <2> QED
    BY <2>1, <2>2
<1> QED
  BY <1>1, <1>2, PTL DEF Spec
-----------------------------------------------------------------------------
(* The properties that follow from it. *)

\* Every variable of the threaded DSP keeps its type, whatever the two threads
\* and the store buffer do.
THEOREM Typing == Spec => []TypeOK
<1>1. IInv => TypeOK
  BY DEF IInv
<1> QED
  BY <1>1, InductiveInvariant, PTL

\* The one-owner contract of dsp.c:66-71: no register access, inline flush or
\* shutdown of the CPU thread meets the worker on the core.
THEOREM Exclusion == Spec => []RegistersExclusive
<1>1. IInv => RegistersExclusive
  <2> SUFFICES ASSUME IInv, RegistersOnCore, WorkerOnCore PROVE FALSE
    BY DEF RegistersExclusive
  <2>1. consumed = granted
    BY DEF IInv, DrainedIsIdle, DrainedPcs, RegistersOnCore
  <2>2. wconsumed < wgranted
    BY DEF IInv, RunsSomething, WorkerOnCore
  <2> QED
    BY <2>1, <2>2 DEF IInv, TypeOK, CounterOrder
<1> QED
  BY <1>1, InductiveInvariant, PTL

\* The wake that dsp_thread_grant leaves out is never needed (dsp.c:87-93).
THEOREM GrantWake == Spec => []NoMissedGrantWake
<1>1. IInv => NoMissedGrantWake
  BY DEF IInv
<1> QED
  BY <1>1, InductiveInvariant, PTL

-----------------------------------------------------------------------------
(* The refinement: the threaded design keeps the contract of DspBudget. *)

\* A step the contract does not see.
Stutter == UNCHANGED <<owed, Due, fed, halted, pending, dspint, Latching, Stage, seen>>

\* Both modules round a debt alike.
LEMMA SameWhole == \A d : Budget!Whole(d) = Whole(d)
BY DEF Whole, Budget!Whole

\* A call of dsp_lle_update is the same step in both.
LEMMA SameUpdate == \A n : Budget!Update(n) <=> Update(n)
BY DEF Update, Budget!Update

\* So is taking the interrupt request.
LEMMA SameTake == Budget!TakeInterrupt <=> TakeInterrupt
BY DEF TakeInterrupt, Budget!TakeInterrupt

\* Both start with nothing owed or due.
LEMMA InitRefines == Init => Budget!Init
BY DEF Init, Budget!Init, Due, Latching, Stage

\* What the CPU does not touch, no step of the worker changes for the guest.
LEMMA WorkerSees ==
    ASSUME UNCHANGED <<cpc, op, owed, toGrant, granted, seen, dspint>>
    PROVE  UNCHANGED <<owed, Latching, Stage, seen, dspint>>
BY DEF Latching, Stage

\* The worker's call hands the core all that it has seen granted; its other
\* steps move nothing.
LEMMA WorkerRefines ==
    IInv /\ (WorkerStep \/ W_StoreVisible \/ W_SpuriousWake) => Budget!Next \/ Stutter
<1> SUFFICES ASSUME IInv, WorkerStep \/ W_StoreVisible \/ W_SpuriousWake
             PROVE  Budget!Next \/ Stutter
  OBVIOUS
<1>1. CASE W_Run
  <2> DEFINE n == wgranted - wconsumed
  <2>1. /\ toGrant \in Nat /\ granted \in Nat /\ wgranted \in Nat /\ wconsumed \in Nat
        /\ wconsumed < wgranted /\ wgranted <= granted
    BY <1>1 DEF W_Run, WorkerAt, IInv, TypeOK, CounterOrder, RunsSomething
  <2>2. /\ Update(n) /\ wconsumed' = wgranted
        /\ UNCHANGED <<cpc, op, owed, toGrant, granted, seen, dspint>>
    BY <1>1 DEF W_Run, sync, cpu
  <2>3. n \in 1..Due
    BY <2>1 DEF Due
  <2>4. Due' = Due - n
    BY <2>1, <2>2 DEF Due
  <2> HIDE DEF n
  <2>5. Budget!Update(n)
    BY <2>2, SameUpdate
  <2>6. UNCHANGED <<owed, dspint, Latching, Stage, seen>>
    BY <2>2, WorkerSees
  <2> QED
    BY <2>3, <2>4, <2>5, <2>6 DEF Budget!Next, Budget!Run
<1>2. ASSUME \/ W_Load \/ W_QuitCheck \/ W_Spin \/ W_SpinQuit \/ W_Park \/ W_Wait
             \/ W_Unpark \/ W_Publish \/ W_Check \/ W_StoreVisible \/ W_SpuriousWake
      PROVE  Stutter
  <2>1. UNCHANGED <<cpc, op, owed, toGrant, granted, wconsumed, core>>
    BY <1>2 DEF W_Load, W_QuitCheck, W_Spin, W_SpinQuit, W_Park, W_Wait, W_Unpark,
                W_Publish, W_Check, W_StoreVisible, W_SpuriousWake, sync, cpu, worker
  <2> QED
    BY <2>1 DEF Stutter, Due, Latching, Stage, core
<1>3. CASE W_Wake
  <2>1. /\ UNCHANGED <<op, owed, toGrant, granted, wconsumed, core>>
        /\ cpc' = cpc \/ (cpc = "drainasleep" /\ cpc' = "drainunset")
    BY <1>3 DEF W_Wake, sync
  <2> QED
    BY <2>1 DEF Stutter, Due, Latching, Stage, core
<1> QED
  BY <1>1, <1>2, <1>3 DEF WorkerStep

\* A tick of the threaded design, granted, discarded or neither, is a tick of
\* the contract: only a halted core with nothing due loses cycles.
LEMMA TickRefines ==
    ASSUME IInv, NEW c \in Costs,
           C_TickUnderCap(c) \/ C_TickDiscard(c) \/ C_TickGrant(c)
    PROVE  Budget!Tick(c)
<1> DEFINE whole == Whole(owed + c)
<1>1. /\ toGrant = 0 /\ cpc = "guest" /\ cpc' \in {"latch", "grant"}
      /\ UNCHANGED <<granted, wconsumed, fed, halted, pending, dspint, seen>>
  BY DEF C_TickUnderCap, C_TickDiscard, C_TickGrant, Charge, IInv, OpOfPc, sync, worker,
         core
<1>2. /\ granted \in Nat /\ wconsumed \in Nat /\ consumed \in Nat
      /\ consumed <= wconsumed /\ wconsumed <= granted
  BY DEF IInv, TypeOK, CounterOrder
<1>3. whole \in Nat
  BY CostsAssumption, WholeBounds DEF IInv, TypeOK
<1>4. Budget!InGuest /\ Latching' /\ Stage' = Stage
  BY <1>1 DEF Budget!InGuest, Latching, Stage
<1>5. Budget!Whole(owed + c) = whole
  BY SameWhole
<1> HIDE DEF whole
<1>6. CASE C_TickUnderCap(c)
  <2>1. owed + c < BatchCap /\ owed' = owed + c /\ Due' = Due
    BY <1>1, <1>6 DEF C_TickUnderCap, Due
  <2> QED
    BY <1>1, <1>4, <2>1 DEF Budget!Tick
<1>7. CASE C_TickDiscard(c)
  <2>1. /\ owed + c >= BatchCap /\ owed' = owed + c - whole
        /\ halted /\ consumed = granted /\ toGrant' = toGrant
    BY <1>7 DEF C_TickDiscard, CanDiscard, whole
  <2>2. Due = 0 /\ Due' = Due
    BY <1>1, <1>2, <2>1 DEF Due
  <2> QED
    BY <1>1, <1>4, <1>5, <2>1, <2>2 DEF Budget!Tick
<1>8. CASE C_TickGrant(c)
  <2>1. owed + c >= BatchCap /\ owed' = owed + c - whole /\ toGrant' = whole
    BY <1>8 DEF C_TickGrant, whole
  <2>2. Due' = Due + whole
    BY <1>1, <1>2, <1>3, <2>1 DEF Due
  <2> QED
    BY <1>1, <1>4, <1>5, <2>1, <2>2 DEF Budget!Tick
<1> QED
  BY <1>6, <1>7, <1>8

\* The other entries change nothing the contract sees.
LEMMA GuestRefines == IInv /\ GuestStep => Budget!Next \/ Stutter
<1> SUFFICES ASSUME IInv, GuestStep PROVE Budget!Next \/ Stutter
  OBVIOUS
<1>1. ASSUME NEW c \in Costs, C_TickUnderCap(c) \/ C_TickDiscard(c) \/ C_TickGrant(c)
      PROVE  Budget!Next
  BY <1>1, TickRefines DEF Budget!Next
<1>2. CASE C_PiObserve \/ C_Read \/ C_Write \/ C_SnapshotBegin \/ C_Free
  <2>1. /\ cpc = "guest" /\ cpc' \in {"guest", "drain", "snapshot"}
        /\ UNCHANGED <<granted, owed, toGrant, wconsumed, core>>
    BY <1>2 DEF C_PiObserve, C_Read, C_Write, C_SnapshotBegin, C_Free, Enter, sync, worker
  <2> QED
    BY <2>1 DEF Stutter, Due, Latching, Stage, core
<1> QED
  BY <1>1, <1>2 DEF GuestStep

\* When the CPU is past a drain, nothing is due.
LEMMA DrainedDue ==
    ASSUME IInv, cpc \in DrainedPcs \/ (cpc = "drain" /\ consumed = granted)
    PROVE  Due = 0
<1>1. /\ granted \in Nat /\ wconsumed \in Nat /\ consumed \in Nat
      /\ consumed <= wconsumed /\ wconsumed <= granted
  BY DEF IInv, TypeOK, CounterOrder
<1>2. consumed = granted /\ toGrant = 0
  BY DEF IInv, DrainedIsIdle, OpOfPc, DrainedPcs
<1> QED
  BY <1>1, <1>2 DEF Due

\* The end of a drain is the flush of an observation point when the residue is
\* not worth running, and nothing yet when it is.
LEMMA DrainRefines == IInv /\ C_Drain => Budget!Next \/ Stutter
<1> SUFFICES ASSUME IInv, C_Drain PROVE Budget!Next \/ Stutter
  OBVIOUS
<1>1. /\ cpc = "drain" /\ op \in {"pi", "read", "write", "free"}
      /\ UNCHANGED <<op, owed, toGrant, granted, wconsumed, core>>
  BY DEF C_Drain, IInv, OpOfPc, sync, worker
<1>2. UNCHANGED <<owed, Due, fed, halted, pending, dspint, seen>>
  BY <1>1 DEF Due, core
<1>3. CASE cpc' # "access"
  <2>1. cpc' \in {"drain", "drainset", "quit", "guest", "flush"}
    BY <1>1, <1>3 DEF C_Drain, AfterDrain
  <2> QED
    BY <1>1, <1>2, <2>1 DEF Latching, Stage, Stutter
<1>4. CASE cpc' = "access"
  <2>1. /\ op \in {"read", "write"}
        /\ op = "read" => owed < FlushMin \/ Whole(owed) = 0
        /\ op = "write" => Whole(owed) = 0
        /\ consumed = granted
    BY <1>1, <1>4 DEF C_Drain, AfterDrain, DrainDone
  <2>2. Stage' = op /\ Latching' = Latching /\ Budget!InGuest
    BY <1>1, <1>4, <2>1 DEF Stage, Latching, Budget!InGuest
  <2>3. Due = 0
    BY <1>1, <2>1, DrainedDue
  <2>4. CASE op = "read"
    <3>1. Budget!Settle(FlushMin)
      BY <1>2, <2>1, <2>2, <2>3, <2>4, SameWhole DEF Budget!Settle
    <3> QED
      BY <2>2, <2>4, <3>1 DEF Budget!Next, Budget!ReadFlush
  <2>5. CASE op = "write"
    <3>1. Budget!Settle(0)
      BY <1>2, <2>1, <2>2, <2>3, <2>5, SameWhole DEF Budget!Settle
    <3> QED
      BY <2>2, <2>5, <3>1 DEF Budget!Next, Budget!WriteFlush
  <2> QED
    BY <2>1, <2>4, <2>5
<1> QED
  BY <1>3, <1>4

\* The inline flush is the flush of the observation point it stands before.
LEMMA FlushRefines == IInv /\ C_Flush => Budget!Next
<1> SUFFICES ASSUME IInv, C_Flush PROVE Budget!Next
  OBVIOUS
<1> DEFINE whole == Whole(owed)
<1>1. /\ cpc = "flush" /\ cpc' = "flushlatch" /\ op' = op
      /\ UNCHANGED <<granted, toGrant, wconsumed, seen, dspint>>
      /\ Update(whole) /\ owed' = owed - whole
  BY DEF C_Flush, CpuAt, sync, worker
<1>2. /\ op \in {"pi", "read", "write"}
      /\ op \in {"pi", "read"} => owed >= FlushMin
      /\ whole # 0
  BY <1>1 DEF IInv, OpOfPc
<1>3. Due = 0 /\ Due' = Due
  BY <1>1, DrainedDue DEF DrainedPcs, Due
<1>4. Budget!Update(whole) /\ Budget!Whole(owed) = whole
  BY <1>1, SameUpdate, SameWhole
<1>5. Budget!InGuest /\ Latching' /\ Stage' = (IF op = "pi" THEN "guest" ELSE op)
  BY <1>1, <1>2 DEF Budget!InGuest, Latching, Stage
<1>6. owed \in Nat /\ Stage = "guest"
  BY <1>1 DEF IInv, TypeOK, Stage
<1> HIDE DEF whole
<1>7. ASSUME NEW m \in Nat, owed >= m PROVE Budget!Settle(m)
  <2>1. ~ (owed < m \/ Budget!Whole(owed) = 0)
    BY <1>2, <1>4, <1>6, <1>7
  <2> QED
    BY <1>1, <1>3, <1>4, <1>5, <2>1 DEF Budget!Settle
<1>8. CASE op = "pi"
  <2>1. Budget!Settle(FlushMin)
    BY <1>2, <1>7, <1>8, FlushMinAssumption
  <2> QED
    BY <1>5, <1>6, <1>8, <2>1 DEF Budget!Next, Budget!PiObserve
<1>9. CASE op = "read"
  <2>1. Budget!Settle(FlushMin)
    BY <1>2, <1>7, <1>9, FlushMinAssumption
  <2> QED
    BY <1>5, <1>9, <2>1 DEF Budget!Next, Budget!ReadFlush
<1>10. CASE op = "write"
  <2>1. Budget!Settle(0)
    BY <1>6, <1>7
  <2> QED
    BY <1>5, <1>10, <2>1 DEF Budget!Next, Budget!WriteFlush
<1> QED
  BY <1>2, <1>8, <1>9, <1>10

\* The latch after a block, and the one after an inline run.
LEMMA LatchRefines == IInv /\ (C_Latch \/ C_FlushLatch) => Budget!Next
<1> SUFFICES ASSUME IInv, C_Latch \/ C_FlushLatch PROVE Budget!Next
  OBVIOUS
<1>1. /\ UNCHANGED <<owed, toGrant, granted, wconsumed, fed, halted, seen, op>>
      /\ TakeInterrupt
  BY DEF C_Latch, C_FlushLatch, sync, worker
<1>2. Latching /\ Latching' = FALSE /\ Stage' = Stage
  BY DEF C_Latch, C_FlushLatch, CpuAt, IInv, OpOfPc, Latching, Stage
<1>3. Due' = Due
  BY <1>1 DEF Due
<1> QED
  BY <1>1, <1>2, <1>3, SameTake DEF Budget!Next, Budget!Latch, Budget!cycles

\* The register accesses are those of the contract.
LEMMA AccessRefines == IInv /\ (C_ReadAccess \/ C_ReadCsr \/ C_WriteAccess) => Budget!Next
<1> SUFFICES ASSUME IInv, C_ReadAccess \/ C_ReadCsr \/ C_WriteAccess PROVE Budget!Next
  OBVIOUS
<1>1. /\ cpc = "access" /\ cpc' = "guest"
      /\ UNCHANGED <<op, owed, toGrant, granted, wconsumed, fed>>
  BY DEF C_ReadAccess, C_ReadCsr, C_WriteAccess, CpuAt, sync, worker
<1>2. UNCHANGED <<owed, Due, fed>>
  BY <1>1 DEF Due
<1>3. Latching = FALSE /\ Latching' = FALSE /\ Stage' = "guest"
  BY <1>1 DEF Latching, Stage
<1>4. ASSUME NEW kind \in {"read", "write"}, op = kind PROVE Budget!Access(kind)
  BY <1>1, <1>2, <1>3, <1>4 DEF Budget!Access, Budget!cycles, Stage
<1>5. CASE C_ReadAccess
  BY <1>4, <1>5 DEF C_ReadAccess, Budget!Next, Budget!ReadAccess
<1>6. CASE C_ReadCsr
  BY <1>4, <1>6, SameTake DEF C_ReadCsr, Budget!Next, Budget!ReadCsr
<1>7. CASE C_WriteAccess
  BY <1>4, <1>7 DEF C_WriteAccess, Budget!Next, Budget!WriteAccess
<1> QED
  BY <1>5, <1>6, <1>7

\* The other steps of the CPU thread are not seen.
LEMMA CpuRefines == IInv /\ (CpuStep \/ C_SpuriousWake) => Budget!Next \/ Stutter
<1> SUFFICES ASSUME IInv, CpuStep \/ C_SpuriousWake PROVE Budget!Next \/ Stutter
  OBVIOUS
<1>1. CASE C_Drain
  BY <1>1, DrainRefines
<1>2. CASE C_Flush
  BY <1>2, FlushRefines
<1>3. CASE C_Latch \/ C_FlushLatch
  BY <1>3, LatchRefines
<1>4. CASE C_ReadAccess \/ C_ReadCsr \/ C_WriteAccess
  BY <1>4, AccessRefines
<1>5. ASSUME UNCHANGED <<owed, fed, halted, pending, dspint, seen>>,
             Due' = Due, Latching' = Latching,
             Stage = "guest", Stage' = "guest"
      PROVE  Stutter
  BY <1>5 DEF Stutter
<1>6. CASE C_Grant
  <2>1. /\ granted' = granted + toGrant /\ toGrant' = 0
        /\ UNCHANGED <<owed, wconsumed, fed, halted, pending, dspint, seen>>
        /\ cpc = "grant" /\ cpc' = "grantcheck"
    BY <1>6 DEF C_Grant, CpuAt, worker, core
  <2>2. granted \in Int /\ toGrant \in Int /\ wconsumed \in Int
    BY DEF IInv, TypeOK
  <2>3. Due' = Due
    BY <2>1, <2>2 DEF Due
  <2> QED
    BY <1>5, <2>1, <2>3 DEF Latching, Stage
<1>7. CASE C_GrantCheck \/ C_GrantWake
  <2>1. /\ cpc \in {"grantcheck", "grantwake"} /\ cpc' \in {"grantwake", "latch"}
        /\ UNCHANGED <<owed, toGrant, granted, wconsumed, core>>
    BY <1>7 DEF C_GrantCheck, C_GrantWake, CpuAt, sync, worker
  <2> QED
    BY <1>5, <2>1 DEF Due, Latching, Stage, core
<1>8. CASE C_DrainSet \/ C_DrainWait \/ C_DrainUnset \/ C_SpuriousWake
  <2>1. /\ cpc \in {"drainset", "drainwait", "drainasleep", "drainunset"}
        /\ cpc' \in {"drain", "drainwait", "drainasleep", "drainunset"}
        /\ UNCHANGED <<owed, toGrant, granted, wconsumed, core>>
    BY <1>8 DEF C_DrainSet, C_DrainWait, C_DrainUnset, C_SpuriousWake, CpuAt, sync, worker
  <2> QED
    BY <1>5, <2>1 DEF Due, Latching, Stage, core
<1>9. CASE C_SnapshotEnd \/ C_Quit \/ C_QuitWake \/ C_Join \/ C_JoinTimeout \/ C_Shutdown
  <2>1. /\ cpc \in {"snapshot", "quit", "quitwake", "join", "shutdown"}
        /\ cpc' \in {"guest", "quitwake", "join", "shutdown", "done"}
        /\ UNCHANGED <<owed, toGrant, granted, wconsumed, fed, halted, pending, dspint,
                       seen>>
    BY <1>9 DEF C_SnapshotEnd, C_Quit, C_QuitWake, C_Join, C_JoinTimeout, C_Shutdown,
                CpuAt, sync, worker, core
  <2> QED
    BY <1>5, <2>1 DEF Due, Latching, Stage
<1> QED
  BY <1>1, <1>2, <1>3, <1>4, <1>6, <1>7, <1>8, <1>9 DEF CpuStep

\* For every cost of a block, cap and lazy threshold: each granted cycle is handed
\* to the core once, none is outstanding when the guest looks, and an interrupt
\* request is latched once (dsp.c:59-65, 72-78).
THEOREM Refinement == Spec => ImplementsBudget
<1>1. Init => Budget!Init
  BY InitRefines
<1>2. IInv /\ [Next]_vars => [Budget!Next]_(Budget!vars)
  <2> SUFFICES ASSUME IInv, [Next]_vars PROVE Budget!Next \/ Stutter
    BY DEF Stutter, Budget!vars, Budget!cycles
  <2>1. CASE Next
    BY <2>1, WorkerRefines, GuestRefines, CpuRefines DEF Next
  <2>2. CASE UNCHANGED vars
    BY <2>2 DEF vars, sync, cpu, worker, core, Stutter, Due, Latching, Stage
  <2> QED
    BY <2>1, <2>2
<1> QED
  BY <1>1, <1>2, InductiveInvariant, PTL DEF Spec, ImplementsBudget, Budget!Spec
=============================================================================
