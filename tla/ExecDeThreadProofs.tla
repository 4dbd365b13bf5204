------------------------- MODULE ExecDeThreadProofs -------------------------
(* Proofs about ExecDeThread, for every set of threads: its types, then the *)
(* original scheme, then the optimised one.                                 *)
EXTENDS MCExecDeThread, FiniteSetTheorems, TLAPS

\* How many threads zap_other_threads() counts is a natural number.
LEMMA ZapCountedNat ==
  ASSUME TypeOK, NEW t \in Threads
  PROVE  Cardinality(ZapCounted(t)) \in Nat
<1>1. IsFiniteSet(Threads) /\ ZapCounted(t) \subseteq Threads
  BY ConstantsAssumption DEF ZapCounted, TypeOK
<1>2. IsFiniteSet(ZapCounted(t))
  BY <1>1, FS_Subset
<1> QED BY <1>2, FS_CardinalityType

\* Every step of the kernel, of the program and of the environment keeps the
\* types; notify_count never drops below -1 (__exit_signal, de_thread).
LEMMA TypeStep == TypeOK /\ [Next]_vars => TypeOK'
<1> SUFFICES ASSUME TypeOK, [Next]_vars PROVE TypeOK'
  OBVIOUS
<1> USE DEF TypeOK, Goto, taskVars, sigVars, progVars
<1>1. ASSUME NEW t \in Threads, GetSignal(t) PROVE TypeOK'
  BY <1>1 DEF GetSignal, DoGroupExit, Pc, ExitPc
<1>2. ASSUME NEW t \in Threads, DeThreadZap(t) PROVE TypeOK'
  <2>1. WaitedFor(t) \in Int /\ WaitedFor(t) >= -1
    BY ZapCountedNat DEF WaitedFor
  <2> QED BY <1>2, <2>1 DEF DeThreadZap, SigKill, Pc, DeThreadPc
<1>3. ASSUME NEW t \in Threads, DeThreadLoop(t) PROVE TypeOK'
  BY <1>3 DEF DeThreadLoop, Pc, DeThreadPc
<1>4. ASSUME NEW t \in Threads, DeThreadWake(t) PROVE TypeOK'
  BY <1>4 DEF DeThreadWake, Pc, DeThreadPc
<1>5. ASSUME NEW t \in Threads, DeThreadLead(t) PROVE TypeOK'
  <2>1. pc' \in [Threads -> Pc]
    BY <1>5 DEF DeThreadLead, Pc, DeThreadPc
  <2>2. groupLeader' \in [Threads -> Threads]
    BY <1>5 DEF DeThreadLead
  <2>3. exitState' \in [Threads -> {"alive", "zombie", "dead"}]
    BY <1>5 DEF DeThreadLead
  <2>4. asleep' \in [Threads -> BOOLEAN]
    BY <1>5 DEF DeThreadLead
  <2>5. notifyCount' \in Int /\ notifyCount' >= -1
    BY <1>5 DEF DeThreadLead
  <2>6. UNCHANGED <<group, pfExiting, pendingKill, image, imageNow,
                    groupExecTask, quickThreads, groupExit>>
    BY <1>5 DEF DeThreadLead
  <2> QED BY <2>1, <2>2, <2>3, <2>4, <2>5, <2>6
<1>6. ASSUME NEW t \in Threads, DeThreadRelease(t) PROVE TypeOK'
  BY <1>6 DEF DeThreadRelease, Pc, DeThreadPc, ExitPc
<1>7. ASSUME NEW t \in Threads, DeThreadFinal(t) PROVE TypeOK'
  BY <1>7 DEF DeThreadFinal, Pc, DeThreadPc
<1>8. ASSUME NEW t \in Threads, DeThreadClear(t) PROVE TypeOK'
  BY <1>8 DEF DeThreadClear, Pc, DeThreadPc
<1>9. ASSUME NEW t \in Threads, DeThreadKilled(t) PROVE TypeOK'
  BY <1>9 DEF DeThreadKilled, Pc, DeThreadPc
<1>10. ASSUME NEW t \in Threads, NewImage(t) PROVE TypeOK'
  BY <1>10 DEF NewImage, Pc
<1>11. ASSUME NEW t \in Threads, ExitCheck(t) PROVE TypeOK'
  BY <1>11 DEF ExitCheck, Pc, ExitPc
<1>12. ASSUME NEW t \in Threads, OptDeref(t) PROVE TypeOK'
  BY <1>12 DEF OptDeref, Pc, ExitPc
<1>13. ASSUME NEW t \in Threads, OptLock(t) PROVE TypeOK'
  <2>1. pc' \in [Threads -> Pc]
    BY <1>13 DEF OptLock, Pc, ExitPc
  <2>2. asleep' \in [Threads -> BOOLEAN]
    BY <1>13, ConstantsAssumption DEF OptLock, EarlyWoken
  <2> QED BY <1>13, <2>1, <2>2 DEF OptLock, EarlyExiting
<1>14. ASSUME NEW t \in Threads, OptLinger(t) PROVE TypeOK'
  BY <1>14 DEF OptLinger, Pc, ExitPc
<1>15. ASSUME NEW t \in Threads, ExitBegin(t) PROVE TypeOK'
  BY <1>15 DEF ExitBegin, Pc, ExitPc
<1>16. ASSUME NEW t \in Threads, ExitNotify(t) PROVE TypeOK'
  BY <1>16 DEF ExitNotify, Pc, ExitPc
<1>17. ASSUME NEW t \in Threads, ExitRelease(t) PROVE TypeOK'
  BY <1>17 DEF ExitRelease, Counts, Pc, ExitPc
<1>18. ASSUME NEW t \in Threads, Exec(t) PROVE TypeOK'
  BY <1>18 DEF Exec, Pc, DeThreadPc
<1>19. ASSUME NEW t \in Threads, SysExit(t) PROVE TypeOK'
  BY <1>19 DEF SysExit, Pc, ExitPc
<1>20. ASSUME NEW t \in Threads, ExitGroup(t) PROVE TypeOK'
  BY <1>20 DEF ExitGroup, DoGroupExit, Pc, ExitPc
<1>21. ASSUME NEW t \in Threads, NEW u \in Threads, Clone(t, u) PROVE TypeOK'
  BY <1>21 DEF Clone, Pc
<1>22. ASSUME NEW t \in Threads, ParentReaps(t) PROVE TypeOK'
  BY <1>22 DEF ParentReaps, Pc, ExitPc
<1>23. CASE KillProcess
  BY <1>23 DEF KillProcess, SigKill
<1>24. CASE UNCHANGED vars
  BY <1>24 DEF vars
<1> QED
  BY <1>1, <1>2, <1>3, <1>4, <1>5, <1>6, <1>7, <1>8, <1>9, <1>10, <1>11,
     <1>12, <1>13, <1>14, <1>15, <1>16, <1>17, <1>18, <1>19, <1>20, <1>21,
     <1>22, <1>23, <1>24 DEF Next, Kernel, Program, DeThread, DoExit

\* The initial thread group has these types.
LEMMA TypeInit == Init => TypeOK
<1> SUFFICES ASSUME Init PROVE TypeOK
  OBVIOUS
<1>1. IsFiniteSet(InitThreads)
  BY ConstantsAssumption, FS_Subset
<1>2. Cardinality(InitThreads) \in Nat
  BY <1>1, FS_CardinalityType
<1>3. pc \in [Threads -> Pc]
  BY DEF Init, Pc
<1>4. Leader \in Threads /\ InitThreads \subseteq Threads
  BY ConstantsAssumption
<1>5. groupExit \in BOOLEAN
  BY DEF Init
<1>6. notifyCount \in Int /\ notifyCount >= -1 /\ quickThreads \in Int
      /\ imageNow \in Nat /\ image \in [Threads -> Nat]
  BY <1>2 DEF Init
<1>7. /\ exitState \in [Threads -> {"alive", "zombie", "dead"}]
      /\ pfExiting \in [Threads -> BOOLEAN]
      /\ pendingKill \in [Threads -> BOOLEAN]
      /\ asleep \in [Threads -> BOOLEAN]
  BY DEF Init
<1>8. /\ group \subseteq Threads /\ groupExecTask \in Threads \cup {NoTask}
      /\ groupLeader \in [Threads -> Threads]
  BY <1>4 DEF Init
<1> QED
  BY <1>3, <1>5, <1>6, <1>7, <1>8 DEF TypeOK

\* The types of the thread group hold in every mode and environment.
THEOREM TypeCorrect == Spec => []TypeOK
BY TypeInit, TypeStep, PTL DEF Spec

-----------------------------------------------------------------------------
(***************************************************************************)
(* The original scheme (optimization_on = 0) for every set of threads and  *)
(* every environment: OriginalInv is inductive, and from it follow the     *)
(* counting and waiting properties and that exec() is atomic.              *)
(*                                                                         *)
(* The argument.  OthersDoomed: from zap_other_threads() on, every other   *)
(* thread of the program has a SIGKILL pending, so none can be created.    *)
(* NotifyCountExact: notify_count is then the number of the threads left   *)
(* besides the caller and the leader; each of them takes one away when it  *)
(* is released, and nothing else does.  FewLeft: so the wait loops end     *)
(* with two threads and one thread on the list, and whatever follows is    *)
(* done by the caller alone.                                               *)
(***************************************************************************)

\* A thread list is finite, and so is what is left without two threads.
LEMMA AwaitedNat ==
  ASSUME TypeOK, NEW e \in Threads
  PROVE  IsFiniteSet(group) /\ IsFiniteSet(Awaited(e)) /\ Cardinality(Awaited(e)) \in Nat
<1>1. IsFiniteSet(group) /\ Awaited(e) \subseteq group
  BY ConstantsAssumption, FS_Subset DEF Awaited, TypeOK
<1>2. IsFiniteSet(Awaited(e))
  BY <1>1, FS_Subset
<1> QED BY <1>1, <1>2, FS_CardinalityType

\* What de_thread() stores in notify_count is the number of the threads it
\* waits for before the leader (zap_other_threads, de_thread).
LEMMA WaitedForAwaited ==
  ASSUME TypeOK, OptOn = FALSE, NEW e \in group, groupLeader[e] \in group
  PROVE  WaitedFor(e) = Cardinality(Awaited(e))
<1>1. ZapCounted(e) = group \ {e} /\ e \in Threads
  BY DEF ZapCounted, TypeOK
<1>2. IsFiniteSet(group \ {e})
  BY AwaitedNat, <1>1, FS_Subset
<1>3. Cardinality(group \ {e}) \in Nat
  BY <1>2, FS_CardinalityType
<1>4. CASE IsLeader(e)
  <2>1. Awaited(e) = group \ {e}
    BY <1>4 DEF Awaited, IsLeader
  <2> QED BY <1>1, <1>3, <1>4, <2>1 DEF WaitedFor
<1>5. CASE ~IsLeader(e)
  <2>1. /\ Awaited(e) = (group \ {e}) \ {groupLeader[e]}
        /\ groupLeader[e] \in group \ {e}
    BY <1>5 DEF Awaited, IsLeader
  <2>2. Cardinality(Awaited(e)) = Cardinality(group \ {e}) - 1
    BY <1>2, <2>1, FS_RemoveElement
  <2> QED BY <1>1, <1>3, <1>5, <2>2 DEF WaitedFor
<1> QED BY <1>4, <1>5

\* Every step of the kernel, the program and the environment preserves
\* OriginalInv when optimization_on is 0.
LEMMA OriginalStep ==
  ASSUME OptOn = FALSE, OriginalInv, [Next]_vars
  PROVE  OriginalInv'
<1> USE ConstantsAssumption
    DEF OriginalInv, TypeOK, Goto, Pc, DeThreadPc, ExitPc, ExecTaskPc,
        InProgram, IsLeader, Alone, taskVars, sigVars, progVars
<1>0. TypeOK'
  BY TypeStep
<1>1. ASSUME NEW t \in Threads, GetSignal(t) PROVE OriginalInv'
  BY <1>0, <1>1
  DEF GetSignal, DoGroupExit, ZapKilled, OptNotReached, ListExact, ExitStateExact, ExecTaskExact,
      OthersDoomed, NotifyCountExact, Awaited, FewLeft, NegativeExact, OneLeader,
      OldImageStopped
<1>2. ASSUME NEW t \in Threads, DeThreadZap(t) PROVE OriginalInv'
  <2>1. /\ OptNotReached'
        /\ ListExact'
        /\ ExitStateExact'
        /\ ExecTaskExact'
        /\ OthersDoomed'
        /\ FewLeft'
        /\ OneLeader'
        /\ OldImageStopped'
    BY <1>0, <1>2
    DEF DeThreadZap, SigKill, ZapKilled, WaitedFor, ZapCounted, GroupAction, OptNotReached, ListExact, ExitStateExact, ExecTaskExact,
        OthersDoomed, NotifyCountExact, Awaited, FewLeft, NegativeExact, OneLeader,
        OldImageStopped
  <2>2. notifyCount' = IF GroupAction THEN notifyCount ELSE Cardinality(Awaited(t))
    <3>1. t \in group /\ groupLeader[t] \in group
      BY <1>2 DEF DeThreadZap, ListExact, OneLeader
    <3> QED BY <1>2, <3>1, WaitedForAwaited DEF DeThreadZap
  <2>3. Awaited(t)' = Awaited(t)
    BY <1>2 DEF DeThreadZap, Awaited
  <2>4. NotifyCountExact'
    <3>1. CASE GroupAction
      BY <1>2, <3>1 DEF DeThreadZap, NotifyCountExact, Awaited
    <3>2. CASE ~GroupAction
      <4>1. \A e \in Threads : pc'[e] \in {"dt_loop", "dt_sleep"} => e = t
        BY <1>2, <3>2 DEF DeThreadZap, GroupAction, ExecTaskExact
      <4> QED BY <2>2, <2>3, <3>2, <4>1 DEF NotifyCountExact
    <3> QED BY <3>1, <3>2
  <2>5. NegativeExact'
    <3>1. CASE GroupAction
      BY <1>2, <2>2, <3>1 DEF DeThreadZap, NegativeExact
    <3>2. CASE ~GroupAction
      BY <2>2, <3>2, AwaitedNat DEF NegativeExact
    <3> QED BY <3>1, <3>2
  <2> QED BY <1>0, <2>1, <2>4, <2>5
<1>3. ASSUME NEW t \in Threads, DeThreadLoop(t) PROVE OriginalInv'
  <2>1. /\ OptNotReached'
        /\ ListExact'
        /\ ExitStateExact'
        /\ ExecTaskExact'
        /\ OthersDoomed'
        /\ NotifyCountExact'
        /\ NegativeExact'
        /\ OneLeader'
        /\ OldImageStopped'
    BY <1>0, <1>3
    DEF DeThreadLoop, WaitOver, OptNotReached, ListExact, ExitStateExact, ExecTaskExact,
        OthersDoomed, NotifyCountExact, Awaited, FewLeft, NegativeExact, OneLeader,
        OldImageStopped
  <2>2. FewLeft'
    <3>1. CASE WaitOver
      <4>1. Cardinality(Awaited(t)) = 0
        BY <1>3, <3>1 DEF DeThreadLoop, WaitOver, NotifyCountExact
      <4>2. Awaited(t) = {}
        BY <4>1, AwaitedNat, FS_EmptySet
      <4>3. t \in group /\ groupLeader[t] \in group
        BY <1>3 DEF DeThreadLoop, ListExact, OneLeader
      <4>4. group = {t, groupLeader[t]}
        BY <4>2, <4>3 DEF Awaited
      <4> QED BY <1>3, <3>1, <4>4 DEF DeThreadLoop, FewLeft
    <3>2. CASE ~WaitOver
      BY <1>3, <3>2 DEF DeThreadLoop, FewLeft
    <3> QED BY <3>1, <3>2
  <2> QED BY <1>0, <2>1, <2>2
<1>4. ASSUME NEW t \in Threads, DeThreadWake(t) PROVE OriginalInv'
  BY <1>0, <1>4
  DEF DeThreadWake, OptNotReached, ListExact, ExitStateExact, ExecTaskExact,
      OthersDoomed, NotifyCountExact, Awaited, FewLeft, NegativeExact, OneLeader,
      OldImageStopped
<1>5. ASSUME NEW t \in Threads, DeThreadLead(t) PROVE OriginalInv'
  BY <1>0, <1>5
  DEF DeThreadLead, Moved, OptNotReached, ListExact, ExitStateExact, ExecTaskExact,
      OthersDoomed, NotifyCountExact, Awaited, FewLeft, NegativeExact, OneLeader,
      OldImageStopped
<1>6. ASSUME NEW t \in Threads, DeThreadRelease(t) PROVE OriginalInv'
  BY <1>0, <1>6
  DEF DeThreadRelease, OptNotReached, ListExact, ExitStateExact, ExecTaskExact,
      OthersDoomed, NotifyCountExact, Awaited, FewLeft, NegativeExact, OneLeader,
      OldImageStopped
<1>7. ASSUME NEW t \in Threads, DeThreadFinal(t) PROVE OriginalInv'
  BY <1>0, <1>7
  DEF DeThreadFinal, OptNotReached, ListExact, ExitStateExact, ExecTaskExact,
      OthersDoomed, NotifyCountExact, Awaited, FewLeft, NegativeExact, OneLeader,
      OldImageStopped
<1>8. ASSUME NEW t \in Threads, DeThreadClear(t) PROVE OriginalInv'
  BY <1>0, <1>8
  DEF DeThreadClear, OptNotReached, ListExact, ExitStateExact, ExecTaskExact,
      OthersDoomed, NotifyCountExact, Awaited, FewLeft, NegativeExact, OneLeader,
      OldImageStopped
<1>9. ASSUME NEW t \in Threads, DeThreadKilled(t) PROVE OriginalInv'
  BY <1>0, <1>9
  DEF DeThreadKilled, OptNotReached, ListExact, ExitStateExact, ExecTaskExact,
      OthersDoomed, NotifyCountExact, Awaited, FewLeft, NegativeExact, OneLeader,
      OldImageStopped
<1>10. ASSUME NEW t \in Threads, NewImage(t) PROVE OriginalInv'
  BY <1>0, <1>10
  DEF NewImage, OptNotReached, ListExact, ExitStateExact, ExecTaskExact,
      OthersDoomed, NotifyCountExact, Awaited, FewLeft, NegativeExact, OneLeader,
      OldImageStopped
<1>11. ASSUME NEW t \in Threads, ExitCheck(t) PROVE OriginalInv'
  BY <1>0, <1>11
  DEF ExitCheck, EarlyWake, OptNotReached, ListExact, ExitStateExact, ExecTaskExact,
      OthersDoomed, NotifyCountExact, Awaited, FewLeft, NegativeExact, OneLeader,
      OldImageStopped
<1>12. ASSUME NEW t \in Threads, OptDeref(t) PROVE OriginalInv'
  BY <1>0, <1>12
  DEF OptDeref, OptNotReached, ListExact, ExitStateExact, ExecTaskExact,
      OthersDoomed, NotifyCountExact, Awaited, FewLeft, NegativeExact, OneLeader,
      OldImageStopped
<1>13. ASSUME NEW t \in Threads, OptLock(t) PROVE OriginalInv'
  BY <1>0, <1>13
  DEF OptLock, OptNotReached, ListExact, ExitStateExact, ExecTaskExact,
      OthersDoomed, NotifyCountExact, Awaited, FewLeft, NegativeExact, OneLeader,
      OldImageStopped
<1>14. ASSUME NEW t \in Threads, OptLinger(t) PROVE OriginalInv'
  BY <1>0, <1>14
  DEF OptLinger, OptNotReached, ListExact, ExitStateExact, ExecTaskExact,
      OthersDoomed, NotifyCountExact, Awaited, FewLeft, NegativeExact, OneLeader,
      OldImageStopped
<1>15. ASSUME NEW t \in Threads, ExitBegin(t) PROVE OriginalInv'
  BY <1>0, <1>15
  DEF ExitBegin, OptNotReached, ListExact, ExitStateExact, ExecTaskExact,
      OthersDoomed, NotifyCountExact, Awaited, FewLeft, NegativeExact, OneLeader,
      OldImageStopped
<1>16. ASSUME NEW t \in Threads, ExitNotify(t) PROVE OriginalInv'
  BY <1>0, <1>16
  DEF ExitNotify, ReapsItself, OptNotReached, ListExact, ExitStateExact, ExecTaskExact,
      OthersDoomed, NotifyCountExact, Awaited, FewLeft, NegativeExact, OneLeader,
      OldImageStopped
<1>17. ASSUME NEW t \in Threads, ExitRelease(t) PROVE OriginalInv'
  <2>1. /\ OptNotReached'
        /\ ListExact'
        /\ ExitStateExact'
        /\ ExecTaskExact'
        /\ OthersDoomed'
        /\ FewLeft'
        /\ NegativeExact'
        /\ OneLeader'
        /\ OldImageStopped'
    BY <1>0, <1>17
    DEF ExitRelease, Counts, OptNotReached, ListExact, ExitStateExact, ExecTaskExact,
        OthersDoomed, NotifyCountExact, Awaited, FewLeft, NegativeExact, OneLeader,
        OldImageStopped
  <2>2. NotifyCountExact'
    <3>1. SUFFICES ASSUME NEW e \in Threads, pc'[e] \in {"dt_loop", "dt_sleep"}
                   PROVE  notifyCount' = Cardinality(Awaited(e))'
      BY DEF NotifyCountExact
    <3>2. e # t /\ pc[e] \in {"dt_loop", "dt_sleep"} /\ e \in group /\ t \in group
      BY <1>17, <3>1 DEF ExitRelease, ListExact
    <3>3. ~IsLeader(t) /\ groupLeader[e] = groupLeader[t]
      BY <1>17, <3>2 DEF ExitRelease, ExitStateExact, OneLeader
    <3>4. group' = group \ {t}
      BY <1>17, <3>2, <3>3 DEF ExitRelease, ExitStateExact
    <3>5. t \in Awaited(e) /\ Awaited(e)' = Awaited(e) \ {t}
      BY <1>17, <3>2, <3>3, <3>4 DEF ExitRelease, Awaited
    <3>6. /\ Cardinality(Awaited(e)') = Cardinality(Awaited(e)) - 1
          /\ Cardinality(Awaited(e)') \in Nat
      <4>1. IsFiniteSet(Awaited(e)) /\ IsFiniteSet(Awaited(e)')
        BY <3>5, AwaitedNat, FS_Subset
      <4> QED BY <3>5, <4>1, FS_RemoveElement, FS_CardinalityType
    <3>7. notifyCount = Cardinality(Awaited(e)) /\ Cardinality(Awaited(e)) \in Nat
      BY <3>2, AwaitedNat DEF NotifyCountExact
    <3>8. Counts(t)
      BY <3>3, <3>6, <3>7 DEF Counts
    <3> QED BY <1>17, <3>6, <3>7, <3>8 DEF ExitRelease
  <2> QED BY <1>0, <2>1, <2>2
<1>18. ASSUME NEW t \in Threads, Exec(t) PROVE OriginalInv'
  BY <1>0, <1>18
  DEF Exec, OptNotReached, ListExact, ExitStateExact, ExecTaskExact,
      OthersDoomed, NotifyCountExact, Awaited, FewLeft, NegativeExact, OneLeader,
      OldImageStopped
<1>19. ASSUME NEW t \in Threads, SysExit(t) PROVE OriginalInv'
  BY <1>0, <1>19
  DEF SysExit, OptNotReached, ListExact, ExitStateExact, ExecTaskExact,
      OthersDoomed, NotifyCountExact, Awaited, FewLeft, NegativeExact, OneLeader,
      OldImageStopped
<1>20. ASSUME NEW t \in Threads, ExitGroup(t) PROVE OriginalInv'
  BY <1>0, <1>20
  DEF ExitGroup, DoGroupExit, ZapKilled, OptNotReached, ListExact, ExitStateExact, ExecTaskExact,
      OthersDoomed, NotifyCountExact, Awaited, FewLeft, NegativeExact, OneLeader,
      OldImageStopped
<1>21. ASSUME NEW t \in Threads, NEW u \in Threads, Clone(t, u) PROVE OriginalInv'
  BY <1>0, <1>21
  DEF Clone, OptNotReached, ListExact, ExitStateExact, ExecTaskExact,
      OthersDoomed, NotifyCountExact, Awaited, FewLeft, NegativeExact, OneLeader,
      OldImageStopped
<1>22. ASSUME NEW t \in Threads, ParentReaps(t) PROVE OriginalInv'
  BY <1>0, <1>22
  DEF ParentReaps, OptNotReached, ListExact, ExitStateExact, ExecTaskExact,
      OthersDoomed, NotifyCountExact, Awaited, FewLeft, NegativeExact, OneLeader,
      OldImageStopped
<1>23. CASE KillProcess
  BY <1>0, <1>23
  DEF KillProcess, SigKill, OptNotReached, ListExact, ExitStateExact, ExecTaskExact,
      OthersDoomed, NotifyCountExact, Awaited, FewLeft, NegativeExact, OneLeader,
      OldImageStopped
<1>24. CASE UNCHANGED vars
  BY <1>24
  DEF vars, OptNotReached, ListExact, ExitStateExact, ExecTaskExact,
      OthersDoomed, NotifyCountExact, Awaited, FewLeft, NegativeExact, OneLeader,
      OldImageStopped
<1> QED
  BY <1>1, <1>2, <1>3, <1>4, <1>5, <1>6, <1>7, <1>8, <1>9, <1>10, <1>11,
     <1>12, <1>13, <1>14, <1>15, <1>16, <1>17, <1>18, <1>19, <1>20, <1>21,
     <1>22, <1>23, <1>24 DEF Next, Kernel, Program, DeThread, DoExit
\* OriginalInv holds of every reachable state of the original scheme.
THEOREM OriginalInvariant == OptOn = FALSE => (Spec => []OriginalInv)
<1> SUFFICES ASSUME OptOn = FALSE PROVE Spec => []OriginalInv
  OBVIOUS
<1>1. Init => TypeOK
  BY TypeInit
<1>2. Init => OriginalInv
  <2> SUFFICES ASSUME Init PROVE OriginalInv
    OBVIOUS
  <2> USE ConstantsAssumption DEF Init
  <2>1. OptNotReached /\ ListExact /\ ExecTaskExact /\ OneLeader
    BY DEF OptNotReached, ListExact, ExecTaskExact, ExecTaskPc, OneLeader
  <2>2. ExitStateExact /\ FewLeft /\ NegativeExact /\ OthersDoomed
    BY DEF ExitStateExact, DeThreadPc, FewLeft, NegativeExact, OthersDoomed
  <2>3. NotifyCountExact /\ OldImageStopped
    BY DEF NotifyCountExact, OldImageStopped, InProgram
  <2> QED BY <1>1, <2>1, <2>2, <2>3 DEF OriginalInv
<1>3. OriginalInv /\ [Next]_vars => OriginalInv'
  BY OriginalStep
<1> QED BY <1>2, <1>3, PTL DEF Spec

\* Past the first wait loop only the caller and the leader are left.
LEMMA OriginalOthersExited == OriginalInv => AllOthersExited
<1> SUFFICES ASSUME OriginalInv, NEW t \in Threads, PastWait(t),
                    NEW u \in group \ {t, groupLeader[t]}
             PROVE  exitState[u] # "alive"
  BY DEF AllOthersExited
<1> QED BY DEF OriginalInv, FewLeft, PastWait, ExitStateExact, TypeOK, IsLeader

\* In the original scheme the count of an exec() is exact, everybody else has
\* exited when its first wait is over, one thread owns group_exec_task, no
\* thread of an old program survives, all agree on the leader, and neither a
\* NULL pointer nor a BUG_ON() is met (de_thread, do_exit).
THEOREM OriginalSafe ==
  OptOn = FALSE =>
    (Spec => [](/\ NotifyCountExact /\ AllOthersExited /\ ExecTaskOwner
                /\ OldImageStopped /\ OneLeader /\ NoNullDeref /\ NoBugOn))
<1>1. OriginalInv => AllOthersExited
  BY OriginalOthersExited
<1>2. OriginalInv => ExecTaskOwner /\ NoNullDeref /\ NoBugOn
  BY DEF OriginalInv, ExecTaskExact, ExecTaskPc, ExecTaskOwner, OptNotReached,
         NoNullDeref, NoBugOn
<1>3. OriginalInv => NotifyCountExact /\ OldImageStopped /\ OneLeader
  BY DEF OriginalInv
<1> QED BY <1>1, <1>2, <1>3, OriginalInvariant, PTL

\* In the original scheme exec() is atomic for the program: the caller is the
\* only thread of it when the program is replaced, and no thread comes back
\* (the refinement of ExecAtomic by InProgram and imageNow).
THEOREM OriginalIsAtomic == OptOn = FALSE => (Spec => ImplementsExecAtomic)
<1> SUFFICES ASSUME OptOn = FALSE PROVE Spec => Atomic!Spec
  BY DEF ImplementsExecAtomic
<1>1. Init => Atomic!Init
  BY DEF Init, Atomic!Init, InProgram
<1>2. ASSUME OriginalInv, OriginalInv', [Next]_vars
      PROVE  [Atomic!Next]_<<InProgram, imageNow>>
  <2> USE <1>2 DEF OriginalInv, TypeOK, Goto, DeThreadPc, InProgram
  <2>1. ASSUME NEW t \in Threads, GetSignal(t) \/ ExitGroup(t) \/ SysExit(t)
        PROVE  Atomic!Leave(t)
    BY <2>1 DEF GetSignal, ExitGroup, SysExit, DoGroupExit, Atomic!Leave, progVars
  <2>2. ASSUME NEW t \in Threads, NewImage(t) PROVE Atomic!Replace(t)
    <3>1. InProgram = {t}
      BY <2>2 DEF NewImage, FewLeft, ListExact
    <3>2. InProgram' = {t} /\ imageNow' = imageNow + 1
      BY <2>2, <3>1 DEF NewImage
    <3> QED BY <3>1, <3>2 DEF Atomic!Replace
  <2>3. ASSUME NEW t \in Threads, NEW u \in Threads, Clone(t, u)
        PROVE  Atomic!Create(u)
    BY <2>3 DEF Clone, Atomic!Create
  <2>4. ASSUME NEW t \in Threads,
               \/ DeThreadZap(t) \/ DeThreadLoop(t) \/ DeThreadWake(t)
               \/ DeThreadLead(t) \/ DeThreadRelease(t) \/ DeThreadFinal(t)
               \/ DeThreadClear(t) \/ DeThreadKilled(t) \/ Exec(t)
        PROVE  UNCHANGED <<InProgram, imageNow>>
    BY <2>4 DEF DeThreadZap, DeThreadLoop, DeThreadWake, DeThreadLead,
      DeThreadRelease, DeThreadFinal, DeThreadClear, DeThreadKilled, Exec,
      OptNotReached, progVars
  <2>5. ASSUME NEW t \in Threads, DoExit(t) \/ ParentReaps(t)
        PROVE  UNCHANGED <<InProgram, imageNow>>
    BY <2>5 DEF DoExit, ExitCheck, OptDeref, OptLock, OptLinger, ExitBegin,
      ExitNotify, ExitRelease, ParentReaps, ExitStateExact, progVars
  <2>6. CASE KillProcess \/ UNCHANGED vars
    BY <2>6 DEF KillProcess, vars, progVars
  <2> QED
    BY <2>1, <2>2, <2>3, <2>4, <2>5, <2>6
    DEF Next, Kernel, Program, DeThread, Atomic!Next
<1> QED BY <1>1, <1>2, OriginalInvariant, PTL DEF Spec, Atomic!Spec
-----------------------------------------------------------------------------
(* The losers.  A group exit leaves no thread of the program without a       *)
(* pending SIGKILL: the one that starts it kills the others, and the one     *)
(* that finds quick_threads at 1 is the last.                                *)

Quick == {t \in group : pc[t] \notin {"exit_notify", "exit_release", "zombie"}}
QuickExact == quickThreads = Cardinality(Quick)
GroupDoomed == groupExit => \A u \in InProgram : pendingKill[u]

\* quick_threads counts the threads that have not passed
\* synchronize_group_exit().
LEMMA QuickStep ==
  ASSUME OptOn = FALSE, OriginalInv, QuickExact, [Next]_vars
  PROVE  QuickExact'
<1>1. IsFiniteSet(Quick) /\ Cardinality(Quick) \in Nat
  <2>1. IsFiniteSet(Threads) /\ Quick \subseteq Threads
    BY ConstantsAssumption DEF Quick, OriginalInv, TypeOK
  <2> QED BY <2>1, FS_Subset, FS_CardinalityType
<1>2. CASE Quick' = Quick /\ UNCHANGED quickThreads
  BY <1>2 DEF QuickExact
<1>0. OriginalInv'
  BY OriginalStep
<1> USE DEF OriginalInv, TypeOK, Goto, DeThreadPc, ExitPc, IsLeader, Alone, taskVars,
            sigVars, progVars
<1>3. ASSUME NEW t \in Threads, GetSignal(t) \/ DeThread(t)
      PROVE  Quick' = Quick /\ UNCHANGED quickThreads
  BY <1>3 DEF GetSignal, DoGroupExit, DeThread, DeThreadZap, DeThreadLoop,
    DeThreadWake, DeThreadLead, DeThreadRelease, DeThreadFinal, DeThreadClear,
    DeThreadKilled, NewImage, Quick
<1>4. ASSUME NEW t \in Threads,
             \/ ExitCheck(t) \/ OptDeref(t) \/ OptLock(t) \/ OptLinger(t)
             \/ ExitNotify(t) \/ ExitRelease(t)
      PROVE  Quick' = Quick /\ UNCHANGED quickThreads
  <2>1. CASE ExitCheck(t) \/ OptDeref(t) \/ OptLock(t) \/ OptLinger(t)
    BY <2>1 DEF ExitCheck, EarlyWake, OptDeref, OptLock, OptLinger, OptNotReached, Quick
  <2>2. CASE ExitNotify(t)
    <3>1. pc'[t] # "null_deref"
      BY <1>0, <2>2 DEF OptNotReached
    <3> QED BY <2>2, <3>1 DEF ExitNotify, Quick
  <2>3. CASE ExitRelease(t)
    <3>1. \A u \in group' : u \in group /\ u # t /\ pc'[u] = pc[u]
      BY <2>3 DEF ExitRelease
    <3>2. \A u \in group \ group' : pc[u] \in {"exit_release", "zombie"}
      <4>1. group \ group' \subseteq {t, groupLeader[t]}
        BY <2>3 DEF ExitRelease
      <4>2. groupLeader[t] \in group \ group' =>
              groupLeader[t] = t \/ exitState[groupLeader[t]] = "zombie"
        BY <2>3 DEF ExitRelease
      <4>3. \A u \in group : exitState[u] = "zombie" =>
              pc[u] \in {"exit_release", "zombie"}
        BY DEF ListExact, ExitStateExact, OptNotReached, Pc
      <4> QED BY <2>3, <4>1, <4>2, <4>3 DEF ExitRelease
    <3> QED BY <2>3, <3>1, <3>2 DEF ExitRelease, Quick
  <2> QED BY <1>4, <2>1, <2>2, <2>3
<1>5. ASSUME NEW t \in Threads, ExitBegin(t) PROVE QuickExact'
  <2>1. t \in Quick /\ Quick' = Quick \ {t}
    BY <1>5 DEF ExitBegin, ListExact, Quick
  <2>2. Cardinality(Quick') = Cardinality(Quick) - 1
    BY <1>1, <2>1, FS_RemoveElement
  <2> QED BY <1>5, <2>2 DEF ExitBegin, QuickExact
<1>6. ASSUME NEW t \in Threads, Exec(t) \/ SysExit(t) \/ ExitGroup(t)
      PROVE  Quick' = Quick /\ UNCHANGED quickThreads
  BY <1>6 DEF Exec, SysExit, ExitGroup, DoGroupExit, Quick
<1>7. ASSUME NEW t \in Threads, NEW u \in Threads, Clone(t, u) PROVE QuickExact'
  <2>1. u \notin Quick /\ Quick' = Quick \cup {u}
    BY <1>7 DEF Clone, ListExact, Quick
  <2>2. Cardinality(Quick') = Cardinality(Quick) + 1
    BY <1>1, <2>1, FS_AddElement
  <2> QED BY <1>7, <2>2 DEF Clone, QuickExact
<1>8. ASSUME NEW t \in Threads, ParentReaps(t)
      PROVE  Quick' = Quick /\ UNCHANGED quickThreads
  BY <1>8 DEF ParentReaps, Quick
<1>9. CASE KillProcess \/ UNCHANGED vars
  <2>1. Quick' = Quick /\ UNCHANGED quickThreads
    BY <1>9 DEF KillProcess, vars, Quick
  <2> QED BY <1>2, <2>1
<1> QED
  BY <1>2, <1>3, <1>4, <1>5, <1>6, <1>7, <1>8, <1>9 DEF Next, Kernel, Program, DoExit

LEMMA DoomedStep ==
  ASSUME OptOn = FALSE, OriginalInv, QuickExact, GroupDoomed, [Next]_vars
  PROVE  GroupDoomed'
<1> USE DEF OriginalInv, TypeOK, Goto, DeThreadPc, ExitPc, InProgram, taskVars, sigVars,
            progVars, GroupDoomed
<1>1. ASSUME NEW t \in Threads, GetSignal(t) \/ ExitGroup(t) PROVE GroupDoomed'
  <2> SUFFICES ASSUME groupExit', NEW u \in InProgram' PROVE pendingKill'[u]
    OBVIOUS
  <2>1. u \in InProgram /\ u # t /\ u \in group /\ exitState[u] = "alive"
    BY <1>1 DEF GetSignal, ExitGroup, DoGroupExit, ListExact, ExitStateExact
  <2>2. pendingKill'[u] = (pendingKill[u] \/
          u \in (IF groupExit \/ groupExecTask # NoTask THEN {} ELSE ZapKilled(t)))
    BY <1>1, <2>1 DEF GetSignal, ExitGroup, DoGroupExit
  <2>3. CASE groupExit
    BY <2>1, <2>2, <2>3
  <2>4. CASE ~groupExit
    <3>1. groupExecTask = NoTask
      BY <1>1, <2>4 DEF GetSignal, ExitGroup, DoGroupExit
    <3> QED BY <2>1, <2>2, <2>4, <3>1 DEF ZapKilled
  <2> QED BY <2>3, <2>4
<1>2. ASSUME NEW t \in Threads, DeThread(t) PROVE GroupDoomed'
  BY <1>2, ZenonT(30) DEF DeThread, DeThreadZap, SigKill, GroupAction, DeThreadLoop, DeThreadWake,
    DeThreadLead, DeThreadRelease, DeThreadFinal, DeThreadClear, DeThreadKilled,
    NewImage, OptNotReached
<1>3. ASSUME NEW t \in Threads, DoExit(t), ~ExitBegin(t) PROVE GroupDoomed'
  <2>1. ~OptDeref(t) /\ ~OptLock(t) /\ ~OptLinger(t)
    BY DEF OptDeref, OptLock, OptLinger, OptNotReached
  <2>2. CASE ExitCheck(t)
    <3>1. InProgram' \subseteq InProgram /\ UNCHANGED <<pendingKill, groupExit>>
      BY <2>2 DEF ExitCheck
    <3> QED BY <3>1
  <2>3. CASE ExitNotify(t)
    <3>1. InProgram' \subseteq InProgram /\ UNCHANGED <<pendingKill, groupExit>>
      BY <2>3 DEF ExitNotify
    <3> QED BY <3>1
  <2>4. CASE ExitRelease(t)
    <3>1. InProgram' \subseteq InProgram /\ UNCHANGED <<pendingKill, groupExit>>
      BY <2>4 DEF ExitRelease
    <3> QED BY <3>1
  <2> QED BY <1>3, <2>1, <2>2, <2>3, <2>4 DEF DoExit
<1>4. ASSUME NEW t \in Threads, ExitBegin(t) PROVE GroupDoomed'
  <2>1. CASE quickThreads = 1
    <3>1. InProgram \cup {t} \subseteq Quick
      BY <1>4 DEF ExitBegin, ListExact, Quick
    <3>2. IsFiniteSet(Quick) /\ Cardinality(Quick) = 1
      <4>1. IsFiniteSet(Threads) /\ Quick \subseteq Threads
        BY ConstantsAssumption DEF Quick
      <4> QED BY <2>1, <4>1, FS_Subset DEF QuickExact
    <3>3. PICK x : Quick = {x}
      BY <3>2, FS_Singleton
    <3>4. InProgram = {}
      BY <1>4, <3>1, <3>3 DEF ExitBegin
    <3> QED BY <1>4, <3>4 DEF ExitBegin
  <2>2. CASE quickThreads # 1
    BY <1>4, <2>2 DEF ExitBegin
  <2> QED BY <2>1, <2>2
<1>5. ASSUME NEW t \in Threads,
             \/ Exec(t) \/ SysExit(t) \/ ParentReaps(t) \/ \E u \in Threads : Clone(t, u)
      PROVE  GroupDoomed'
  <2>1. CASE Exec(t) \/ SysExit(t) \/ ParentReaps(t)
    <3>1. InProgram' \subseteq InProgram /\ UNCHANGED <<pendingKill, groupExit>>
      BY <2>1 DEF Exec, SysExit, ParentReaps
    <3> QED BY <3>1
  <2>2. ASSUME NEW u \in Threads, Clone(t, u) PROVE GroupDoomed'
    <3>1. t \in InProgram /\ ~pendingKill[t] /\ groupExit' = groupExit
      BY <2>2 DEF Clone
    <3> QED BY <3>1
  <2> QED BY <1>5, <2>1, <2>2
<1>6. CASE KillProcess \/ UNCHANGED vars
  BY <1>6 DEF KillProcess, SigKill, ListExact, vars
<1> QED BY <1>1, <1>2, <1>3, <1>4, <1>5, <1>6 DEF Next, Kernel, Program

\* Of several callers of exec() in the original scheme one wins: everybody
\* else has exited when its wait is over, and a caller that is refused has its
\* fatal signal pending (the comments of de_thread()).
THEOREM OriginalWinnerAlone == OptOn = FALSE => (Spec => WinnerAlone)
<1> SUFFICES ASSUME OptOn = FALSE
             PROVE  Spec => [][AllOthersExited' /\ \A t \in Threads : LoserDies(t)]_vars
  BY DEF WinnerAlone
<1>1. Init => QuickExact /\ GroupDoomed
  <2> SUFFICES ASSUME Init PROVE QuickExact /\ GroupDoomed
    OBVIOUS
  <2>1. Quick = InitThreads
    BY ConstantsAssumption DEF Init, Quick
  <2> QED BY <2>1 DEF Init, QuickExact, GroupDoomed
<1>2. OriginalInv /\ QuickExact /\ GroupDoomed /\ [Next]_vars
        => QuickExact' /\ GroupDoomed'
  BY QuickStep, DoomedStep
<1>3. ASSUME OriginalInv, GroupDoomed, [Next]_vars, NEW t \in Threads
      PROVE  LoserDies(t)
  <2> SUFFICES ASSUME pc[t] = "dt_zap", pc'[t] = "sig_return" PROVE pendingKill[t]
    BY DEF LoserDies
  <2>1. GroupAction
    <3> USE DEF OriginalInv, TypeOK, Goto
    <3>1. ASSUME NEW x \in Threads, Kernel(x), ~DeThreadZap(x) PROVE FALSE
      BY <1>3, <3>1 DEF Kernel, GetSignal, DoGroupExit, DeThread, DeThreadLoop, DeThreadWake,
        DeThreadLead, DeThreadRelease, DeThreadFinal, DeThreadClear, DeThreadKilled,
        NewImage, DoExit, ExitCheck, OptDeref, OptLock, OptLinger, ExitBegin,
        ExitNotify, ExitRelease
    <3>2. ASSUME NEW x \in Threads, Program(x) \/ ParentReaps(x) PROVE FALSE
      BY <1>3, <3>2 DEF Program, Exec, SysExit, ExitGroup, DoGroupExit, Clone, ParentReaps
    <3>3. ~KillProcess /\ ~UNCHANGED vars
      BY DEF KillProcess, vars
    <3>4. PICK x \in Threads : DeThreadZap(x)
      BY <1>3, <3>1, <3>2, <3>3 DEF Next
    <3>5. x = t
      BY <1>3, <3>4 DEF DeThreadZap
    <3> QED BY <1>3, <3>4, <3>5 DEF DeThreadZap
  <2>2. t \in InProgram /\ groupExecTask # t
    BY <1>3 DEF OriginalInv, InProgram, DeThreadPc, ExecTaskExact, ExecTaskPc
  <2> QED BY <1>3, <2>1, <2>2 DEF GroupAction, GroupDoomed, OriginalInv, OthersDoomed
<1>4. OriginalInv => AllOthersExited
  BY OriginalOthersExited
<1>5. OriginalInv /\ OriginalInv' /\ GroupDoomed /\ [Next]_vars
        => [AllOthersExited' /\ \A t \in Threads : LoserDies(t)]_vars
  <2>1. OriginalInv' => AllOthersExited'
    BY <1>4, PTL
  <2> QED BY <1>3, <2>1
<1> QED BY <1>1, <1>2, <1>5, OriginalInvariant, PTL DEF Spec

-----------------------------------------------------------------------------
(***************************************************************************)
(* The optimised scheme (optimization_on = 1, the group is tracked) for    *)
(* every set of threads, when they leave only by exec() and group exits    *)
(* and because of signals, never by exit() of one thread: OptInv is        *)
(* inductive.  The runs exec_opt_hang and exec_opt_crash show what is not  *)
(* true of this scheme, the former what an exit() of one thread does.      *)
(*                                                                         *)
(* The argument.  ExitCause: whoever exits does so because of a group      *)
(* exit, after which no exec() begins, or of the exec() that waits for it; *)
(* so each thread that was counted goes through the early-wake block, and  *)
(* gives its count back there, once (ExitingExact).  What lingers of an    *)
(* earlier exec() has PF_EXITING set and is not counted again.  KillCause: *)
(* an exec() that is itself killed was killed by a group exit, so that its *)
(* leftovers meet no later one.                                            *)
(***************************************************************************)

\* How far do_exit() is; the leader does not enter the early-wake block.
OptExitState ==
  \A t \in Threads :
    /\ pc[t] \in DeThreadPc \cup {"unborn", "user", "sig_return", "exit_check",
                                  "opt_deref", "opt_lock", "opt_linger",
                                  "exit_begin", "exit_notify"}
         => exitState[t] = "alive"
    /\ pc[t] = "zombie"
         => exitState[t] = IF IsLeader(t) THEN "zombie" ELSE "dead"
    /\ pc[t] = "exit_release" => (IsLeader(t) => Alone(t))
    /\ pc[t] \in {"opt_deref", "opt_lock", "opt_linger", "null_deref"} => ~IsLeader(t)

\* PF_EXITING is set in the early-wake block, or else by exit_signals().
ExitingExact ==
  \A t \in Threads :
    /\ pfExiting[t] => pc[t] \in {"opt_linger", "exit_begin", "exit_notify",
                                  "exit_release", "zombie", "gone", "null_deref"}
    /\ pc[t] \in {"opt_linger", "exit_notify", "exit_release", "zombie"}
         => pfExiting[t]

\* Past the first wait loop whoever else is left, the leader apart, is
\* exiting; past the second the caller is the leader.
OptFewLeft ==
  \A t \in Threads :
    /\ PastWait(t) => \A u \in group \ {t, groupLeader[t]} : pfExiting[u]
    /\ pc[t] \in {"dt_lead", "dt_lsleep"} => ~IsLeader(t)
    /\ pc[t] \in {"dt_release", "dt_final", "dt_clear", "dt_done"} => IsLeader(t)

\* A thread of the program is killed by a group exit or by the exec() of
\* another thread.
KillCause ==
  \A u \in Threads :
    /\ u \in InProgram /\ pendingKill[u]
         => groupExit \/ groupExecTask \notin {NoTask, u}
    /\ pc[u] = "dt_killed" => pendingKill[u]
    /\ pc[u] = "unborn" => ~pendingKill[u]

\* A thread exits because of a group exit or an exec(); one that passes the
\* early-wake block by does so when no exec() is under way and none can begin.
ExitCause ==
  \A u \in group :
    /\ pc[u] \in {"exit_check", "opt_deref", "opt_lock", "exit_begin"} /\ ~pfExiting[u]
         => groupExit \/ groupExecTask # NoTask
    /\ IsLeader(u) /\ pfExiting[u] => groupExit \/ groupExecTask # NoTask
    /\ pc[u] \in {"exit_begin", "null_deref"} /\ ~pfExiting[u] /\ ~IsLeader(u)
         => groupExit /\ groupExecTask = NoTask

OptInv ==
  /\ TypeOK
  /\ NoBugOn
  /\ ListExact
  /\ OptExitState
  /\ ExitingExact
  /\ ExecTaskExact
  /\ OthersDoomed
  /\ KillCause
  /\ ExitCause
  /\ NotifyCountExact
  /\ OptFewLeft
  /\ NegativeExact
  /\ OneLeader
  /\ OldImageStopped

Optimised == OptOn = TRUE /\ Tracked = TRUE /\ "sys_exit" \notin Env

-----------------------------------------------------------------------------
\* The sets that are counted are finite.
LEMMA CountedFinite ==
  ASSUME TypeOK, NEW e \in Threads
  PROVE  /\ IsFiniteSet(group) /\ IsFiniteSet(ZapCounted(e))
         /\ Cardinality(ZapCounted(e)) \in Nat
         /\ IsFiniteSet(Awaited(e)) /\ Cardinality(Awaited(e)) \in Nat
<1>1. /\ IsFiniteSet(group) /\ Awaited(e) \subseteq group
      /\ ZapCounted(e) \subseteq group
  BY ConstantsAssumption, FS_Subset DEF Awaited, ZapCounted, TypeOK
<1>2. IsFiniteSet(Awaited(e)) /\ IsFiniteSet(ZapCounted(e))
  BY <1>1, FS_Subset
<1> QED BY <1>1, <1>2, FS_CardinalityType

\* With a leader that does not exit, de_thread() stores the number of the
\* threads that have yet to pass the early-wake block.
LEMMA OptWaitedFor ==
  ASSUME TypeOK, Optimised, NEW e \in group, groupLeader[e] \in group,
         ~IsLeader(e) => ~pfExiting[groupLeader[e]]
  PROVE  WaitedFor(e) = Cardinality(Awaited(e))
<1>1. e \in Threads
  BY DEF TypeOK
<1>2. /\ IsFiniteSet(ZapCounted(e)) /\ Cardinality(ZapCounted(e)) \in Nat
  BY <1>1, CountedFinite
<1>3. CASE IsLeader(e)
  <2>1. Awaited(e) = ZapCounted(e)
    BY <1>3 DEF Awaited, ZapCounted, IsLeader, Optimised
  <2> QED BY <1>2, <1>3, <2>1 DEF WaitedFor
<1>4. CASE ~IsLeader(e)
  <2>1. /\ Awaited(e) = ZapCounted(e) \ {groupLeader[e]}
        /\ groupLeader[e] \in ZapCounted(e)
    BY <1>4 DEF Awaited, ZapCounted, IsLeader, Optimised
  <2>2. Cardinality(Awaited(e)) = Cardinality(ZapCounted(e)) - 1
    BY <1>2, <2>1, FS_RemoveElement
  <2> QED BY <1>2, <1>4, <2>2 DEF WaitedFor
<1> QED BY <1>3, <1>4

\* Every step of the kernel, the program and the environment preserves
\* OptInv.
LEMMA OptStep ==
  ASSUME Optimised, OptInv, [Next]_vars
  PROVE  OptInv'
<1> USE ConstantsAssumption
    DEF Optimised, OptInv, TypeOK, Goto, Pc, DeThreadPc, ExitPc, ExecTaskPc,
        InProgram, IsLeader, Alone, PastWait, taskVars, sigVars, progVars
<1>0. TypeOK'
  BY TypeStep
<1>1. ASSUME NEW t \in Threads, GetSignal(t) PROVE OptInv'
  BY <1>0, <1>1 DEF GetSignal, DoGroupExit, ZapKilled, NoBugOn, ListExact,
    OptExitState, ExitingExact, ExecTaskExact, OthersDoomed, KillCause,
    ExitCause, NotifyCountExact, OptFewLeft, NegativeExact, OneLeader,
    OldImageStopped, Awaited
<1>2. ASSUME NEW t \in Threads, DeThreadZap(t) PROVE OptInv'
  <2>1. NoBugOn' /\ ListExact' /\ OptExitState' /\ ExitingExact' /\ OneLeader'
    BY <1>0, <1>2 DEF DeThreadZap, GroupAction, NoBugOn, ListExact, OptExitState,
      ExitingExact, OneLeader
  <2>2. /\ ExecTaskExact' /\ OthersDoomed' /\ KillCause' /\ ExitCause'
        /\ OldImageStopped' /\ OptFewLeft'
    BY <1>0, <1>2 DEF DeThreadZap, SigKill, ZapKilled, GroupAction, ListExact,
      OptExitState, ExitingExact, ExecTaskExact, OthersDoomed, KillCause, ExitCause,
      OldImageStopped, OptFewLeft
  <2>3. Awaited(t)' = Awaited(t)
    BY <1>2 DEF DeThreadZap, Awaited
  <2>4. CASE GroupAction
    BY <1>0, <1>2, <2>1, <2>2, <2>4 DEF DeThreadZap, NotifyCountExact, Awaited,
      NegativeExact
  <2>5. CASE ~GroupAction
    <3>1. t \in group /\ groupLeader[t] \in group /\ IsLeader(groupLeader[t])
      BY <1>2 DEF DeThreadZap, ListExact, OneLeader
    <3>2. ~pfExiting[groupLeader[t]]
      BY <2>5, <3>1 DEF GroupAction, ExitCause
    <3>3. notifyCount' = Cardinality(Awaited(t)) /\ notifyCount' >= 0
      BY <1>2, <2>5, <3>1, <3>2, OptWaitedFor, CountedFinite DEF DeThreadZap
    <3>4. \A e \in Threads : pc'[e] \in {"dt_loop", "dt_sleep"} => e = t
      BY <1>2, <2>5 DEF DeThreadZap, GroupAction, ExecTaskExact
    <3>5. NotifyCountExact'
      BY <2>3, <3>3, <3>4 DEF NotifyCountExact
    <3>6. NegativeExact'
      BY <1>0, <3>3 DEF NegativeExact
    <3> QED BY <1>0, <2>1, <2>2, <3>5, <3>6
  <2> QED BY <2>4, <2>5
<1>3. ASSUME NEW t \in Threads, DeThreadLoop(t) PROVE OptInv'
  <2>1. /\ NoBugOn' /\ ListExact' /\ OptExitState' /\ ExitingExact' /\ OneLeader'
        /\ ExecTaskExact' /\ OthersDoomed' /\ KillCause' /\ ExitCause'
        /\ OldImageStopped' /\ NotifyCountExact' /\ NegativeExact'
    BY <1>0, <1>3 DEF DeThreadLoop, WaitOver, NoBugOn, ListExact, OptExitState,
      ExitingExact, OneLeader, ExecTaskExact, OthersDoomed, KillCause, ExitCause,
      OldImageStopped, NotifyCountExact, Awaited, NegativeExact
  <2>2. CASE ~WaitOver
    BY <1>0, <1>3, <2>1, <2>2 DEF DeThreadLoop, OptFewLeft
  <2>3. CASE WaitOver
    <3>1. Cardinality(Awaited(t)) = 0
      BY <1>3, <2>3 DEF DeThreadLoop, WaitOver, NotifyCountExact
    <3>2. Awaited(t) = {}
      BY <3>1, CountedFinite, FS_EmptySet
    <3>3. \A u \in group \ {t, groupLeader[t]} : pfExiting[u]
      BY <3>2 DEF Awaited
    <3> QED BY <1>0, <1>3, <2>1, <2>3, <3>3 DEF DeThreadLoop, OptFewLeft
  <2> QED BY <2>2, <2>3
<1>4. ASSUME NEW t \in Threads, DeThreadWake(t) PROVE OptInv'
  BY <1>0, <1>4 DEF DeThreadWake, NoBugOn, ListExact, OptExitState,
    ExitingExact, ExecTaskExact, OthersDoomed, KillCause, ExitCause,
    NotifyCountExact, OptFewLeft, NegativeExact, OneLeader,
    OldImageStopped, Awaited
<1>5. ASSUME NEW t \in Threads, DeThreadLead(t) PROVE OptInv'
  BY <1>0, <1>5 DEF DeThreadLead, Moved, NoBugOn, ListExact, OptExitState,
    ExitingExact, ExecTaskExact, OthersDoomed, KillCause, ExitCause,
    NotifyCountExact, OptFewLeft, NegativeExact, OneLeader,
    OldImageStopped, Awaited
<1>6. ASSUME NEW t \in Threads, DeThreadRelease(t) PROVE OptInv'
  BY <1>0, <1>6 DEF DeThreadRelease, NoBugOn, ListExact, OptExitState,
    ExitingExact, ExecTaskExact, OthersDoomed, KillCause, ExitCause,
    NotifyCountExact, OptFewLeft, NegativeExact, OneLeader,
    OldImageStopped, Awaited
<1>7. ASSUME NEW t \in Threads, DeThreadFinal(t) PROVE OptInv'
  BY <1>0, <1>7 DEF DeThreadFinal, NoBugOn, ListExact, OptExitState,
    ExitingExact, ExecTaskExact, OthersDoomed, KillCause, ExitCause,
    NotifyCountExact, OptFewLeft, NegativeExact, OneLeader,
    OldImageStopped, Awaited
<1>8. ASSUME NEW t \in Threads, DeThreadClear(t) PROVE OptInv'
  BY <1>0, <1>8 DEF DeThreadClear, NoBugOn, ListExact, OptExitState,
    ExitingExact, ExecTaskExact, OthersDoomed, KillCause, ExitCause,
    NotifyCountExact, OptFewLeft, NegativeExact, OneLeader,
    OldImageStopped, Awaited
<1>9. ASSUME NEW t \in Threads, DeThreadKilled(t) PROVE OptInv'
  BY <1>0, <1>9 DEF DeThreadKilled, NoBugOn, ListExact, OptExitState,
    ExitingExact, ExecTaskExact, OthersDoomed, KillCause, ExitCause,
    NotifyCountExact, OptFewLeft, NegativeExact, OneLeader,
    OldImageStopped, Awaited
<1>10. ASSUME NEW t \in Threads, NewImage(t) PROVE OptInv'
  BY <1>0, <1>10 DEF NewImage, NoBugOn, ListExact, OptExitState, ExitingExact,
    ExecTaskExact, OthersDoomed, KillCause, ExitCause, NotifyCountExact,
    OptFewLeft, NegativeExact, OneLeader, OldImageStopped, Awaited
<1>11. ASSUME NEW t \in Threads, ExitCheck(t) PROVE OptInv'
  BY <1>0, <1>11 DEF ExitCheck, EarlyWake, NoBugOn, ListExact, OptExitState,
    ExitingExact, ExecTaskExact, OthersDoomed, KillCause, ExitCause,
    NotifyCountExact, OptFewLeft, NegativeExact, OneLeader,
    OldImageStopped, Awaited
<1>12. ASSUME NEW t \in Threads, OptDeref(t) PROVE OptInv'
  BY <1>0, <1>12 DEF OptDeref, NoBugOn, ListExact, OptExitState, ExitingExact,
    ExecTaskExact, OthersDoomed, KillCause, ExitCause, NotifyCountExact,
    OptFewLeft, NegativeExact, OneLeader, OldImageStopped, Awaited
<1>13. ASSUME NEW t \in Threads, OptLock(t) PROVE OptInv'
  <2>1. NoBugOn' /\ ListExact' /\ OptExitState' /\ ExitingExact' /\ OneLeader'
    BY <1>0, <1>13 DEF OptLock, EarlyExiting, NoBugOn, ListExact, OptExitState,
      ExitingExact, OneLeader
  <2>2. /\ ExecTaskExact' /\ OthersDoomed' /\ KillCause' /\ ExitCause'
        /\ OldImageStopped' /\ OptFewLeft' /\ NegativeExact'
    BY <1>0, <1>13 DEF OptLock, EarlyExiting, ListExact, OptExitState, ExitingExact,
      ExecTaskExact, OthersDoomed, KillCause, ExitCause, OldImageStopped, OptFewLeft,
      NegativeExact
  <2>3. NotifyCountExact'
    <3> SUFFICES ASSUME NEW e \in Threads, pc'[e] \in {"dt_loop", "dt_sleep"}
                 PROVE  notifyCount' = Cardinality(Awaited(e)')
      BY DEF NotifyCountExact
    <3>1. /\ e # t /\ pc[e] \in {"dt_loop", "dt_sleep"} /\ e \in group /\ t \in group
          /\ ~IsLeader(t) /\ ~pfExiting[t] /\ groupLeader[e] = groupLeader[t]
      BY <1>13 DEF OptLock, ListExact, OptExitState, ExitingExact, OneLeader
    <3>2. t \in Awaited(e) /\ Awaited(e)' = Awaited(e) \ {t}
      BY <1>13, <3>1 DEF OptLock, EarlyExiting, Awaited
    <3>3. /\ IsFiniteSet(Awaited(e)) /\ Cardinality(Awaited(e)) \in Nat
          /\ notifyCount = Cardinality(Awaited(e))
      BY <3>1, CountedFinite DEF NotifyCountExact
    <3>4. /\ Cardinality(Awaited(e)') = Cardinality(Awaited(e)) - 1
          /\ Cardinality(Awaited(e)') \in Nat
      <4>1. IsFiniteSet(Awaited(e) \ {t})
        BY <3>3, FS_Subset
      <4> QED BY <3>2, <3>3, <4>1, FS_RemoveElement, FS_CardinalityType
    <3>5. notifyCount > 0
      BY <3>3, <3>4
    <3> QED BY <1>13, <3>3, <3>4, <3>5 DEF OptLock
  <2> QED BY <1>0, <2>1, <2>2, <2>3
<1>14. ASSUME NEW t \in Threads, OptLinger(t) PROVE OptInv'
  BY <1>0, <1>14 DEF OptLinger, NoBugOn, ListExact, OptExitState,
    ExitingExact, ExecTaskExact, OthersDoomed, KillCause, ExitCause,
    NotifyCountExact, OptFewLeft, NegativeExact, OneLeader,
    OldImageStopped, Awaited
<1>15. ASSUME NEW t \in Threads, ExitBegin(t) PROVE OptInv'
  BY <1>0, <1>15 DEF ExitBegin, NoBugOn, ListExact, OptExitState,
    ExitingExact, ExecTaskExact, OthersDoomed, KillCause, ExitCause,
    NotifyCountExact, OptFewLeft, NegativeExact, OneLeader,
    OldImageStopped, Awaited
<1>16. ASSUME NEW t \in Threads, ExitNotify(t) PROVE OptInv'
  BY <1>0, <1>16 DEF ExitNotify, ReapsItself, NoBugOn, ListExact,
    OptExitState, ExitingExact, ExecTaskExact, OthersDoomed, KillCause,
    ExitCause, NotifyCountExact, OptFewLeft, NegativeExact, OneLeader,
    OldImageStopped, Awaited
<1>17. ASSUME NEW t \in Threads, ExitRelease(t) PROVE OptInv'
  BY <1>0, <1>17 DEF ExitRelease, Counts, NoBugOn, ListExact, OptExitState,
    ExitingExact, ExecTaskExact, OthersDoomed, KillCause, ExitCause,
    NotifyCountExact, OptFewLeft, NegativeExact, OneLeader,
    OldImageStopped, Awaited
<1>18. ASSUME NEW t \in Threads, Exec(t) PROVE OptInv'
  BY <1>0, <1>18 DEF Exec, NoBugOn, ListExact, OptExitState, ExitingExact,
    ExecTaskExact, OthersDoomed, KillCause, ExitCause, NotifyCountExact,
    OptFewLeft, NegativeExact, OneLeader, OldImageStopped, Awaited
<1>19. ASSUME NEW t \in Threads, SysExit(t) PROVE OptInv'
  BY <1>0, <1>19 DEF SysExit, NoBugOn, ListExact, OptExitState, ExitingExact,
    ExecTaskExact, OthersDoomed, KillCause, ExitCause, NotifyCountExact,
    OptFewLeft, NegativeExact, OneLeader, OldImageStopped, Awaited
<1>20. ASSUME NEW t \in Threads, ExitGroup(t) PROVE OptInv'
  <2>1. /\ NoBugOn' /\ ListExact' /\ OptExitState' /\ ExitingExact' /\ OneLeader'
        /\ NotifyCountExact' /\ OptFewLeft' /\ NegativeExact'
    BY <1>0, <1>20 DEF ExitGroup, DoGroupExit, NoBugOn, ListExact, OptExitState,
      ExitingExact, OneLeader, NotifyCountExact, Awaited, OptFewLeft, NegativeExact
  <2>2. ExecTaskExact' /\ OthersDoomed' /\ OldImageStopped'
    BY <1>0, <1>20 DEF ExitGroup, DoGroupExit, ZapKilled, ListExact, ExecTaskExact,
      OthersDoomed, OldImageStopped
  <2>3. KillCause'
    BY <1>0, <1>20 DEF ExitGroup, DoGroupExit, ZapKilled, ListExact, KillCause
  <2>4. ExitCause'
    BY <1>0, <1>20 DEF ExitGroup, DoGroupExit, ExitingExact, ExecTaskExact, ExitCause
  <2> QED BY <1>0, <2>1, <2>2, <2>3, <2>4
<1>21. ASSUME NEW t \in Threads, NEW u \in Threads, Clone(t, u) PROVE OptInv'
  BY <1>0, <1>21 DEF Clone, NoBugOn, ListExact, OptExitState, ExitingExact,
    ExecTaskExact, OthersDoomed, KillCause, ExitCause, NotifyCountExact,
    OptFewLeft, NegativeExact, OneLeader, OldImageStopped, Awaited
<1>22. ASSUME NEW t \in Threads, ParentReaps(t) PROVE OptInv'
  BY <1>0, <1>22 DEF ParentReaps, NoBugOn, ListExact, OptExitState,
    ExitingExact, ExecTaskExact, OthersDoomed, KillCause, ExitCause,
    NotifyCountExact, OptFewLeft, NegativeExact, OneLeader,
    OldImageStopped, Awaited
<1>23. CASE KillProcess
  BY <1>0, <1>23 DEF KillProcess, SigKill, NoBugOn, ListExact, OptExitState,
    ExitingExact, ExecTaskExact, OthersDoomed, KillCause, ExitCause,
    NotifyCountExact, OptFewLeft, NegativeExact, OneLeader,
    OldImageStopped, Awaited
<1>24. CASE UNCHANGED vars
  BY <1>0, <1>24 DEF vars, NoBugOn, ListExact, OptExitState, ExitingExact,
    ExecTaskExact, OthersDoomed, KillCause, ExitCause, NotifyCountExact,
    OptFewLeft, NegativeExact, OneLeader, OldImageStopped, Awaited
<1> QED
  BY <1>1, <1>2, <1>3, <1>4, <1>5, <1>6, <1>7, <1>8, <1>9, <1>10, <1>11,
     <1>12, <1>13, <1>14, <1>15, <1>16, <1>17, <1>18, <1>19, <1>20, <1>21,
     <1>22, <1>23, <1>24
     DEF Next, Kernel, Program, DeThread, DoExit

\* OptInv holds of every reachable state of the optimised scheme.
THEOREM OptimisedInvariant == Optimised => (Spec => []OptInv)
<1> SUFFICES ASSUME Optimised PROVE Spec => []OptInv
  OBVIOUS
<1>1. Init => OptInv
  <2> SUFFICES ASSUME Init PROVE OptInv
    OBVIOUS
  <2> USE ConstantsAssumption DEF Init
  <2>1. TypeOK
    BY TypeInit
  <2>2. NoBugOn /\ ListExact /\ ExecTaskExact /\ OneLeader /\ ExitingExact
    BY DEF NoBugOn, ListExact, ExecTaskExact, ExecTaskPc, OneLeader, ExitingExact
  <2>3. OptExitState /\ OptFewLeft /\ NegativeExact /\ OthersDoomed
    BY DEF OptExitState, DeThreadPc, OptFewLeft, PastWait, NegativeExact, OthersDoomed
  <2>4. NotifyCountExact /\ OldImageStopped /\ KillCause /\ ExitCause
    BY DEF NotifyCountExact, OldImageStopped, InProgram, KillCause, ExitCause
  <2> QED BY <2>1, <2>2, <2>3, <2>4 DEF OptInv
<1>2. OptInv /\ [Next]_vars => OptInv'
  BY OptStep
<1> QED BY <1>1, <1>2, PTL DEF Spec

\* The optimised exec() counts exactly: while it waits, notify_count is the
\* number of the threads that have yet to pass the early-wake block
\* (de_thread, zap_other_threads, do_exit).
THEOREM OptimisedCountExact == Optimised => (Spec => []NotifyCountExact)
<1>1. OptInv => NotifyCountExact
  BY DEF OptInv
<1> QED BY <1>1, OptimisedInvariant, PTL

\* When an exec() of the optimised scheme has succeeded no thread of the old
\* program is in it any more, all threads agree on the leader, and no BUG_ON()
\* has fired (de_thread, begin_new_exec).
THEOREM OptimisedExecSound == Optimised => (Spec => []ExecSound)
<1>1. OptInv => ExecSound
  BY DEF OptInv, ExecSound
<1> QED BY <1>1, OptimisedInvariant, PTL

\* Although the threads it has killed may linger, exec() of the optimised
\* scheme is atomic for the program, too (the refinement of ExecAtomic).
THEOREM OptimisedIsAtomic == Optimised => (Spec => ImplementsExecAtomic)
<1> SUFFICES ASSUME Optimised PROVE Spec => Atomic!Spec
  BY DEF ImplementsExecAtomic
<1>1. Init => Atomic!Init
  BY DEF Init, Atomic!Init, InProgram
<1>2. ASSUME OptInv, OptInv', [Next]_vars
      PROVE  [Atomic!Next]_<<InProgram, imageNow>>
  <2> USE <1>2 DEF OptInv, TypeOK, Goto, DeThreadPc, InProgram
  <2>1. ASSUME NEW t \in Threads, GetSignal(t) \/ ExitGroup(t) \/ SysExit(t)
        PROVE  Atomic!Leave(t)
    BY <2>1 DEF GetSignal, ExitGroup, SysExit, DoGroupExit, Atomic!Leave, progVars
  <2>2. ASSUME NEW t \in Threads, NewImage(t) PROVE Atomic!Replace(t)
    <3>1. InProgram = {t}
      BY <2>2 DEF NewImage, OptFewLeft, PastWait, IsLeader, ListExact, ExitingExact
    <3>2. InProgram' = {t} /\ imageNow' = imageNow + 1
      BY <2>2, <3>1 DEF NewImage
    <3> QED BY <3>1, <3>2 DEF Atomic!Replace
  <2>3. ASSUME NEW t \in Threads, NEW u \in Threads, Clone(t, u)
        PROVE  Atomic!Create(u)
    BY <2>3 DEF Clone, Atomic!Create
  <2>4. ASSUME NEW t \in Threads,
               \/ DeThreadZap(t) \/ DeThreadLoop(t) \/ DeThreadWake(t)
               \/ DeThreadLead(t) \/ DeThreadRelease(t) \/ DeThreadFinal(t)
               \/ DeThreadClear(t) \/ DeThreadKilled(t) \/ Exec(t)
        PROVE  UNCHANGED <<InProgram, imageNow>>
    BY <2>4 DEF DeThreadZap, DeThreadLoop, DeThreadWake, DeThreadLead,
      DeThreadRelease, DeThreadFinal, DeThreadClear, DeThreadKilled, Exec,
      NoBugOn, progVars
  <2>5. ASSUME NEW t \in Threads, DoExit(t) \/ ParentReaps(t)
        PROVE  UNCHANGED <<InProgram, imageNow>>
    BY <2>5 DEF DoExit, ExitCheck, OptDeref, OptLock, OptLinger, ExitBegin,
      ExitNotify, ExitRelease, ParentReaps, OptExitState, progVars
  <2>6. CASE KillProcess \/ UNCHANGED vars
    BY <2>6 DEF KillProcess, vars, progVars
  <2> QED
    BY <2>1, <2>2, <2>3, <2>4, <2>5, <2>6
    DEF Next, Kernel, Program, DeThread, Atomic!Next
<1> QED BY <1>1, <1>2, OptimisedInvariant, PTL DEF Spec, Atomic!Spec
=============================================================================
