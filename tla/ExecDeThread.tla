---------------------------- MODULE ExecDeThread ----------------------------
(***************************************************************************)
(* exec() in a multithreaded process of the modified Linux 6.1.4 of        *)
(* cs614/multi_thread_opt: de_thread() and its wait for the other threads, *)
(* zap_other_threads(), do_exit() with the early-wake block, exit_notify() *)
(* and release_task(), for one thread group.                               *)
(*                                                                         *)
(* A section under sighand->siglock or under tasklist_lock is one step;    *)
(* what the code reads or writes outside these locks is a step of its own. *)
(* pc[t] names the place where thread t is:                                *)
(*   "unborn"     not created yet                                          *)
(*   "user"       in the program                                           *)
(*   "sig_return" on the way back to it with a SIGKILL pending             *)
(*   "dt_*"       in de_thread() (fs/exec.c)                               *)
(*   "exit_check", "opt_*"  in the early-wake block of do_exit()           *)
(*   "exit_*"     in the rest of do_exit()                                 *)
(*   "zombie"     a dead group leader nobody has released                  *)
(*   "gone"       released                                                 *)
(*   "null_deref" the kernel used a NULL group_exec_task                   *)
(*   "bug"        a BUG_ON() fired                                         *)
(***************************************************************************)
EXTENDS Integers, FiniteSets

CONSTANTS
  Threads,        \* every thread the group can ever have
  InitThreads,    \* the threads alive at the start
  Leader,         \* the first group leader
  NoTask,         \* the NULL task pointer
  OptOn,          \* optimization_on, as set through sysfs before the program
  Tracked,        \* is tracked_pid the tgid of this group?
  ParentIgnores,  \* does do_notify_parent() tell to reap (SIGCHLD ignored)?
  Env,            \* the calls the program and its environment make
  MaxExecs        \* bound on the exec() calls that succeed

EnvCalls == {"exec", "sys_exit", "exit_group", "clone", "kill"}

ASSUME ConstantsAssumption ==
  /\ IsFiniteSet(Threads)
  /\ InitThreads \subseteq Threads
  /\ Leader \in InitThreads
  /\ NoTask \notin Threads
  /\ OptOn \in BOOLEAN /\ Tracked \in BOOLEAN /\ ParentIgnores \in BOOLEAN
  /\ Env \subseteq EnvCalls
  /\ MaxExecs \in Nat

VARIABLES
  pc,
  group,          \* the threads on the thread list of the signal_struct
  groupLeader,    \* task->group_leader
  exitState,      \* task->exit_state
  pfExiting,      \* PF_EXITING in task->flags
  pendingKill,    \* SIGKILL in task->pending
  asleep,         \* task->__state is TASK_KILLABLE
  image,          \* which program (mm) the thread runs: 0, 1, ...
  imageNow,       \* the program of the last exec() that succeeded
  groupExecTask,  \* signal->group_exec_task
  notifyCount,    \* signal->notify_count
  quickThreads,   \* signal->quick_threads
  groupExit       \* SIGNAL_GROUP_EXIT in signal->flags

taskVars == <<groupLeader, exitState, pfExiting, pendingKill, asleep>>
sigVars  == <<groupExecTask, notifyCount, quickThreads, groupExit>>
progVars == <<image, imageNow>>
vars == <<pc, group, taskVars, sigVars, progVars>>

DeThreadPc == {"dt_zap", "dt_loop", "dt_sleep", "dt_lead", "dt_lsleep",
               "dt_release", "dt_final", "dt_clear", "dt_done", "dt_killed"}
ExitPc == {"exit_check", "opt_deref", "opt_lock", "opt_linger", "exit_begin",
           "exit_notify", "exit_release", "zombie", "gone"}
Pc == {"unborn", "user", "sig_return", "null_deref", "bug"} \cup DeThreadPc \cup ExitPc

Init ==
  /\ pc = [t \in Threads |-> IF t \in InitThreads THEN "user" ELSE "unborn"]
  /\ group = InitThreads
  /\ groupLeader = [t \in Threads |-> Leader]
  /\ exitState = [t \in Threads |-> "alive"]
  /\ pfExiting = [t \in Threads |-> FALSE]
  /\ pendingKill = [t \in Threads |-> FALSE]
  /\ asleep = [t \in Threads |-> FALSE]
  /\ image = [t \in Threads |-> 0]
  /\ imageNow = 0
  /\ groupExecTask = NoTask
  /\ notifyCount = 0
  /\ quickThreads = Cardinality(InitThreads)
  /\ groupExit = FALSE

Goto(t, l) == pc' = [pc EXCEPT ![t] = l]
IsLeader(t) == groupLeader[t] = t            \* thread_group_leader()
Alone(t) == group = {t}                      \* thread_group_empty()

\* schedule() in TASK_KILLABLE returns once somebody set the task running, or
\* when a SIGKILL is pending.
Runnable(t) == ~asleep[t] \/ pendingKill[t]

-----------------------------------------------------------------------------
(* kernel/signal.c *)

\* Mutants of the two sets below.
ZapCountedNotExiting(t) == {u \in group \ {t} : ~pfExiting[u]}
ZapKilledNotLeader(t) ==
  {u \in group \ {t} : exitState[u] = "alive" /\ ~IsLeader(u)}
ZapKilledNotExiting(t) ==
  {u \in group \ {t} : exitState[u] = "alive" /\ ~pfExiting[u]}

\* The threads zap_other_threads() counts and those it sends SIGKILL to.
ZapCounted(t) == {u \in group \ {t} : ~OptOn \/ ~pfExiting[u]}
ZapKilled(t)  == {u \in group \ {t} : exitState[u] = "alive"}

SigKill(S) ==
  /\ pendingKill' = [u \in Threads |-> pendingKill[u] \/ u \in S]
  /\ asleep' = [u \in Threads |-> asleep[u] /\ u \notin S]

\* do_group_exit(): the first caller kills the others, unless an exec() is
\* already doing so.  cleared is the pending SIGKILL get_signal() took.
DoGroupExit(t, cleared) ==
  /\ Goto(t, "exit_check")
  /\ LET K == IF groupExit \/ groupExecTask # NoTask THEN {} ELSE ZapKilled(t)
     IN /\ pendingKill' = [u \in Threads |->
             (pendingKill[u] \/ u \in K) /\ ~(u = t /\ cleared)]
        /\ asleep' = [u \in Threads |-> asleep[u] /\ u \notin K]
  /\ groupExit' = (groupExit \/ groupExecTask = NoTask)
  /\ UNCHANGED <<group, groupLeader, exitState, pfExiting, progVars,
                 groupExecTask, notifyCount, quickThreads>>

\* get_signal() on the way back to user mode.
GetSignal(t) ==
  /\ pc[t] \in {"user", "sig_return"}
  /\ pendingKill[t]
  /\ DoGroupExit(t, TRUE)

\* A fatal signal sent to the process: complete_signal() finds a thread that
\* wants it and starts the group exit.
KillProcess ==
  /\ "kill" \in Env
  /\ ~groupExit
  /\ \E u \in group : ~pfExiting[u]
  /\ groupExit' = TRUE
  /\ SigKill(group)
  /\ UNCHANGED <<pc, group, groupLeader, exitState, pfExiting, progVars,
                 groupExecTask, notifyCount, quickThreads>>

-----------------------------------------------------------------------------
(* kernel/fork.c *)

\* copy_process() with CLONE_THREAD: refused while a SIGKILL is pending.
Clone(t, u) ==
  /\ "clone" \in Env
  /\ pc[t] = "user" /\ ~pendingKill[t]
  /\ pc[u] = "unborn"
  /\ Goto(u, "user")
  /\ group' = group \cup {u}
  /\ groupLeader' = [groupLeader EXCEPT ![u] = groupLeader[t]]
  /\ image' = [image EXCEPT ![u] = image[t]]
  /\ quickThreads' = quickThreads + 1
  /\ UNCHANGED <<exitState, pfExiting, pendingKill, asleep, imageNow,
                 groupExecTask, notifyCount, groupExit>>

-----------------------------------------------------------------------------
(* fs/exec.c *)

\* execve() up to the unlocked thread_group_empty() test of de_thread().
Exec(t) ==
  /\ "exec" \in Env
  /\ imageNow < MaxExecs
  /\ pc[t] = "user"
  /\ Goto(t, IF ~Alone(t) THEN "dt_zap"
             ELSE IF IsLeader(t) THEN "dt_done" ELSE "bug")
  /\ UNCHANGED <<group, taskVars, sigVars, progVars>>

\* Mutants: the loser of two exec() calls is let in; the loop ends one thread
\* early; only the two threads that swap places are re-pointed.
GroupActionIgnoresExec == groupExit
OneThreadEarly == notifyCount <= 1
MovedPair(t) == {t, groupLeader[t]}

\* Another group action is in progress.
GroupAction == groupExit \/ groupExecTask # NoTask
\* How many threads de_thread() will wait for: all that were counted, less one
\* when the caller is not the leader.
WaitedFor(t) ==
  Cardinality(ZapCounted(t)) - (IF IsLeader(t) THEN 0 ELSE 1)
WaitOver == notifyCount = 0
\* The threads whose group_leader becomes t in the exchange.
Moved(t) == {t, groupLeader[t]} \cup (IF OptOn THEN group ELSE {})

\* de_thread() takes siglock: it gives up when another group action runs, and
\* bprm_execve() then makes sure a fatal signal is pending; or it kills the
\* other threads and sets notify_count.
DeThreadZap(t) ==
  /\ pc[t] = "dt_zap"
  /\ IF GroupAction
     THEN /\ Goto(t, "sig_return")
          /\ pendingKill' = [pendingKill EXCEPT ![t] = TRUE]
          /\ UNCHANGED <<asleep, groupExecTask, notifyCount>>
     ELSE /\ Goto(t, "dt_loop")
          /\ groupExecTask' = t
          /\ notifyCount' = WaitedFor(t)
          /\ SigKill(ZapKilled(t))
  /\ UNCHANGED <<group, groupLeader, exitState, pfExiting, progVars,
                 quickThreads, groupExit>>

\* The head of the wait loop, under siglock.
DeThreadLoop(t) ==
  /\ pc[t] = "dt_loop"
  /\ IF ~WaitOver
     THEN /\ Goto(t, "dt_sleep")
          /\ asleep' = [asleep EXCEPT ![t] = TRUE]
     ELSE /\ Goto(t, IF IsLeader(t) THEN "dt_final" ELSE "dt_lead")
          /\ UNCHANGED asleep
  /\ UNCHANGED <<group, groupLeader, exitState, pfExiting, pendingKill,
                 sigVars, progVars>>

\* schedule() returns in one of the two wait loops.
DeThreadWake(t) ==
  /\ pc[t] \in {"dt_sleep", "dt_lsleep"}
  /\ Runnable(t)
  /\ asleep' = [asleep EXCEPT ![t] = FALSE]
  /\ Goto(t, IF pendingKill[t] THEN "dt_killed"
             ELSE IF pc[t] = "dt_sleep" THEN "dt_loop" ELSE "dt_lead")
  /\ UNCHANGED <<group, groupLeader, exitState, pfExiting, pendingKill,
                 sigVars, progVars>>

\* A thread other than the leader waits, under tasklist_lock, for the leader
\* to be dead and then takes its place.
DeThreadLead(t) ==
  LET leader == groupLeader[t] IN
  /\ pc[t] = "dt_lead"
  /\ notifyCount' = -1
  /\ IF exitState[leader] = "alive"
     THEN /\ Goto(t, "dt_lsleep")
          /\ asleep' = [asleep EXCEPT ![t] = TRUE]
          /\ UNCHANGED <<groupLeader, exitState>>
     ELSE /\ Goto(t, IF exitState[leader] = "zombie"
                       THEN "dt_release" ELSE "bug")
          /\ groupLeader' = [u \in Threads |->
               IF u \in Moved(t) THEN t ELSE groupLeader[u]]
          /\ exitState' = [exitState EXCEPT ![leader] = "dead"]
          /\ UNCHANGED asleep
  /\ UNCHANGED <<group, pfExiting, pendingKill, groupExecTask, quickThreads,
                 groupExit, progVars>>

\* release_task(leader): the old leader is an ordinary thread by now.
DeThreadRelease(t) ==
  /\ pc[t] = "dt_release"
  /\ LET old == {u \in group : pc[u] = "zombie"}
     IN /\ group' = group \ old
        /\ pc' = [u \in Threads |-> IF u = t THEN "dt_final"
                                    ELSE IF u \in old THEN "gone" ELSE pc[u]]
  /\ UNCHANGED <<taskVars, sigVars, progVars>>

\* group_exec_task = NULL and then notify_count = 0, both outside any lock.
DeThreadFinal(t) ==
  /\ pc[t] = "dt_final"
  /\ Goto(t, "dt_clear")
  /\ groupExecTask' = NoTask
  /\ UNCHANGED <<group, taskVars, notifyCount, quickThreads, groupExit,
                 progVars>>

DeThreadClear(t) ==
  /\ pc[t] = "dt_clear"
  /\ Goto(t, IF IsLeader(t) THEN "dt_done" ELSE "bug")
  /\ notifyCount' = 0
  /\ UNCHANGED <<group, taskVars, groupExecTask, quickThreads, groupExit,
                 progVars>>

\* The killed: path, which excludes exit_notify() and __exit_signal().  The
\* thread returns to take the fatal signal that is pending.
DeThreadKilled(t) ==
  /\ pc[t] = "dt_killed"
  /\ Goto(t, "sig_return")
  /\ groupExecTask' = NoTask
  /\ notifyCount' = 0
  /\ UNCHANGED <<group, taskVars, quickThreads, groupExit, progVars>>

\* The rest of begin_new_exec(): from exec_mmap() on the thread runs the new
\* program.
NewImage(t) ==
  /\ pc[t] = "dt_done"
  /\ Goto(t, IF pendingKill[t] THEN "sig_return" ELSE "user")
  /\ imageNow' = imageNow + 1
  /\ image' = [image EXCEPT ![t] = imageNow + 1]
  /\ UNCHANGED <<group, taskVars, sigVars>>

-----------------------------------------------------------------------------
(* kernel/exit.c *)

SysExit(t) ==
  /\ "sys_exit" \in Env
  /\ pc[t] = "user"
  /\ Goto(t, "exit_check")
  /\ UNCHANGED <<group, taskVars, sigVars, progVars>>

ExitGroup(t) ==
  /\ "exit_group" \in Env
  /\ pc[t] = "user"
  /\ DoGroupExit(t, FALSE)

\* Mutants: the block does not ask for optimization_on; it forgets PF_EXITING
\* or the wake-up of the exec thread; the leader never waits for its group;
\* nobody wakes the exec thread that waits for the leader; a count is given
\* back twice, or below zero.
EarlyWakeAlways(t) == Tracked /\ groupExecTask \notin {NoTask, t} /\ ~IsLeader(t)
EarlyExitingForgotten(t) == pfExiting
EarlyWokenNobody(t) == t
ReapsItselfAlways(t) == IsLeader(t) => ParentIgnores
ExitWakesNobody == FALSE
CountsTwice(t) == ~IsLeader(t) /\ notifyCount > 0
CountsBelowZero(t) == ~IsLeader(t) /\ (~OptOn \/ ~Tracked)

\* The condition of the early-wake block.
EarlyWake(t) ==
  OptOn /\ Tracked /\ groupExecTask \notin {NoTask, t} /\ ~IsLeader(t)
EarlyExiting(t) == [pfExiting EXCEPT ![t] = TRUE]
EarlyWoken(t) == groupExecTask
\* Does exit_notify() reap the thread at once, and does it wake the exec
\* thread?
ReapsItself(t) == IsLeader(t) => (Alone(t) /\ ParentIgnores)
ExitWakesExec == notifyCount < 0
\* Does __exit_signal() count the thread for a waiting exec thread?
Counts(t) == ~IsLeader(t) /\ (~OptOn \/ ~Tracked) /\ notifyCount > 0

\* do_exit() reads that condition without a lock.
ExitCheck(t) ==
  /\ pc[t] = "exit_check"
  /\ Goto(t, IF EarlyWake(t) THEN "opt_deref" ELSE "exit_begin")
  /\ UNCHANGED <<group, taskVars, sigVars, progVars>>

\* sig->group_exec_task->pid, for the log, still without a lock: the pointer
\* is loaded again.
OptDeref(t) ==
  /\ pc[t] = "opt_deref"
  /\ Goto(t, IF groupExecTask = NoTask THEN "null_deref" ELSE "opt_lock")
  /\ UNCHANGED <<group, taskVars, sigVars, progVars>>

\* The locked part: the thread gives its count back early.  The last one
\* wakes the exec thread and goes on; the others go to sleep.
OptLock(t) ==
  LET last == notifyCount = 1 /\ groupExecTask # NoTask
  IN
  /\ pc[t] = "opt_lock"
  /\ notifyCount' = IF notifyCount > 0 THEN notifyCount - 1 ELSE notifyCount
  /\ pfExiting' = EarlyExiting(t)
  /\ IF last
     THEN /\ Goto(t, "exit_begin")
          /\ asleep' = [asleep EXCEPT ![EarlyWoken(t)] = FALSE]
     ELSE /\ Goto(t, "opt_linger")
          /\ asleep' = [asleep EXCEPT ![t] = TRUE]
  /\ UNCHANGED <<group, groupLeader, exitState, pendingKill, groupExecTask,
                 quickThreads, groupExit, progVars>>

OptLinger(t) ==
  /\ pc[t] = "opt_linger"
  /\ Runnable(t)
  /\ Goto(t, "exit_begin")
  /\ asleep' = [asleep EXCEPT ![t] = FALSE]
  /\ UNCHANGED <<group, groupLeader, exitState, pfExiting, pendingKill,
                 sigVars, progVars>>

\* synchronize_group_exit() and exit_signals().
ExitBegin(t) ==
  /\ pc[t] = "exit_begin"
  /\ Goto(t, "exit_notify")
  /\ quickThreads' = quickThreads - 1
  /\ groupExit' = (groupExit \/ quickThreads = 1)
  /\ pfExiting' = [pfExiting EXCEPT ![t] = TRUE]
  /\ UNCHANGED <<group, groupLeader, exitState, pendingKill, asleep,
                 groupExecTask, notifyCount, progVars>>

\* exit_notify(): a leader stays a zombie until the group is empty and its
\* parent has been told; any other thread reaps itself.  An exec thread that
\* waits for the leader is woken.
ExitNotify(t) ==
  LET next == IF notifyCount < 0 /\ groupExecTask = NoTask THEN "null_deref"
              ELSE IF ReapsItself(t) THEN "exit_release" ELSE "zombie"
  IN
  /\ pc[t] = "exit_notify"
  /\ exitState' = [exitState EXCEPT ![t] =
                                IF ReapsItself(t) THEN "dead" ELSE "zombie"]
  /\ Goto(t, next)
  /\ asleep' = [u \in Threads |->
       asleep[u] /\ ~(ExitWakesExec /\ u = groupExecTask)]
  /\ UNCHANGED <<group, groupLeader, pfExiting, pendingKill, sigVars,
                 progVars>>

\* release_task() of the thread itself, with __exit_signal(): it counts for a
\* waiting exec thread unless the early-wake block already did.  The last
\* thread also releases a zombie leader whose parent does not want to know.
ExitRelease(t) ==
  LET leader == groupLeader[t]
      left   == group \ {t}
      zapLeader == /\ leader # t /\ left = {leader}
                   /\ exitState[leader] = "zombie"
                   /\ ParentIgnores
  IN
  /\ pc[t] = "exit_release"
  /\ notifyCount' = IF Counts(t) THEN notifyCount - 1 ELSE notifyCount
  /\ asleep' = [u \in Threads |->
       asleep[u] /\ ~(Counts(t) /\ notifyCount = 1 /\ u = groupExecTask)]
  /\ group' = IF zapLeader THEN {} ELSE left
  /\ exitState' = [exitState EXCEPT ![leader] = IF zapLeader THEN "dead" ELSE @]
  /\ pc' = [u \in Threads |->
       IF u = t \/ (zapLeader /\ u = leader) THEN "gone" ELSE pc[u]]
  /\ UNCHANGED <<groupLeader, pfExiting, pendingKill, groupExecTask,
                 quickThreads, groupExit, progVars>>

\* wait4() of the parent, which delay_group_leader() holds back while other
\* threads are on the list.
ParentReaps(t) ==
  /\ pc[t] = "zombie"
  /\ exitState[t] = "zombie" /\ IsLeader(t) /\ Alone(t)
  /\ Goto(t, "gone")
  /\ exitState' = [exitState EXCEPT ![t] = "dead"]
  /\ group' = {}
  /\ UNCHANGED <<groupLeader, pfExiting, pendingKill, asleep, sigVars,
                 progVars>>

-----------------------------------------------------------------------------
DeThread(t) ==
  \/ DeThreadZap(t) \/ DeThreadLoop(t) \/ DeThreadWake(t) \/ DeThreadLead(t)
  \/ DeThreadRelease(t) \/ DeThreadFinal(t) \/ DeThreadClear(t)
  \/ DeThreadKilled(t) \/ NewImage(t)

DoExit(t) ==
  \/ ExitCheck(t) \/ OptDeref(t) \/ OptLock(t) \/ OptLinger(t)
  \/ ExitBegin(t) \/ ExitNotify(t) \/ ExitRelease(t)

\* What the kernel does on its own once a thread is on its way; the rest of
\* Next is the program's and its environment's choice.
Kernel(t) == GetSignal(t) \/ DeThread(t) \/ DoExit(t)

Program(t) ==
  \/ Exec(t) \/ SysExit(t) \/ ExitGroup(t)
  \/ \E u \in Threads : Clone(t, u)

Next ==
  \/ \E t \in Threads : Kernel(t) \/ Program(t) \/ ParentReaps(t)
  \/ KillProcess

\* The scheduler runs every runnable thread: weak fairness of its kernel
\* steps.  Nothing forces the program, a sender of signals or the parent.
Spec == Init /\ [][Next]_vars
FairSpec == Spec /\ \A t \in Threads : WF_vars(Kernel(t))

-----------------------------------------------------------------------------
(* Properties *)

TypeOK ==
  /\ pc \in [Threads -> Pc]
  /\ group \subseteq Threads
  /\ groupLeader \in [Threads -> Threads]
  /\ exitState \in [Threads -> {"alive", "zombie", "dead"}]
  /\ pfExiting \in [Threads -> BOOLEAN]
  /\ pendingKill \in [Threads -> BOOLEAN]
  /\ asleep \in [Threads -> BOOLEAN]
  /\ image \in [Threads -> Nat]
  /\ imageNow \in Nat
  /\ groupExecTask \in Threads \cup {NoTask}
  /\ notifyCount \in Int /\ notifyCount >= -1
  /\ quickThreads \in Int
  /\ groupExit \in BOOLEAN

\* The threads that still execute their program: they have not begun to exit.
InProgram == {t \in Threads : pc[t] \in DeThreadPc \cup {"user", "sig_return"}}

\* de_thread() has left its first wait loop with success.
PastWait(t) == pc[t] \in {"dt_lead", "dt_lsleep", "dt_release", "dt_final",
                          "dt_clear", "dt_done"}

\* The threads that have yet to give their count back to the waiting e.
Awaited(e) ==
  {u \in group \ {e, groupLeader[e]} : OptOn /\ Tracked => ~pfExiting[u]}

\* While an exec thread waits, notify_count is exactly the number of threads,
\* the leader apart, that have yet to give their count back: in the original
\* scheme those still on the list, in the optimised one those that have not
\* passed the early-wake block (de_thread, __exit_signal, do_exit).
NotifyCountExact ==
  \A e \in Threads : pc[e] \in {"dt_loop", "dt_sleep"} =>
    notifyCount = Cardinality(Awaited(e))

\* The comment in de_thread() (fs/exec.c:1113): after the wait loop all other
\* threads, except possibly the leader, have exited.
AllOthersExited ==
  \A t \in Threads : PastWait(t) =>
    \A u \in group \ {t, groupLeader[t]} : exitState[u] # "alive"

\* Once an exec() has succeeded, no thread of the program it replaced runs
\* user code any more (exec() is the end of the old program).
OldImageStopped == \A t \in InProgram : image[t] = imageNow

\* All threads on the list agree on one leader, which is on the list: the
\* exchange in de_thread() leaves no thread with a pointer to a released
\* task.
OneLeader ==
  \A u, v \in group : groupLeader[u] = groupLeader[v] /\ groupLeader[u] \in group

\* No BUG_ON() of de_thread() fires: the old leader is a zombie when it is
\* replaced, and the exec thread ends as the leader.
NoBugOn == \A t \in Threads : pc[t] # "bug"

\* "All tests complete without crashes" (README.md): no step dereferences a
\* NULL group_exec_task.
NoNullDeref == \A t \in Threads : pc[t] # "null_deref"

\* The comment in de_thread() (fs/exec.c:1090): an exec() refused because of
\* another group action returns to a fatal signal that is already pending.
LoserDies(t) == pc[t] = "dt_zap" /\ pc'[t] = "sig_return" => pendingKill[t]

\* At most one thread of a group is between zap_other_threads() and the end
\* of de_thread(), and group_exec_task names it.
ExecTaskOwner ==
  \A t \in Threads :
    pc[t] \in {"dt_loop", "dt_sleep", "dt_lead", "dt_lsleep", "dt_release",
               "dt_final", "dt_killed"} => groupExecTask = t

\* An exec() that has begun to kill the other threads comes to an end: it
\* succeeds, or returns to a fatal signal (the wait loops of de_thread()).
ExecReturns ==
  \A t \in Threads : pc[t] = "dt_loop" ~> pc[t] \in {"user", "sig_return"}

Crashed == \E t \in Threads : pc[t] \in {"null_deref", "bug"}

\* A thread that has begun do_exit() is released or becomes a zombie leader,
\* unless the kernel has crashed.
ExitCompletes ==
  \A t \in Threads :
    pc[t] = "exit_check" ~> (pc[t] \in {"zombie", "gone"} \/ Crashed)

\* A group exit reaches every thread, those asleep in the early-wake block
\* included, unless the kernel has crashed (zap_other_threads).
GroupExitCompletes ==
  groupExit ~> ((\A t \in group : pc[t] = "zombie") \/ Crashed)

-----------------------------------------------------------------------------
(* The inductive invariant of the original scheme, optimization_on = 0.    *)

ExecTaskPc == {"dt_loop", "dt_sleep", "dt_lead", "dt_lsleep", "dt_release",
               "dt_final", "dt_killed"}

\* Neither the early-wake block nor a crash is ever reached.
OptNotReached ==
  \A t \in Threads :
    pc[t] \notin {"opt_deref", "opt_lock", "opt_linger", "null_deref", "bug"}

\* The thread list holds the threads that exist and are not released.
ListExact == \A t \in Threads : t \in group <=> pc[t] \notin {"unborn", "gone"}

\* exit_state says how far do_exit() is; a leader releases itself only when
\* it is the last one.
ExitStateExact ==
  \A t \in Threads :
    /\ pc[t] \in DeThreadPc \cup {"unborn", "user", "sig_return", "exit_check",
                                  "exit_begin", "exit_notify"}
         => exitState[t] = "alive"
    /\ pc[t] = "zombie"
         => exitState[t] = IF IsLeader(t) THEN "zombie" ELSE "dead"
    /\ pc[t] = "exit_release" => (IsLeader(t) => Alone(t))

\* group_exec_task is the thread inside de_thread(), if there is one.
ExecTaskExact == \A t \in Threads : pc[t] \in ExecTaskPc <=> groupExecTask = t

\* While a thread is inside de_thread(), every other one that is still in its
\* program has a SIGKILL pending (so it can neither stay nor clone).
OthersDoomed ==
  groupExecTask # NoTask =>
    \A u \in InProgram \ {groupExecTask} : pendingKill[u]

\* Once the first wait loop is over only the caller and the leader are left,
\* and in the end only the caller.
FewLeft ==
  \A t \in Threads :
    /\ pc[t] \in {"dt_lead", "dt_lsleep"}
         => ~IsLeader(t) /\ group = {t, groupLeader[t]}
    /\ pc[t] = "dt_release"
         => IsLeader(t) /\ \A u \in group \ {t} : pc[u] = "zombie"
    /\ pc[t] \in {"dt_final", "dt_clear", "dt_done"}
         => IsLeader(t) /\ group = {t}

\* notify_count is -1 only between the second wait loop and the end.
NegativeExact ==
  notifyCount < 0 =>
    \E t \in Threads : pc[t] \in {"dt_lead", "dt_lsleep", "dt_release",
                                  "dt_final", "dt_clear", "dt_killed"}

OriginalInv ==
  /\ TypeOK
  /\ OptNotReached
  /\ ListExact
  /\ ExitStateExact
  /\ ExecTaskExact
  /\ OthersDoomed
  /\ NotifyCountExact
  /\ FewLeft
  /\ NegativeExact
  /\ OneLeader
  /\ OldImageStopped
=============================================================================
