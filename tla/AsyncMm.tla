------------------------------- MODULE AsyncMm -------------------------------
(***************************************************************************)
(* The async_mm kernel module of cs614/exec_memory_teardown_opt: a kprobe  *)
(* in front of mmput() that keeps the last reference of an address space   *)
(* alive and hands it to a kernel thread, which tears it down later.       *)
(*                                                                         *)
(* Every task that drops a reference runs mmput(): the handler of the      *)
(* probe, then the decrement of mm_users and, at zero, __mmput().  Each    *)
(* atomic operation is a step.  The filters of the handler (enabled, size, *)
(* pid, free memory, kmalloc) read tunables that may change at any time:   *)
(* together they are one choice.                                           *)
(***************************************************************************)
EXTENDS Integers, Sequences, FiniteSets

CONSTANTS
  Spaces,    \* the mm_structs
  Owners,    \* tasks that run in an address space (task->mm)
  Readers,   \* tasks that look into one from outside (mmgrab, mmget_not_zero)
  SpaceOf,   \* the mm of each owner and reader
  Starting   \* the owners that exist at the start; the others are cloned

AllTasks == Owners \cup Readers

NoMm == "none"

AsyncConstantsOK ==
  /\ NoMm \notin Spaces
  /\ Owners \cap Readers = {}
  /\ IsFiniteSet(AllTasks)
  /\ SpaceOf \in [AllTasks -> Spaces]
  /\ Starting \subseteq Owners
  /\ \A m \in Spaces : \E t \in Starting : SpaceOf[t] = m

VARIABLES
  at,          \* the place of each task, see AsyncInit and MmPut below
  mm_users,    \* mm->mm_users
  mm_count,    \* mm->mm_count
  exits,       \* how often exit_mmap() was called on the mm
  list,        \* mm_work_list
  worker,      \* the place of mm_destroyer in mm_destroy_worker()
  item,        \* the mm it or the module exit works on
  stop,        \* kthread_should_stop()
  module       \* the place of the module in its life: see Unregister below

mmVars == <<mm_users, mm_count, exits>>
modVars == <<worker, item, stop, module>>
asyncVars == <<at, mmVars, list, modVars>>

UsersAtStart(m) == Cardinality({t \in Starting : SpaceOf[t] = m})
ReadersOf(m) == Cardinality({t \in Readers : SpaceOf[t] = m})

AsyncInit ==
  /\ at = [t \in AllTasks |-> IF t \in Starting THEN "in_mm"
                           ELSE IF t \in Owners THEN "unborn" ELSE "outside"]
  /\ mm_users = [m \in Spaces |-> UsersAtStart(m)]
  /\ mm_count = [m \in Spaces |-> 1 + ReadersOf(m)]
  /\ exits = [m \in Spaces |-> 0]
  /\ list = <<>>
  /\ worker = "top" /\ item = NoMm /\ stop = FALSE
  /\ module = "loaded"

Move(t, l) == at' = [at EXCEPT ![t] = l]
AddUser(m, n) == mm_users' = [mm_users EXCEPT ![m] = @ + n]
AddCount(m, n) == mm_count' = [mm_count EXCEPT ![m] = @ + n]

-----------------------------------------------------------------------------
(* The kernel around the module *)

\* clone(CLONE_VM): the new task shares the address space.
AsyncClone(t, u) ==
  /\ t \in Owners /\ at[t] = "in_mm"
  /\ u \in Owners /\ at[u] = "unborn" /\ SpaceOf[u] = SpaceOf[t]
  /\ Move(u, "in_mm")
  /\ AddUser(SpaceOf[t], 1)
  /\ UNCHANGED <<mm_count, exits, list, modVars>>

\* A reader that holds mm_count gets the address space: mmget_not_zero().
MmGetNotZero(t) ==
  /\ t \in Readers /\ at[t] = "outside"
  /\ mm_users[SpaceOf[t]] > 0
  /\ Move(t, "in_mm")
  /\ AddUser(SpaceOf[t], 1)
  /\ UNCHANGED <<mm_count, exits, list, modVars>>

\* A task is done with the address space and calls mmput(), where the probe
\* fires as long as it is registered.
MmPut(t) ==
  /\ at[t] = "in_mm"
  /\ Move(t, IF module = "loaded" THEN "probe" ELSE "dec")
  /\ UNCHANGED <<mmVars, list, modVars>>

\* The test for the final put.
FinalPut(m) == mm_users[m] = 1

\* mmput_pre_handler() up to kmalloc(): it intercepts a final put, unless one
\* of its filters lets it pass.
Probe(t) ==
  /\ at[t] = "probe"
  /\ \/ Move(t, "dec")
     \/ FinalPut(SpaceOf[t]) /\ Move(t, "grab")
  /\ UNCHANGED <<mmVars, list, modVars>>

\* Mutant: without the mmgrab() the worker drops the last count.
NoGrab(m) == UNCHANGED mm_count

Grab(m) == AddCount(m, 1)

\* mmgrab() and then atomic_inc(&mm->mm_users).
ProbeGrab(t) ==
  /\ at[t] = "grab"
  /\ Grab(SpaceOf[t])
  /\ Move(t, "inc")
  /\ UNCHANGED <<mm_users, exits, list, modVars>>

ProbeInc(t) ==
  /\ at[t] = "inc"
  /\ AddUser(SpaceOf[t], 1)
  /\ Move(t, "queue")
  /\ UNCHANGED <<mm_count, exits, list, modVars>>

\* The work item is put on the list, under mm_work_lock, and the worker woken.
ProbeQueue(t) ==
  /\ at[t] = "queue"
  /\ list' = Append(list, SpaceOf[t])
  /\ Move(t, "dec")
  /\ UNCHANGED <<mmVars, modVars>>

\* mmput() itself: atomic_dec_and_test(&mm->mm_users).
MmPutDec(t) ==
  /\ at[t] = "dec"
  /\ AddUser(SpaceOf[t], -1)
  /\ Move(t, IF mm_users[SpaceOf[t]] = 1 THEN "exit_mmap" ELSE "put")
  /\ UNCHANGED <<mm_count, exits, list, modVars>>

\* __mmput(): exit_mmap() and the other hooks, then mmdrop().
MmPutTeardown(t) ==
  /\ at[t] = "exit_mmap"
  /\ exits' = [exits EXCEPT ![SpaceOf[t]] = @ + 1]
  /\ Move(t, "mmdrop")
  /\ UNCHANGED <<mm_users, mm_count, list, modVars>>

MmPutDrop(t) ==
  /\ at[t] = "mmdrop"
  /\ AddCount(SpaceOf[t], -1)
  /\ Move(t, "put")
  /\ UNCHANGED <<mm_users, exits, list, modVars>>

\* A reader drops its mm_count in the end.
ReaderDrop(t) ==
  /\ t \in Readers /\ at[t] \in {"outside", "put"}
  /\ AddCount(SpaceOf[t], -1)
  /\ Move(t, "done")
  /\ UNCHANGED <<mm_users, exits, list, modVars>>

-----------------------------------------------------------------------------
(* mm_destroy_worker() *)

\* The outer loop: it ends when the thread is told to stop.
WorkerTop ==
  /\ worker = "top"
  /\ worker' = IF stop THEN "stopped" ELSE "wait"
  /\ UNCHANGED <<at, mmVars, list, item, stop, module>>

\* wait_event_interruptible().
WorkerWait ==
  /\ worker = "wait"
  /\ list # <<>> \/ stop
  /\ worker' = "drain"
  /\ UNCHANGED <<at, mmVars, list, item, stop, module>>

\* The inner loop takes an item off the list, under mm_work_lock.
WorkerTake ==
  /\ worker = "drain"
  /\ IF list = <<>>
     THEN worker' = "top" /\ UNCHANGED <<list, item>>
     ELSE worker' = "exit_mmap" /\ item' = Head(list) /\ list' = Tail(list)
  /\ UNCHANGED <<at, mmVars, stop, module>>

\* exit_mmap(), ksm_exit(), khugepaged_exit() and exit_aio().
WorkerTeardown ==
  /\ worker = "exit_mmap"
  /\ exits' = [exits EXCEPT ![item] = @ + 1]
  /\ worker' = "dec"
  /\ UNCHANGED <<at, mm_users, mm_count, list, item, stop, module>>

\* atomic_dec(&work->mm->mm_users), without a test for zero.
WorkerDec ==
  /\ worker = "dec"
  /\ AddUser(item, -1)
  /\ worker' = "mmdrop"
  /\ UNCHANGED <<at, mm_count, exits, list, item, stop, module>>

WorkerDrop ==
  /\ worker = "mmdrop"
  /\ AddCount(item, -1)
  /\ worker' = "drain" /\ item' = NoMm
  /\ UNCHANGED <<at, mm_users, exits, list, stop, module>>

-----------------------------------------------------------------------------
(* async_mm_exit() *)

\* unregister_kprobe() waits for the handlers that run.
Unregister ==
  /\ module = "loaded"
  /\ module' = "unregistering"
  /\ UNCHANGED <<at, mmVars, list, worker, item, stop>>

\* wake_up() and kthread_stop(), which waits for the thread.
StopWorker ==
  /\ module = "unregistering"
  /\ \A t \in AllTasks : at[t] \notin {"probe", "grab", "inc", "queue"}
  /\ stop' = TRUE
  /\ module' = "stopping"
  /\ UNCHANGED <<at, mmVars, list, worker, item>>

\* Mutant: the items that are left are not looked at.
NothingLeft == worker = "stopped"

\* The list is empty.
Drained == worker = "stopped" /\ list = <<>>

\* The items left on the list are torn down by the exit function.
ExitTake ==
  /\ module = "stopping" /\ worker = "stopped"
  /\ IF Drained
     THEN module' = "unloaded" /\ UNCHANGED <<list, item>>
     ELSE module' = "exit_mmap" /\ item' = Head(list) /\ list' = Tail(list)
  /\ UNCHANGED <<at, mmVars, worker, stop>>

ExitTeardown ==
  /\ module = "exit_mmap"
  /\ exits' = [exits EXCEPT ![item] = @ + 1]
  /\ module' = "dec"
  /\ UNCHANGED <<at, mm_users, mm_count, list, worker, item, stop>>

ExitDec ==
  /\ module = "dec"
  /\ AddUser(item, -1)
  /\ module' = "mmdrop"
  /\ UNCHANGED <<at, mm_count, exits, list, worker, item, stop>>

ExitDrop ==
  /\ module = "mmdrop"
  /\ AddCount(item, -1)
  /\ module' = "stopping" /\ item' = NoMm
  /\ UNCHANGED <<at, mm_users, exits, list, worker, stop>>

-----------------------------------------------------------------------------
Put(t) ==
  \/ Probe(t) \/ ProbeGrab(t) \/ ProbeInc(t) \/ ProbeQueue(t)
  \/ MmPutDec(t) \/ MmPutTeardown(t) \/ MmPutDrop(t)

Worker ==
  \/ WorkerTop \/ WorkerWait \/ WorkerTake \/ WorkerTeardown \/ WorkerDec
  \/ WorkerDrop

ModuleExit == StopWorker \/ ExitTake \/ ExitTeardown \/ ExitDec \/ ExitDrop

AsyncNext ==
  \/ \E t \in AllTasks : MmPut(t) \/ Put(t) \/ MmGetNotZero(t) \/ ReaderDrop(t)
  \/ \E t, u \in AllTasks : AsyncClone(t, u)
  \/ Worker \/ Unregister \/ ModuleExit

\* A task in mmput() runs on, and so do the worker and an exit that has
\* begun.  Nobody has to call mmput() or to unload the module.
AsyncSpec == AsyncInit /\ [][AsyncNext]_asyncVars
AsyncFairSpec ==
  /\ AsyncSpec
  /\ \A t \in AllTasks : WF_asyncVars(Put(t))
  /\ WF_asyncVars(Worker) /\ WF_asyncVars(ModuleExit)

-----------------------------------------------------------------------------
\* The tasks that still run in the address space.
InMm(m) == {t \in Owners : SpaceOf[t] = m /\ at[t] = "in_mm"}

\* The ones that go on touching the mm_struct, and the work that names it.
Touching(m) ==
  {t \in AllTasks : SpaceOf[t] = m /\ at[t] \notin {"unborn", "put", "done"}}
Queued(m) == m = item \/ \E i \in DOMAIN list : list[i] = m

\* No address space is torn down while a task runs in it, even when a reader
\* enters between the test and the increment of the handler: the handler takes
\* the final put only (mmput_pre_handler, "only intercept the final put").
NoTeardownInUse == \A m \in Spaces : exits[m] > 0 => InMm(m) = {}

\* The mm_struct is freed (mm_count 0) only when no task, no work item and
\* neither the worker nor the module exit has a pointer they still use.
NoUseAfterFree ==
  \A m \in Spaces : mm_count[m] <= 0 => Touching(m) = {} /\ ~Queued(m)

\* What the module promises: neither an address space nor its mm_struct goes
\* away under somebody who still uses it.
NoUseAfterTeardown == NoTeardownInUse /\ NoUseAfterFree

\* "mmput's dec gives 1, not 0, so __mmput is NOT called" (time.c:29): no
\* address space is torn down twice.
TornDownOnce == \A m \in Spaces : exits[m] <= 1

\* Every address space that all its tasks have left is torn down, by mmput(),
\* by the worker, or by the module exit when it comes first.
AsyncLeft(m) ==
  \A t \in AllTasks :
    SpaceOf[t] = m => at[t] \in {"put", "unborn", "outside", "done"}
AsyncGone(m) == exits[m] > 0
AsyncTornDownInTheEnd == \A m \in Spaces : AsyncLeft(m) ~> AsyncGone(m)
=============================================================================
