# A verification development for mtech

The repository holds the programs of several systems courses: a modified Linux
kernel and two kernel modules (`cs614`), concurrent data structures and race
detectors (`cs636`), and parallel programs (`cs610`, `cs633`).  The programs do
not call each other, except that the parts of the kernel do.  What they share is
that their difficulty is in their concurrency: locks, atomic operations,
reference counts, wake-ups.  That is what is modelled here, in TLA+; TLC checks
the models on small instances, and TLAPS proves theorems about the thread-group
exec, the loading of a program, the pid table, `copy_process()`, exit and wait, the two deferred teardowns,
the lock-free stack, the Bloom filter and the race detectors for every value of their
constants.

Line numbers refer to the sources named with them.  `K/` stands for
`cs614/multi_thread_opt/kernel_modification/`.

## 1. Inventory

### The kernel that execs (K/)

| Part | State it keeps | Operations | Who acts concurrently | What makes it correct |
|---|---|---|---|---|
| Thread-group exec (`fs/exec.c`, `kernel/exit.c`, `kernel/signal.c`) | per task: `exit_state`, `PF_EXITING`, pending SIGKILL, sleep state, leader; per group: `group_exec_task`, `notify_count`, the thread list | `de_thread`, `zap_other_threads`, `do_exit` with the early-wake block, `exit_notify`, `release_task`, group exit, `clone` | all threads of the group, senders of signals, the parent | an exec leaves one thread; each thread is counted once; every exec and exit ends |
| Loading a program (`fs/exec.c`, `fs/binfmt_elf.c`) | `linux_binprm`, memory, credentials, files, deny-write counts, `cred_guard_mutex`, `exec_update_lock` | `do_execveat_common` to the return, scripts, ELF, `mm_access` | writers of the files, readers of the memory | an error before the point of no return changes nothing; each file, lock and memory is given back once |
| Arguments and new stack (`fs/exec.c`, `create_elf_tables`) | `bprm->p`, `argc`, `argmin`, the stack's pages and their account, `arg_start` to `env_end` | count, limits, `copy_strings`, `remove_arg_zero`, `shift_arg_pages`, `setup_arg_pages`, the tables | other threads that write to the strings, SIGKILL | the program finds the strings of the call; pointers stay inside the stack; pages are accounted as long as the exec may return |
| The image (`fs/binfmt_elf.c`) | `load_bias`, `elf_bss`, `elf_brk`, the interpreter's `load_addr` | the segments, `elf_map`, `set_brk`, `padzero`, `load_elf_interp` | none | each byte is in its place, every bss is zero, nothing lies over anything else |
| Core dump (`fs/binfmt_elf.c`, `kernel/exit.c`) | `core_state`, the list of `core_thread`s on the stacks of their threads, `elf_note_info` | `coredump_task_exit`, `elf_core_dump` with its notes and headers | the threads of the group | threads stay while they are read; the headers describe the file; memory is given back |
| File table (`fs/file.c`) | `fdtable` with its two bitmaps, `next_fd`, `f_count`, `count` | open, close, dup2, fget, fdget, close_range, copy, exec, exit, resize | tasks that share the table, lock-free readers | bitmaps agree with the files, each reference is counted, no use of what is freed |
| Pid table (`kernel/pid.c`) | the numbers of two namespaces, the tasks attached to a pid | alloc, attach, change, exchange, detach, lookup, the end of a namespace | callers of fork, exec, setsid, lookups | a number means one pid, is given back, and a lookup finds no half-made one |
| Signals and job control (`kernel/signal.c`) | pending signals, `jobctl`, `group_stop_count`, `SIGNAL_STOP_*` flags, blocked sets | send, dequeue, group stop, continue, block, `sigtimedwait`, fork, clone, exit | threads, senders | a stop counts each thread once; stop and continue cancel; a signal has a taker; a fork misses none |
| `copy_process`, vfork, unshare (`kernel/fork.c`) | what tasks share: files, fs, sighand, signal, mm, with the counts | `kernel_clone`, the error ladder, vfork, `unshare`, exec, exit | sharers, the parent killed in vfork | counts equal the users; errors undo what was done; the child never completes a dead completion |
| Exit and wait (`kernel/exit.c`) | `exit_state`, the child lists, stops, the sleepers | `exit_notify`, reparenting, `release_task`, `do_wait`, stops | several waiters, parents that end | each child is reported once, has a parent that is alive, and no waiter misses it |

How they interact.  An exec runs `de_thread()` between opening the program and
giving up the old memory; it copies the file table, replaces the shared signal
handlers, wakes a vfork() parent.  `copy_process()` allocates the pid, attaches the
task and joins the group's stop.  An exit drops the files, leaves the stop, detaches
the pid and tells the waiting parent.  The modules model each part with the others'
calls as the environment; they are not composed into one state machine, which would
be far beyond TLC.

### The other programs

| Part | State it keeps | Operations | Who acts concurrently | What makes it correct |
|---|---|---|---|---|
| `async_mm` module, `cs614/exec_memory_teardown_opt/src/time.c` | `mm_users`, `mm_count`, the work list, the worker | the mmput probe, the worker, the unloading | tasks, worker, readers | one teardown for each address space, not under a user |
| Deferred mmput, `cs614/exec_memory_teardown_opt_2/apply_patch.py` (the C code it inserts) | `mm_users`, the pending counter, statistics | `exec_deferred_mmput`, its work function, the reset | tasks in execve and exit, work items, a reset | one teardown, alone; the counter covers the work; statistics agree |
| Exec trace module, `cs614/multi_thread_opt/exec_hook.c` | a stack of entry times, the tracked process, a log | `my_enter`, `my_exit`, `set_pid` | threads of the tracked process, the writer | durations belong to the calls they name |
| Race detectors, `cs636/assignment1/241110079` | vector clocks, stack of parents, access history or epochs | reads, writes, acquire, release, begin, end | none: the events come in any legal order | a logged race is one; a race is logged |
| Lock-free queue and stack, `cs636/assignment2/problem2`, `cs610/assignment5/problem2` | tagged or plain pointers, nodes, the allocator | `enq`, `deq`; `push`, `pop` | all callers | FIFO or LIFO order, no access to deleted memory, progress |
| Chained hash table, `cs636/assignment2/problem1` | buckets, nodes | batches of insert, delete, lookup, with resize | threads of a batch | it is a map |
| Open-addressing hash table, `cs610/assignment5/problem1` | slots, tombstones | insert, delete, lookup, resize | none | it is a map |
| Bloom filter, `cs636/assignment2/problem3` | bit array, stripe locks | `add`, `contains`, `print_stats` | all callers | no bit lost, no false negative, no deadlock |
| Producer and consumer, `cs610/assignment2/problem2-dir` (pthread), `cs610/assignment3/problem3` (OpenMP) | a bounded buffer, the position in the file | read lines, put, take, write | producers, consumer | every line is written once, a producer's lines together |
| MPI halo exchange, `cs633/solution/src.c` | local domains with six faces | scatter, six exchanges, extrema, reduction | all ranks | the results of the whole domain; no deadlock |

## 2. Modules

| Module | Models or contains |
|---|---|
| `ExecDeThread` | exec and exit of one thread group, in both modes (`OptOn`) |
| `ExecAtomic`, `MCExecDeThread` | abstract specification: exec is one step of a program whose only thread is the caller; the instances and the refinement mapping |
| `MCExecTeardown` | the exec and the two deferred teardowns, of which `Kernels` says which a run looks at (extends `MCExecDeThread`, `AsyncMm` and `DeferredMmput`, whose constants the cfg gives) |
| `ExecDeThreadProofs` | theorems about both modes, the unmodified scheme and the optimised one |
| `ExecLoad`, `ExecLoadProofs` | `execve()` and the ELF loader, with a failure possible at every step; theorems |
| `ExecArgs`, `ElfImage` | the arguments of `execve()` on the new stack; the placing of the program and its interpreter |
| `CoreDump` | the core dump of a thread group |
| `FileTable`, `PidTable`, `CopyProcess`, `WaitChildren` | `fs/file.c`, `kernel/pid.c`, `kernel/fork.c`, `kernel/exit.c` |
| `PidTableProofs`, `CopyProcessProofs`, `WaitChildrenProofs` | theorems about the last three |
| `MCKernel` | instances of the eight components above (extends `PidTable`, `ExecLoad`, `CopyProcess` and `WaitChildren`, whose constants the cfg gives) |
| `GroupSignals` | signals of the thread groups of one process group |
| `HbClocks`, `Djit`, `FastTrack`, `RaceDetector`, `RaceDetectorProofs` | the race detectors, with happens-before beside the clocks; theorems |
| `MCSignalsAndRaces` | instances of the two above (extends `RaceDetector`) |
| `FifoQueue`, `LifoStack`, `KeyValueMap` | abstract specifications: a queue, a stack, a map |
| `ConcurrentQueue`, `ConcurrentStack`, `ChainedHashTable`, `OpenHashTable`, `BloomFilter` | the data structures; the first four with their refinement mapping |
| `StructuresProofs` | theorems |
| `MCStructures`, `MCBloomFilter` | their instances (`MCStructures` extends `BloomFilter` and `ConcurrentStack`); the values that make the filter deadlock |
| `ProducerConsumer`, `OmpProducerConsumer`, `HaloExchange`, `ExecTraceHook` | the programs and the trace module |
| `AsyncMm`, `DeferredMmput` | the two deferred teardowns |
| `TeardownProofs` | theorems about both |
| `MCPrograms` | instances of the programs beside those of `MCStructures`, which it extends |
| `MCAsyncMm` | the small instance of `AsyncMm` for the teardown that happens twice |

`MCKernel`, `MCExecTeardown`, `MCPrograms` and `MCSignalsAndRaces` hold several
components at once: a variable (`kind`, `kernel`) fixed by the initial state says which
of them runs, and the others stand still.  Each of these modules extends the components
with theorems, so that the run checks the definitions that the theorems name, and
takes the others by INSTANCE; so the names of those components differ (`PidNext`, `ForkNext`,
`WaitNext`, `StackNext`, `AsyncNext`, `DeferredNext`).  TLC so explores the sum of their state
spaces and not the product.  A property that several components have in common
("calls return") is stated once over all of them.

### ExecDeThread

One `pc` per thread names the place in the code (listed at the head of the
module).  A section under `siglock` or `tasklist_lock` is one step.  What the code
reads or writes outside the locks is a step of its own, because the errors of
this code live there: the test in front of the early-wake block (`ExitCheck`,
exit.c:786), the second load of `group_exec_task` for the log (`OptDeref`), the two
unlocked stores that end `de_thread()` (`DeThreadFinal`, `DeThreadClear`).
`Env` says which calls the program and its environment make, so that a run can
say which of them a property needs.  `asleep` with `Runnable` is `TASK_KILLABLE`.
One siglock is assumed; that the optimised mode may split it (exec.c:1232) is not
modelled.

### ExecLoad

`b` is the `linux_binprm`; `mem`, `mm`, `cred`, `fref`, `wcount` and the two locks are what
it takes and must give back.  Each function of `bprm_execve()` and `load_elf_binary()`
is a step with a failing alternative; behind `begin_new_exec()`'s point of no return a
failure kills.  Scripts and `misc` formats rewrite `b` and start the search again, up
to the limit of exec.c:1831.  A reader (`mm_access`) and writers of the files run beside.
The wait for other threads is `ExecDeThread`, the data that the loader handles are
the two modules that follow.

### ExecArgs, ElfImage

`ExecArgs` keeps bytes: a character is negative, NUL is 0 and a pointer is a unit, so
that what create_elf_tables() writes can be read back from `mm.sp` on as a program does.
`user` is the memory of the caller, which another thread may change (`Write`) between
the strnlen_user() of a string (`NextString`) and the copy of each of its pages (`CopyChunk`).
`copy_string_kernel()`, whose source nobody else can reach, is one step.  `load_script()`,
outside the sources, is the three pushes and the change of the interpreter that they serve.
In `ElfImage` an address holds a byte of a file, zero, the stack or a hole; `vm_mmap()`
is any free place, of the bases an instance names.  A program is what a linker writes
(`WellFormed`).

### CoreDump

Marking a thread and looking at `core_state` is one step, under `siglock`; the
`xchg()` that links its `core_thread` and the store of the result in `next` are two, as
the list is broken between them, and the count that the dumping thread waits for comes
after both.  The layout (`Headers`) computes a plan of what is to be written and every
offset in it; `Write` writes one item of the plan and moves the position by what
`writenote()` and the alignments really take.  `coredump_wait()` and `coredump_finish()`
are external.

### FileTable, PidTable

`FileTable` cuts the critical sections of `file_lock` where `expand_files()` lets it go;
the lock-free parts (`fget` with its second look, `fd_install` with
`resize_in_progress`) are steps of their own.  A bit array is a set, and the words of the second-level
bitmap are kept as words, since the copy by words is where the code and its comment
part (section 4).  `sysctl nr_open` may be lowered while the tasks run.  The inner
namespace of `PidTable` may die during a fork; `zap_pid_ns_processes()`, which is not
in `pid.c`, is external.  A call of `fork()` is made by a task that does nothing else
meanwhile (`InFork`), and leaves its process group and session to the child.  A step that
takes the last task from several pids frees them all, as the code does under
`tasklist_lock` (`FreePids` of a set).  The choice of another reaper when one exits
(`find_child_reaper()`) is external too: a reaper leaves its pid when it is alone (`Detach`), or to
a thread that takes its place (`ExecExchange`).  Scripts limit what each task calls.

### CopyProcess, WaitChildren, GroupSignals

`CopyProcess` keeps for each part of a task (files, fs, sighand, signal, mm) an
identity and a count; the label at which an error enters the ladder determines what
is undone.  `WaitChildren` follows each waiter through its look at the children, one
child at a time under the read lock, and its sleep; `exit_notify()`, which holds the
write lock, is one step.  `plan` says who exits, stops and waits.  `Announced` are the processes
whose last thread has been through `exit_notify()`; another of their threads may still be in the
lists, and then they count as a link of their process group though nobody will look at the group
again when they go.  `late` marks the groups that are left to them (section 4).  A step of `GroupSignals`
is a critical section of `siglock`; which thread a shared signal is pointed at, is a
choice made as `complete_signal()` makes it.  `AllHandled` and `NoSurvivor` relate the
child that a fork adds to the signals its group was sent.

### The data structures

Each load and each compare-and-swap of the queue and the stack is a step, and any mix of
calls runs side by side; `deq()` and `pop()` free a node, `enq()` and `push()` may get any
free address.  Weak compare-and-swaps can fail without a reason.  Queue tags
are taken modulo `TagMod`.  Both structures delete a node that another thread may still
have the address of, and the code prevents it nowhere; history variables say
when it has happened.  In the queue, `stale` are the threads whose address is that of a node
deleted since; when one of them reads or writes there, it is at `dangling` and the behaviour
ends, as it is undefined from there on (`DanglingAccess`).  In the stack, `stale` are the
pops whose `old_top` was deleted since they loaded it; free memory that they read holds
anything (`FoundAt`), and the behaviour goes on.  `aba` is set when the exchange of such a pop
succeeds, since the node is the top again.  A call of the Bloom filter is expanded, by the branch
that its three stripes select, into a list of instructions; `|=` is two.  In the
chained table a parallel loop gives each key of a batch its own thread, which finds the
bucket, and in a later step works on it; `check_and_resize()` is one step for each node it
moves, and the nodes that it loses are lost in the model too.  In the open-addressing table one
mutex covers each call, so that a call is one step and one caller stands for all; a resize
whose search does not end sets `stuck`, and no call follows it, the mutex being held.
`KeyValueMap`, which both implement, has no action that forgets a key; an insert may be
refused for lack of room in the open table only (`Bounded`).

### The programs and the teardowns

`ProducerConsumer` and `OmpProducerConsumer` follow the threads access by access; `missed`,
`raced` and `mixed` mark that the threads have met in a way the code does not handle
(section 4).  `HaloExchange` has blocking and buffering (`eager`) sends.  `ExecTraceHook`
sets `tangled` when two calls overlap.  In the teardowns there is one step for each
atomic operation on a count; the filters of the handlers (sysctls, sizes, `kmalloc`)
together are one nondeterministic choice, as they read tunables that change at any
time.  The reset of the deferred statistics writes one of them at a time.

### HbClocks, Djit, FastTrack, RaceDetector

Every event handler is a step.  Beside the clocks, `past` and `lockPast` record by
sets of accesses what happens before what, so the tool is compared with the
definition and not with another computation of clocks.  The traces are those of
a correct use of threads and locks.  `kept` marks the accesses that the tool
stored, `frame` their time frame; `late` is set when a thread begins after the
thread whose clock it takes over has learnt of further accesses.  The read of the
uninitialised `thread_time` in FastTrack is a choice among all times.


## 3. Runs

All runs are in `PROJECT.json` with their properties, and each property has a
mutant of the code that breaks it.

| Run | Shows |
|---|---|
| `exec_original` | The unmodified scheme, with every call of the environment: 4 threads, one created by `clone`, up to 2 successful execs.  `OriginalInv` is inductive here (and proved, section 5); exec refines `ExecAtomic`; the loser of two execs dies; every exec and exit ends. |
| `exec_opt` | The optimised scheme when threads exit only because exec or `exit_group` killed them: the count is exact, no thread of the old image runs, identities are exchanged, every exec ends, and a group exit reaches the threads that linger in the early-wake block.  Beside it both deferred teardowns: one teardown of each address space, not under a user, with exact counter and statistics, and in the end each is torn down (`SpacesTornDown`). |
| `kernel` | File table, pid table, `copy_process`, loading, exit and wait: references, bitmaps and counts are exact at every step of every failure; a number stands for one pid and the reaper of a namespace is the last; a failed exec leaves the old program; a child is reported once and to a waiter that exists; orphaned stopped groups are continued; a new program finds the strings, the segments and the tables it was given, whatever other threads write meanwhile; a complete core file describes itself and no thread leaves while it is read; every call ends. |
| `signals_and_races` | A group stop counts each of its threads once while threads are born and end; stop and continue never are both pending; a shared signal has a thread that will take it; a signal to a process group misses no fork.  Both race detectors, on all traces of 3 threads, 1 lock, 1 address, 3 accesses and 3 time frames: soundness and completeness as far as they hold.  Safety only. |
| `programs` | The queue is a FIFO queue until an access to a deleted node, which takes two enqueuers or two dequeuers; the stack is a LIFO stack, with allocated links, until `aba`; both hash tables answer as maps do, and a growth of the chained one loses no more than the rest of the chain of the node it moves; no bit of the filter is lost.  Lines in order and all of them (`OutputExact`, with the durations of the trace), extrema of the whole domain.  Calls return and programs end (`ProgramsEnd`). |
| `exec_opt_crash` | Fails: `wake_up_process(NULL)` in `exit_notify()`. |
| `exec_opt_hang` | Fails: an exec that never returns. |
| `bloom_crossed` | Fails: two adds deadlock. |
| `chained_rehash` | Fails: a growth of the chained table loses keys. |
| `async_mm_twice` | Fails: an address space is torn down twice. |
| `race_missed` | Fails: a race that FastTrack misses. |
| `fd_table_cut` | Fails: a copied file table keeps bits past its end. |

Bounds.

* exec: the parent reaps with `wait4` in `exec_original` and ignores SIGCHLD in
  `exec_opt`.  `MaxExecs = 2` lets the threads of a first exec meet a second one, where
  identities and lingering threads go wrong; four threads are a leader, a caller, a
  victim and one that is created meanwhile.
* `kernel`: each script is a pair or triple of call sequences that meet at one hazard:
  an open that must grow the table beside a `dup2`, a `close`, a reader, an exec; a fork
  into a namespace whose reaper exits; a vfork whose parent is killed; an exec beside
  a `clone(CLONE_FS)`.  Words have two bits, so that a table of four has two words and
  a copy of it may be cut in the middle.  Four numbers in a namespace, the first of which is
  given out before the counter wraps only, make the cyclic allocation wrap.  The programs include a script chain that
  reaches the limit of rewrites and a script that is its own interpreter.  Strings are longer
  than a page of four, empty, too long, without end, or lose or gain a NUL by two writes
  while they are copied; one stack limit is reached; two scripts in a row rewrite the
  arguments.  Programs have one or two segments with or without a bss, empty or with a
  gap between them, at addresses on and off a page, fixed or not, aligned to one page or two,
  with and without an interpreter.  Three threads crash, exit or are killed in any
  order; the memory has more areas than the header can count (`PN_XNUM` is two), a
  file name that does not fit at first, or no area.  Seven tasks are
  the fewest for a process between two sessions' groups with a threaded parent and a
  threaded child.
* signals: three threads, at most two processes; the senders' lists pair a stop with the
  continue or the kill that cancels it.  Three accesses are enough for a write, a read and
  an access that meets both; the third thread makes epochs lose information.
* `programs`, data structures: in the queue two threads enqueue and two dequeue from the start, one of the
  latter twice, with three addresses, so that memory is reused and each of the four accesses to a deleted node is
  reached (the next of the tail's node, read and written; the next of the dummy; the value behind it); with one
  thread of each kind under way at a time none is.  `TagMod = 4` is
  less than the number of updates, so tags wrap.  In the stack three threads push and pop as they like, one of
  them three times, with two addresses: the fewest with which a popped address is on top again, over another
  next, before a slow pop exchanges.  The filter's values take every branch of `add()`, with bytes of two bits so
  that values share a byte, and lock upwards.  In the chained table keys 1 and 2 share a bucket, and 3 and
  4, and the second key of a bucket makes it grow (`BUCKET_THRESHOLD` is 100 in the code, so there a growth
  moves a chain of 101 nodes, of which 100 are lost; with 1 it loses one).  In the open one all keys begin at one slot, or
  (the second of `Codes`) the key 6 with step 6 meets occupied slots only in a table of eight and the
  resize does not end.
* `programs`: a producer wants three lines, the buffer holds two and the file has four, so it fills
  up in the middle of a producer's share.  The halo cases have two, three and four
  ranks, in a line and in a square, with ties.  The trace stack is one shorter than the
  call chain.
* `exec_opt`, teardowns: the limit of deferred teardowns is one, and two tasks may pass it together; an
  address space has up to three tasks, the other one and a reader.

`CHECK_DEADLOCK FALSE` stands in every run: calls, traces and processes end, and
then no step is left.  Deadlocks of the code are caught by the liveness
properties (and by `NoDeadlock`).  `KernelCallsEnd`, `SpacesTornDown` and `ProgramsEnd`
have the form `<>[](nothing under way)`: as the scripts are finite, this says that every call
returns, and is cheaper to check than one leads-to per call.  What `ProgramsEnd` excuses is in its
definition (`AnyBusy`, `AtEnd`) and in section 4: a dangling access of the queue, a
resize of the open table while it holds an entry whose search does not visit all slots, and `missed`, `raced`, `mixed`
of the producers and consumers.

Fairness.  The kernel runs runnable threads: weak fairness of the steps of
each thread (a step disabled by sleep is not forced), of the worker, the work
items and a module exit that has begun.  Where a step waits for a lock that others
take and give back again and again (`FileTable`, `ExecLoad`, `WaitChildren`, the pthread
mutexes), strong fairness is assumed: the kernel's locks are queued, and POSIX leaves the
choice to a scheduler that is not expected to starve one thread for ever.  No program has to make a call, no signal
has to be sent, the parent need not wait; that `init` waits is assumed where it is what
`WaitChildren` promises about (`Inherited`).  In the queue and the stack each thread keeps
running, and a weak compare-and-swap that can succeed again and again does (strong
fairness of `EnqHelp` with `EnqLink`, and of `PushCas`): the C++ standard asks implementations to make spurious
failures rare.  In the Bloom filter weak fairness is enough since calls are
bounded.

## 4. Disagreements between code and documentation

With a run:

* `exec_opt_crash` - the exec thread clears `group_exec_task` and `notify_count`
  without a lock while the early-woken thread has yet to run `exit_notify()`.
* `exec_opt_hang` - the unlocked test of `do_exit()`: a thread that passes it
  just before `de_thread()` starts is counted and never gives its count back.
* `bloom_crossed` - `add()` with two stripes does not lock in stripe order.
* `chained_rehash` - `check_and_resize()` saves `current->next` and does not use what it has saved
  (problem1/241110079.h:129-140): the first node of each chain is moved, the rest is lost.  The bucket that
  makes the table grow has more than one node, so every growth loses keys ("Rehash all
  existing elements", line 109).
* `async_mm_twice` - the worker overtakes the decrement of the intercepted
  `mmput()`, whose decrement is then the one that reaches zero.
* `race_missed` - the first read of an address is not compared with the last
  write.
* `fd_table_cut` - `copy_fd_bitmaps()` copies `full_fds_bits` in whole words and clears only
  what lies behind them.

Seen in the same models by changing a constant or stating a further formula, and
not kept as runs:

* exec, `Env` with `kill`: a thread that took its SIGKILL before a fatal signal
  was merged into it sleeps in the early-wake block for ever, so
  `GroupExitCompletes` fails (exit.c:817; "this kills every thread in the thread
  group", exit.c:1038).
* exec, `Tracked = FALSE`: `zap_other_threads()` leaves exiting threads out of the
  count but `__exit_signal()` counts them down, so `AllOthersExited` fails
  (signal.c:1376; fs/exec.c:1113).
* exec, `OptOn = TRUE` with one exec: the threads left behind by an exec stay
  asleep in `do_exit()` until a later group action, so `ExitCompletes` fails
  (exit.c:817; cs614/multi_thread_opt/README.md:291).
* loading: `cred_guard_mutex` stays locked when `get_unused_fd_flags()` fails after the
  credentials are installed (fs/exec.c:1445-1457, 1547-1550), while the comment at 1518-1523
  has it given back in every case; the process dies at once, so nobody waits for it.
  The comment at 1831-1835 allows four rewrites and the loop five.
* image: the comment at binfmt_elf.c:1083 says that the whole region was mapped with
  `MAP_FIXED_NOREPLACE` before the later segments use `MAP_FIXED`; for `ET_EXEC` only the first
  segment was.  Nothing else is mapped there yet but the stack, which `WellFormed` keeps
  apart.  `load_elf_interp()` zeroes the last bss only (line 694), so an interpreter is
  assumed to have no other.
* exit: `kill_orphaned_pgrp()` looks at a group when the last thread of a process is in
  `exit_notify()`.  `will_become_orphaned_pgrp()` goes on counting the process as a link while
  another of its threads is in the lists; a group whose other link ends in that time, or that
  stops in that time, is an orphan afterwards and gets no SIGHUP and SIGCONT (`late`; exit.c:281-282,
  "Newly orphaned process groups are to receive a SIGHUP and a SIGCONT").  The first case was
  found when the invariant of section 5 could not be proved without it; the instance of the run is too
  small for it.  A waiter with
  `__WNOTHREAD` is not woken when a zombie of another thread becomes its own; a
  stop is not told again to a new parent.
* async_mm: the count that `__mmput()` would drop stays, so no intercepted
  `mm_struct` has `mm_count` 0 in the end (time.c:341); a reader can enter between
  the test and the increment of the handler and have the address space torn down
  under it (time.c:404), so `NoTeardownInUse` holds for tasks of the address space
  only.
* deferred mmput: the test of the limit and the increment are two steps
  (apply_patch.py:309, 323), so `pending` can exceed the maximum (`PendingBounded`).
  A reset beside running work leaves statistics of different pasts: `StatsExact`
  states what holds until then (`mixed`).
* DJIT+: clocks start at 1, the time of the first frame, so races of first frames
  are never logged (commonutil.h:195); with two creating threads the top of the
  stack is the wrong parent and ordered accesses are logged (`Creators = {0, 1}`,
  djit.h:99); a child takes over its parent's clock when it begins, not when it is
  created, hence `late`.
* FastTrack: a read compares the last write with the clock of the last reader (fasttrack.h:17-18), shared reads
  use an uninitialised variable (fasttrack.h:52-53), and a write compares the last read with the clock
  of the last writer (fasttrack.h:99), so R-W and W-R logs can be false: both are in traces of three accesses.
  `ReportsTrue` speaks of its W-W logs only.  First writes and writes by the last writer are not
  compared with reads (fasttrack.h:79-91).
* queue: `deq()` deletes the old dummy at once (problem2/241110079.h:121) while another `deq()`, or an `enq()`
  whose tail lags, holds a pointer to it.  The driver runs threads of both kinds at once, and the run reaches all these
  accesses; what comes after them is not followed.  `DanglingOnlyCrowded` says what they take: two
  `enq()` or two `deq()` at once.
* stack: `pop()` deletes its node at once too (concurrent_stack.cpp:17-28), and the top has no tag or count, which
  the assignment asks for (cs610/assignment5/questions/assignment5.pdf, page 3).  A pop that reads the next of a node already
  freed, or freed and pushed again, and then finds it on top, installs a wrong next (`aba`).  The run
  reaches it.
* open-addressing table: the search for a free slot in a resize has no bound (hash_table.cpp:203), and
  when the step shares a factor with the capacity it may visit occupied slots for
  ever, with the mutex held (`stuck`); `ProgramsEnd` says that it takes such a step.  `insert()`
  does not look for the key, and the key 0 marks an empty slot, so keys
  are inserted once and are not 0.
* pthread producer/consumer: `pthread_cond_wait` is called with a mutex that was just unlocked
  (prob2.cpp:89-90) and not in a loop, so the signal may come first and all threads wait
  (`missed`), or the wait unlocks the other thread's section (`raced`).
* OpenMP producer/consumer: all threads share `tid` (problem3.cpp:146); a task that runs
  with another's number (`mixed`) may fill the buffer past its bound, count past its
  share and keep `main()` in its loop.
* trace module: all threads of a process share one stack, and `set_pid()` resets it without
  the lock (exec_hook.c:99, 156); the stack has no meaning once calls overlap (`tangled`).

## 5. Proofs

Every theorem holds for every value of the constants that its assumptions allow: any
finite set of threads, tasks or files, any number of address spaces, stripes, programs or
accesses.  The invariants were checked by TLC before they were proved.  28 theorems in eight
modules are listed in `PROJECT.json`; 21 of the properties that the runs check are among
them.

**Thread-group exec, both modes** (`ExecDeThreadProofs`).

* `TypeCorrect`: `Spec => []TypeOK`.  The only part that is not local is `notify_count >= -1`: it
  is decremented only when positive, and its initial value is a cardinality less at most
  one.

**The unmodified scheme** (the same module, `OptOn = FALSE`, every environment).

* `OriginalInvariant`: `Spec => []OriginalInv`.  None of the safety properties is inductive
  alone.  `NotifyCountExact` needs that a thread inside `de_thread()` is unique
  (`ExecTaskExact`), that nobody can join the group meanwhile (`OthersDoomed`: all
  others in the program have a SIGKILL pending, so they cannot clone) and that the
  list is the set of threads not released (`ListExact`).  What follows the wait
  needs `FewLeft`, that only the caller and the leader are on the list, and
  `NegativeExact`, that -1 appears only in the second wait, without which
  `exit_notify()` could meet a NULL task.  One lemma per part of the invariant
  shows that every action preserves it, and their conjunction is the step.
* `OriginalSafe`: the safety properties follow from the invariant.
* `OriginalIsAtomic`: `Spec => ImplementsExecAtomic`; each action is
  a step of `ExecAtomic` or leaves its variables alone, `NewImage` being `Replace`
  because `FewLeft` says that only the caller is left.
* `OriginalWinnerAlone`: the action property `WinnerAlone`, that the wait of an exec
  ends with everybody else gone and a refused exec has its SIGKILL pending.  The latter needs two more
  invariants: `QuickExact`, that `quick_threads` counts the threads which have not begun to exit,
  and `GroupDoomed`, that a group exit leaves nobody in the program without a SIGKILL.

**The optimised scheme** (the same module).  The hypothesis `Optimised` says
that the optimisation is on, the exec is tracked, and no thread calls `exit()` of its own
accord.  The last is not a convenience: one such call makes the count wrong and the exec
hang (`exec_opt_hang`) or the kernel crash (`exec_opt_crash`).  `exit_group()`, signals that
kill, `clone()` and any number of execs are allowed.

* `OptimisedInvariant`.  The early-wake block changes what the count means: it counts
  threads that have not been *counted down*, not those that are left, and those
  that have been linger on the list.  `ExitCause` says why a thread is on its way out (a group exit or an
  exec that has counted it), `KillCause` why a SIGKILL is pending; together they tie each thread in front
  of the block to the exec that waits for it, so that the count is their number.
* `OptimisedCountExact`, `OptimisedExecSound`: the properties `NotifyCountExact` and
  `ExecSound` that the run `exec_opt` checks.
* `OptimisedIsAtomic`: exec refines `ExecAtomic` in this mode too, where an image is
  replaced while old threads are still on the list.

The liveness of this mode under `kill` is false (section 4), though its safety is proved
with it.

**Loading a program** (`ExecLoadProofs`, under `ConstantsOK`).

* `LoadInvariant`.  A failure may strike at each of some thirty steps, and what must be
  given back differs at each of them.  The invariant says it for every step: `BprmExact`, which files
  the `linux_binprm` holds and with which denial of writing; `MemoryExact`, which memory the call and the
  task hold; `UpdateExact`, who has `exec_update_lock`; `FailureExact`, that an error before the point of no return
  finds the old program whole; `ProgramExact` and `SeenExact`, whose memory goes with whose
  credentials, for the task and for a reader in `mm_access()`.
* `LoadFilesExact` (`FilesExact`): each file's count of denials is the number of its holders.  The steps
  move a denial from one holder to another, release or take one; each is an equation
  on `Denials(f)` from the holder that the step changes.
* `LoadIsSound` (`LoadSound`): an error leaves the old program, memory and credentials
  change together.

**copy_process, vfork, unshare** (`CopyProcessProofs`, under `ForkConstantsOK`).

* `CopySharingSound` (`SharingSound`): the counts are the users, a failed fork gives back what it
  took, a completed vfork is that of a parent which waits, no `task_struct` is reused in use.
  `UsersExact` says a count as the cardinality of the tasks that have the part, plus the calls of
  `unshare()` that hold a new one; each step changes these sets in one task, so what has to be known
  is whether that task was in the set.  That is said by the labels: `TaskShape` for a task that exits,
  `MadeShape` for `unshare()`, and for a new task `CopyShape` (what the stages before this one
  have taken) and `UndoShape` (what the labels from this one on undo).  An error turns the one into the
  other, which is right because of the order of the labels (`LadderExact`).  `ParentsShape`
  and `UsageExact` keep the child of a parent its own; `DoneShape` and `VforkValid` the completion
  on its stack.  `ExecShape` says that an exec which found its `fs_struct` unshared
  stays alone with its group in it (`in_exec`).

**Exit and wait** (`WaitChildrenProofs`, under `WaitConstantsOK`: any family of processes and threads, any
process groups, any plan of exits, stops and waits).

* `WaitInvariant`.  `Life` ties the place of a thread to its `exit_state`, `DeadLists` gives each dead task
  that is still in the lists to one thread that releases it, `Looks` keeps what a scan under the
  read lock holds, `Reports` the counts of the reports.  `Linked` is why orphans are continued: a
  stopped job has a link that is not `Announced`; so the exit that breaks the last such link is
  in `exit_notify()` then and looks at the group, or the group is `late` (section 4).  `AtHome`: a child
  leaves the process that forked it only when none of its threads is alive, hence a parent
  that misses the notice of a stop does not wait.
* `WaitZombiesExact` (`ZombiesExact`): an end is reported once, a task released once, every child has a
  parent that will see to it, no orphaned group is left stopped.
* `WaitServesAll` (`WaitersServed`): no lost wake-up in `do_wait()`.  `Served` relates each thread
  on its way to sleep to what its look has seen so far (`Seen`): nothing to report, and, if it is to
  sleep, a child that will still have to be reported, unless it has been woken since it set its state.
  Each change of a child is shown to leave this alone or to wake the thread.

**The deferred mmput** (`TeardownProofs`).

* `DeferredInvariant`, `DeferredTornDownAlone`, `DeferredPendingCovers`:
  `TornDownAlone` and `PendingCoversWork`.  `UsersExact`
  says that `mm_users` is the number of the tasks still in the address space, so the task
  that takes it to 0 is the last one there (`OwnerAlone`); it either tears down itself or hands
  over to the work item (`NobodyAfter`).  `PendingExact` counts a unit of the
  counter for each task between the increment and `queue_work()` and for each work item
  under way, and `QueueWork` moves a unit from the former to the latter.
* `DeferredStatsExact` (`StatsExact`): until a reset meets running work, the statistics are those of
  the work that has been accounted.  `StatInv` says for each statistic which work items have
  reached it, as a work item writes one after the other: counts, the sum and the maximum of
  the latencies, and the bucket of each.  `BucketIsRank` states that the chain of comparisons in
  `update_latency_bucket()` is the number of limits not above the latency.  The run takes the latencies 3 and
  1000, so that maximum, sum and bucket differ.

**async_mm** (`TeardownProofs`, under `AsyncConstantsOK`).

* `AsyncInvariant`, `AsyncNoUseAfterTeardown` (`NoUseAfterTeardown`): no address space is torn down, and no
  `mm_struct` freed, in use, for any number of address spaces, tasks that share them
  and readers, and for an unloading of the module at any moment.  `UsersExact` counts the
  tasks that have yet to drop `mm_users` and the extra reference of each work item,
  in a handler, on the list or in hand; so whoever finds 1 is alone (`Sole`), and what comes after
  that (`Emptied`) has no task of the address space beside it.  `CountCovers` is an inequality,
  since the count of an intercepted `mm_struct` is not given back (section 4); `FinalOnce`
  gives `Base`, the one unit of `mm_count` that all users hold together, a single owner.
  The steps of the worker and of the module exit are the same, and proved once.

**The pid table** (`PidTableProofs`, under `PidConstantsOK`).

* `PidInvariant` has a part for each way in which the table could come apart.  `Forks`: the pid of a `fork()`
  in progress belongs to no other call and has no task, and its numbers are those of the namespaces
  it does not want any more.  `Numbered`: a number leads to the visible pid that has it, or is reserved for
  one that is being made; a fork that gives its numbers back (`Unwind`) therefore takes none from another.
  `Listed`: the lists of a pid are the tasks that have it, by their own number or by that of the group
  they lead, and a visible pid has a task or a fork that is about to attach one.  `Counted`: the counts
  are cardinalities.  `Reapers`: the reaper leads a group and has number 1.
* `PidTableExact` (`PidsExact`).  That `free_pid()` does not warn (a namespace with a reaper that has no pid left)
  needs `Reapers`: the pid of the reaper is not among those that are freed.  A reaper that finds the count at 1
  is alone, since its own pid is visible and the count covers every visible one; it stays
  alone because `alloc_pid()` makes no pid visible once `PIDNS_ADDING` is cleared, and a fork that has
  a visible one by then is counted.
* What changes the lists is proved in two shapes: `RelistInv` for the calls that only move tasks between
  the lists and free what is left (`Detach`, `SetSid`), `AttachedInv` for a task that joins.

**The Bloom filter** (`StructuresProofs`).

* `FilterIsSound` (`FilterSound`): no set bit is lost, and a value that was added is found, for any number of
  threads, values and stripes.  A call is a list of instructions; the invariant relates the place in it to
  the stripes the thread holds, hence a stripe has one holder, and the byte that a thread has read
  in the first half of a `|=` is still that byte in the second.  The bits of a finished
  `add()` are those its list names, by an argument on the position in the list.
  Deadlock (`bloom_crossed`) does not contradict this: a filter that hangs loses no bit.

**The lock-free stack** (`StructuresProofs`, under `StackConstantsOK`).

* `StackSoundLinks` (`SoundLinks`): until `aba`, every node from the top on is allocated, and the exchange of a pop
  that is not stale installs the link of the node that it removes.  Nothing is assumed about
  who pushes and who pops, or when.  The nodes are a chain of different nodes
  (`IsChain`); a push owns a node outside of it (`PushOwns`), a pop that has exchanged owns the one
  it deletes (`PopOwns`).  The top has no tag, so what a pop has read stays true only
  as long as nobody deletes its node: `stale` has every pop for which that has happened (`Holding`), and
  for the others the node is in the chain or with the pop that took it, hence not pushed again, and its
  next is what was read.  The theorem therefore says also that `aba` is the only way in which
  the links go wrong; after it nothing is claimed.
* `StackIsLifo` (`ImplementsStack`): until then each successful exchange is the step of `LifoStack`, and every
  other step leaves the abstract stack alone.  The mapping walks from the top; that the walk is
  the chain is an induction along it, done with the least number at which they would differ.

**The race detectors** (`RaceDetectorProofs`, `OneCreator`: one thread creates the others).

* `RaceInvariant` has two halves.  `HbInv` relates clocks and happens-before: what happens before the
  next event of a thread is in its clock (`PastKnown`), no clock knows of a frame that its thread has not left
  (`Ahead`), so an access past the first frames which a clock knows of did happen
  before (`KnownPast`).  `StackSound` says that the stack is as deep as there are threads that were
  created and have not ended, so its top is their creator.  The other half relates histories and
  write epochs to the trace (`HistoryExact`, `LastWriteExact`).
* `DetectorsReportTrue` (`ReportsTrue`), `DetectorsReportRaces` (`RacesReported`).

With two creators the top of the stack may be the wrong one and both theorems are false
(section 4); that is why `OneCreator` is assumed.  The R-W and W-R logs of FastTrack are not among the
properties, since they can be false.

The assumptions on the constants are the `ASSUME` of `ExecDeThread` and the `...ConstantsOK` of the other
modules, which the modules of the runs evaluate for their instances.

What stays with TLC: all liveness (`ProgramsEnd`, `KernelCallsEnd`, `SpacesTornDown`, `ExecReturns` and the others
under fairness), as the provers treat neither liveness under fairness nor ENABLED; what recursive functions of
data compute (the layouts of `ExecArgs`, `ElfImage` and `CoreDump`), as the induction theorems with an operator
parameter cannot be used, and a descent to a least counterexample, as for the stack, would have to be
repeated for each function; and the safety of the other components without proofs: file
table, signals, queue, hash tables, the producer/consumer programs, the halo
exchange and the trace module.  No module uses RECURSIVE operators.

## 6. Not modelled

Whole components:

* the exec probe module (`exec_memory_teardown_opt_2/time.c`): kretprobes that match `execve()`
  and `exit_mmap()` through one global variable and print a latency; no other part
  reads its state;
* numeric kernels (blocking, AVX, OpenMP loops, CUDA): loops over arrays without shared
  control state;
* the word count: threads that add to counters of their own under a mutex or atomically, where
  the interleaving changes no result;
* drivers, benchmarks, scripts and plots; third-party code (`moodycamel::ConcurrentQueue`,
  which one benchmark uses as a baseline, and the Linux kernel outside the modified files).

Left out of the parts that are modelled in part:

* exec: the split siglock of the optimised mode; ptrace; cgroups; `transfer_args_to_stack()` (no MMU),
  `load_elf_library()`, ELF properties, set-user-id programs; the copying of the address space itself;
* core dump: the contents of the notes, the variant without register sets (not built for x86),
  `coredump_wait()` and `coredump_finish()`, which are not among the sources;
* file table: `f_dupfd`, `receive_fd`, `iterate_fd`, `fget_task`, which repeat the steps
  of the operations kept, and the reuse of a `struct file` by the allocator;
* pid table: pidfds, the start of the system;
* `copy_process`: namespaces, caches of stacks, seccomp and the scheduler's part;
* signals: siginfo queues, POSIX timers, the freezer, `SIGNAL_UNKILLABLE`, and a second
  instance of a group signal that is already pending, which `legacy_queue()` drops;
* exit and wait: `__WCLONE`, resource usage, parent-death signals, several sessions, the end of `init`, and
  more than one stop per group;
* async_mm, deferred mmput: sysfs, sysctl and /proc plumbing, the symbol lookup, the text
  patching of the kernel by `apply_patch.py`;
* race detectors: the parsing of traces, and accesses wider than a byte, which the tools
  treat byte by byte;
* Bloom filter and queue: `print()`, `toString()` and destructors, which run alone;
* trace module: the text of the log; the removal of the module, which does not wait for running hooks;
  the comparison of names by prefix (`memcmp` with the length of the tracked name).

## 7. Plan

What remains, most useful first:

1. `GroupSignals` as theorems: a group stop counts each thread once (`StopExact`), from the threads' `jobctl` and
   the order of the list.
2. `FileTable`: the bitmaps, and the references at each window of `file_lock`.
3. `ConcurrentQueue` refines `FifoQueue` as the stack does `LifoStack`, with the tags in the invariant.
4. exec, optimised mode: `unshare_sighand()` while threads of the old program still hold the
   old sighand (exec.c:1232), with one siglock for each half; the hang and the
   crash of section 4 do not need it.
5. `ExecLoad` composed with `ExecDeThread` by way of the abstract `ExecAtomic`, and `CoreDump` with
   the group exit of `GroupSignals`.
6. Liveness of the signals: every group stop that is not cancelled completes.
