---------------------------- MODULE DeferredMmput ----------------------------
(***************************************************************************)
(* exec_deferred_mmput(), which cs614/exec_memory_teardown_opt_2 adds to   *)
(* the kernel: the last execve() out of a large address space does the     *)
(* quick part of its teardown and leaves the page tables to a work item of *)
(* a dedicated, unbound workqueue.                                         *)
(*                                                                         *)
(* Every task leaves its mm once, by execve() or by exit (mmput()).  Each  *)
(* atomic operation is a step.  Of the gates only the backpressure counter *)
(* is modelled; the others (sysctl, size, free memory) are a choice.       *)
(***************************************************************************)
EXTENDS Integers, FiniteSets, FiniteSetsExt

CONSTANTS
  Tasks,
  Mms,
  MmOf,        \* the old mm of each task
  MaxPending,  \* sysctl_exec_async_max_pending
  Latencies,   \* what ktime_us_delta() can return
  MaxResets    \* bound on the writes to /proc/exec_teardown_stats

DeferredConstantsOK ==
  /\ IsFiniteSet(Tasks) /\ IsFiniteSet(Mms) /\ IsFiniteSet(Latencies)
  /\ MmOf \in [Tasks -> Mms]
  /\ MaxPending \in Nat \ {0}
  /\ Latencies \subseteq Nat
  /\ MaxResets \in Nat

VARIABLES
  tpc,          \* of each task
  work,         \* of each mm: the place of its work item
  users,        \* mm->mm_users
  torn,         \* how often the page tables were taken down
  pending,      \* teardown_pending
  asyncCount,   \* teardown_async_count
  syncCount,    \* teardown_sync_count
  us,           \* the latency the work of an mm has measured
  oldMax,       \* what its loop has read of teardown_max_us
  maxUs,        \* teardown_max_us
  totalUs,      \* teardown_total_us
  bucket,       \* latency_bucket
  reset,        \* the place of a writer in teardown_stats_write()
  resets,       \* how many writes there have been
  base,         \* the mms measured when the last write began
  mixed         \* has a write overlapped the accounting of a teardown?

statVars == <<asyncCount, syncCount, us, oldMax, maxUs, totalUs, bucket>>
resetVars == <<reset, resets, base, mixed>>
deferredVars == <<tpc, work, users, torn, pending, statVars, resetVars>>

Buckets == 0..4

DeferredInit ==
  /\ tpc = [t \in Tasks |-> "in_mm"]
  /\ work = [m \in Mms |-> "none"]
  /\ users = [m \in Mms |-> Cardinality({t \in Tasks : MmOf[t] = m})]
  /\ torn = [m \in Mms |-> 0]
  /\ pending = 0 /\ asyncCount = 0 /\ syncCount = 0
  /\ us = [m \in Mms |-> 0] /\ oldMax = [m \in Mms |-> 0]
  /\ maxUs = 0 /\ totalUs = 0
  /\ bucket = [b \in Buckets |-> 0]
  /\ reset = "none" /\ resets = 0 /\ base = {} /\ mixed = FALSE

TaskGoto(t, l) == tpc' = [tpc EXCEPT ![t] = l]
WorkGoto(m, l) == work' = [work EXCEPT ![m] = l]
TearDown(m) == torn' = [torn EXCEPT ![m] = @ + 1]

-----------------------------------------------------------------------------
(* Leaving the address space *)

\* Mutants: the test is off by one user, in either direction.
LastTwoUsers(m) == users[m] <= 2
NoUserLeft(m) == users[m] = 0

\* atomic_dec_and_test(&mm->mm_users).
LastUser(m) == users[m] = 1

\* mmput() on exit: the last user tears down at once.
Exit(t) ==
  /\ tpc[t] = "in_mm"
  /\ users' = [users EXCEPT ![MmOf[t]] = @ - 1]
  /\ TaskGoto(t, IF LastUser(MmOf[t]) THEN "mmput" ELSE "done")
  /\ UNCHANGED <<work, torn, pending, statVars>>

\* exec_deferred_mmput(): only the last user goes on.
ExecDec(t) ==
  /\ tpc[t] = "in_mm"
  /\ users' = [users EXCEPT ![MmOf[t]] = @ - 1]
  /\ TaskGoto(t, IF LastUser(MmOf[t]) THEN "gate" ELSE "done")
  /\ UNCHANGED <<work, torn, pending, statVars>>

QueueNotFull == pending < MaxPending

\* Mutant: the pending counter is forgotten.
GateSkipsCount(t) ==
  /\ tpc[t] = "gate"
  /\ TaskGoto(t, "sync") \/ (QueueNotFull /\ TaskGoto(t, "queue"))
  /\ UNCHANGED <<work, users, torn, pending, statVars>>

\* The gates; WARN_ON(work_pending()) is one that never closes.  Phase 1
\* (uprobe_clear_state, exit_aio, ksm_exit, khugepaged_exit) belongs to the
\* step: nobody else has the mm.
Gate(t) ==
  /\ tpc[t] = "gate"
  /\ TaskGoto(t, "sync") \/ (QueueNotFull /\ TaskGoto(t, "inc"))
  /\ UNCHANGED <<work, users, torn, pending, statVars>>

IncPending(t) ==
  /\ tpc[t] = "inc"
  /\ pending' = pending + 1
  /\ TaskGoto(t, "queue")
  /\ UNCHANGED <<work, users, torn, statVars>>

QueueWork(t) ==
  /\ tpc[t] = "queue"
  /\ WorkGoto(MmOf[t], "queued")
  /\ TaskGoto(t, "count_async")
  /\ UNCHANGED <<users, torn, pending, statVars>>

CountAsync(t) ==
  /\ tpc[t] = "count_async"
  /\ asyncCount' = asyncCount + 1
  /\ TaskGoto(t, "done")
  /\ UNCHANGED <<work, users, torn, pending, syncCount, us, oldMax, maxUs,
                 totalUs, bucket>>

\* __mmput(), for an exit or as the fallback of an execve(), which counts it
\* while the sysctl is on.
SyncTeardown(t) ==
  /\ tpc[t] \in {"mmput", "sync"}
  /\ TearDown(MmOf[t])
  /\ \/ syncCount' = syncCount + 1 /\ tpc[t] = "sync"
     \/ syncCount' = syncCount
  /\ TaskGoto(t, "done")
  /\ UNCHANGED <<work, users, pending, asyncCount, us, oldMax, maxUs, totalUs,
                 bucket>>

-----------------------------------------------------------------------------
(* exec_deferred_mmput_fn(), in a kworker of its own for each mm *)

\* exit_mmap() and the rest up to mmdrop().
WorkTeardown(m) ==
  /\ work[m] = "queued"
  /\ TearDown(m)
  /\ \E l \in Latencies : us' = [us EXCEPT ![m] = l]
  /\ WorkGoto(m, "total")
  /\ UNCHANGED <<tpc, users, pending, asyncCount, syncCount, oldMax, maxUs,
                 totalUs, bucket>>

WorkTotal(m) ==
  /\ work[m] = "total"
  /\ totalUs' = totalUs + us[m]
  /\ WorkGoto(m, "max")
  /\ UNCHANGED <<tpc, users, torn, pending, asyncCount, syncCount, us, oldMax,
                 maxUs, bucket>>

\* The head of the loop: atomic64_read(&teardown_max_us).
WorkReadMax(m) ==
  /\ work[m] = "max"
  /\ oldMax' = [oldMax EXCEPT ![m] = maxUs]
  /\ WorkGoto(m, IF us[m] > maxUs THEN "cmpxchg" ELSE "bucket")
  /\ UNCHANGED <<tpc, users, torn, pending, asyncCount, syncCount, us, maxUs,
                 totalUs, bucket>>

\* Mutant: a store where the code has a compare-and-exchange.
StoreWins(m) == TRUE

Unchanged(m) == maxUs = oldMax[m]

\* Its condition: atomic64_cmpxchg().
WorkCmpxchg(m) ==
  /\ work[m] = "cmpxchg"
  /\ maxUs' = IF Unchanged(m) THEN us[m] ELSE maxUs
  /\ WorkGoto(m, IF Unchanged(m) THEN "bucket" ELSE "max")
  /\ UNCHANGED <<tpc, users, torn, pending, asyncCount, syncCount, us, oldMax,
                 totalUs, bucket>>

BucketOf(l) ==
  IF l < 1000 THEN 0
  ELSE IF l < 5000 THEN 1
  ELSE IF l < 20000 THEN 2
  ELSE IF l < 100000 THEN 3 ELSE 4

\* update_latency_bucket() and the page total.
WorkBucket(m) ==
  /\ work[m] = "bucket"
  /\ bucket' = [bucket EXCEPT ![BucketOf(us[m])] = @ + 1]
  /\ WorkGoto(m, "dec")
  /\ UNCHANGED <<tpc, users, torn, pending, asyncCount, syncCount, us, oldMax,
                 maxUs, totalUs>>

WorkDec(m) ==
  /\ work[m] = "dec"
  /\ pending' = pending - 1
  /\ WorkGoto(m, "finished")
  /\ UNCHANGED <<tpc, users, torn, statVars>>

-----------------------------------------------------------------------------
(* teardown_stats_write(): the counters are set to 0 one after the other; the *)
(* pending counter is not among them.                                          *)

\* What has been measured, and whether something is being accounted for.
Measured == {m \in Mms : work[m] \in {"dec", "finished"}}
Accounting ==
  \/ \E m \in Mms : work[m] \in {"queued", "total", "max", "cmpxchg", "bucket"}
  \/ \E t \in Tasks : tpc[t] = "count_async"

ResetTo(l) ==
  /\ reset' = l /\ resets' = resets
  /\ base' = base /\ mixed' = (mixed \/ Accounting \/ Measured # base)
  /\ UNCHANGED <<tpc, work, users, torn, pending, us, oldMax>>

ResetCounts ==
  /\ reset = "none" /\ resets < MaxResets
  /\ reset' = "total" /\ resets' = resets + 1
  /\ base' = Measured /\ mixed' = (mixed \/ Accounting)
  /\ asyncCount' = 0 /\ syncCount' = 0
  /\ UNCHANGED <<tpc, work, users, torn, pending, us, oldMax, maxUs, totalUs, bucket>>

ResetTotal ==
  /\ reset = "total" /\ ResetTo("max")
  /\ totalUs' = 0
  /\ UNCHANGED <<asyncCount, syncCount, maxUs, bucket>>

\* Mutant: the maximum is not reset.
KeepMax == UNCHANGED maxUs

ClearMax == maxUs' = 0

ResetMax ==
  /\ reset = "max" /\ ResetTo("buckets")
  /\ ClearMax
  /\ UNCHANGED <<asyncCount, syncCount, totalUs, bucket>>

ResetBuckets ==
  /\ reset = "buckets" /\ ResetTo("none")
  /\ bucket' = [b \in Buckets |-> 0]
  /\ UNCHANGED <<asyncCount, syncCount, maxUs, totalUs>>

Reset == ResetCounts \/ ResetTotal \/ ResetMax \/ ResetBuckets

-----------------------------------------------------------------------------
Leave(t) ==
  /\ \/ Gate(t) \/ IncPending(t) \/ QueueWork(t) \/ CountAsync(t)
     \/ SyncTeardown(t)
  /\ UNCHANGED resetVars

Work(m) ==
  /\ \/ WorkTeardown(m) \/ WorkTotal(m) \/ WorkReadMax(m) \/ WorkCmpxchg(m)
     \/ WorkBucket(m) \/ WorkDec(m)
  /\ UNCHANGED resetVars

DeferredNext ==
  \/ \E t \in Tasks : (Exit(t) \/ ExecDec(t)) /\ UNCHANGED resetVars
  \/ \E t \in Tasks : Leave(t)
  \/ \E m \in Mms : Work(m)
  \/ Reset

\* The kernel runs a task inside execve() or exit and every queued work item
\* (WQ_UNBOUND, as many workers as needed); no task has to leave.
DeferredSpec == DeferredInit /\ [][DeferredNext]_deferredVars
DeferredFairSpec ==
  /\ DeferredSpec
  /\ \A t \in Tasks : WF_deferredVars(Leave(t))
  /\ \A m \in Mms : WF_deferredVars(Work(m))

-----------------------------------------------------------------------------
InFlight == {m \in Mms : work[m] \notin {"none", "finished"}}

\* "Decrement pending LAST -- signals work is fully complete": each item that
\* is queued or running is in the count, so no count of 0 hides one.
PendingCoversWork == Cardinality(InFlight) <= pending

\* The owner of the last reference is alone: the page tables go once, and
\* while no task is left in the address space ("we own this mm exclusively").
TornDownAlone ==
  \A m \in Mms :
    /\ torn[m] <= 1
    /\ torn[m] = 1 => \A t \in Tasks : MmOf[t] = m => tpc[t] # "in_mm"

Limits == <<1000, 5000, 20000, 100000>>

\* The teardowns since the last write, and the microseconds some have taken.
Counted == Measured \ base
Micros(S) == UNION {{m} \X (1..us[m]) : m \in S}

\* When no work is in flight the statistics agree: teardown_max_us is the
\* largest latency measured, although the items race to raise it, the total
\* is their sum, the histogram has each of them between its limits, and all
\* are counted ("<1ms, 1-5ms, 5-20ms, 20-100ms, >100ms").  After a write they
\* are those of the teardowns since, unless it overlapped one ("any non-zero
\* write resets all counters").
StatsExact ==
  InFlight = {} /\ reset = "none" /\ ~mixed =>
    /\ maxUs = Max({us[m] : m \in Counted} \cup {0})
    /\ totalUs = Cardinality(Micros(Counted))
    /\ \A b \in Buckets : bucket[b] =
         Cardinality({m \in Counted :
                        b = Cardinality({i \in 1..4 : Limits[i] <= us[m]})})
    /\ (\A t \in Tasks : tpc[t] # "count_async") =>
         asyncCount = Cardinality(Counted)

\* An address space that all tasks have left is torn down, and its work item
\* comes to an end.
Left(m) == users[m] = 0
Gone(m) == torn[m] = 1 /\ work[m] \in {"none", "finished"}
DeferredTornDownInTheEnd == \A m \in Mms : Left(m) ~> Gone(m)
=============================================================================
