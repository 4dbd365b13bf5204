---------------------------- MODULE WaitChildren ----------------------------
(***************************************************************************)
(* kernel/exit.c: a process that ends finds a parent for its children,     *)
(* tells its own parent and stays a zombie until a thread of the parent    *)
(* waits for it.  do_wait() looks at the children under the read lock of   *)
(* tasklist_lock, one at a time; whoever changes the lists has the write   *)
(* lock, so one step.                                                      *)
(***************************************************************************)
EXTENDS Integers, FiniteSets, FiniteSetsExt

CONSTANTS
  Threads, Leader,    \* the threads, and of each its group leader
  Parent, Pgrp,       \* of each leader: the first real_parent, the process group
  InitTask,           \* child_reaper of the namespace; it does not exit
  AnyChild,           \* PIDTYPE_MAX: a wait for any child
  Plans               \* what the threads may do

Leaders == {Leader[t] : t \in Threads}
Group(p) == {t \in Threads : Leader[t] = p}
WaitFlags ==
  {"WEXITED", "WNOHANG", "WNOWAIT", "WUNTRACED", "WCONTINUED", "__WNOTHREAD"}

WaitConstantsOK ==
  /\ Leader \in [Threads -> Threads] /\ \A t \in Threads : Leader[Leader[t]] = Leader[t]
  /\ InitTask \in Leaders
  /\ Parent \in [Leaders -> Threads] /\ Parent[InitTask] = InitTask
  /\ \A plan \in Plans :
       /\ plan.exits \subseteq Threads \ {InitTask} /\ plan.signals \subseteq Threads
       /\ plan.ignores \subseteq Leaders /\ plan.subreapers \subseteq Leaders
       /\ plan.stops \subseteq Leaders
       /\ \A t \in Threads : plan.waits[t] \subseteq
            [pid : Leaders \cup {AnyChild}, flags : SUBSET WaitFlags]

VARIABLES
  plan,            \* who may exit, wait, be stopped; who ignores SIGCHLD or
                   \*   is_child_subreaper
  calls,           \* the waits a thread may still begin
  phase,           \* of each thread: run, exiting, release, gone;
                   \*   in do_wait: repeat, scan, reap, sleep, reaped
  frame,              \* the local variables of exit_notify() and do_wait()
  awake,           \* FALSE: TASK_INTERRUPTIBLE
  exit_state, hashed, real_parent,
  stop,            \* of each group: no, stopped, reported, continued
  note,            \* the groups about to tell their parent of a stop
  stops,           \* the groups that have been stopped
  late,            \* the groups that only processes already counted as ended link
                   \*   when they stop, or when another link of theirs ends
  got, released    \* how often each was reported, and released

waitVars ==
  <<plan, calls, phase, frame, awake, exit_state, hashed, real_parent, stop, note, stops,
    late, got, released>>
treeVars == <<exit_state, hashed, real_parent, released>>
jobVars == <<stop, note, stops, late>>

NoWait == [pid |-> AnyChild, flags |-> {}]
EmptyFrame ==
  [wo |-> NoWait, child |-> FALSE, todo |-> {}, p |-> InitTask, dead |-> {}, group_dead |-> FALSE]

WaitInit ==
  /\ plan \in Plans
  /\ calls = [t \in Threads |-> IF plan.waits[t] = {} THEN 0 ELSE 1]
  /\ phase = [t \in Threads |-> "run"] /\ frame = [t \in Threads |-> EmptyFrame]
  /\ awake = [t \in Threads |-> TRUE]
  /\ exit_state = [t \in Threads |-> "alive"] /\ hashed = Threads
  /\ real_parent = Parent
  /\ stop = [p \in Leaders |-> "no"] /\ note = {} /\ stops = {} /\ late = {}
  /\ got = [p \in Leaders |-> [exit |-> 0, stop |-> 0, cont |-> 0]]
  /\ released = [t \in Threads |-> 0]

Become(t, l) == phase' = [phase EXCEPT ![t] = l]
SetFrame(t, r) == frame' = [frame EXCEPT ![t] = r]

\* Nobody has the read lock of tasklist_lock.
NoReader == \A t \in Threads : phase[t] \notin {"scan", "reap"}
Waiting == {t \in Threads : phase[t] \in {"repeat", "scan", "reap", "sleep"}}

\* thread_group_empty(p), for the threads that are in the lists
GroupEmpty(p, threads) == Group(p) \cap threads \subseteq {p}
Ignored(p, parents) == Leader[parents[p]] \in plan.ignores

PF_EXITING(t) == phase[t] \in {"exiting", "release", "gone"}

\* Mutant: only the thread that forked the child is woken.
WokenThread(ps, parents) ==
  {t \in Waiting : \E p \in ps : t = parents[p] /\ frame[t].wo.pid \in {p, AnyChild}}

\* child_wait_callback(): the waiters of the parents that news of ps wakes.
Woken(ps, parents) ==
  {t \in Waiting : \E p \in ps :
     /\ Leader[t] = Leader[parents[p]]
     /\ frame[t].wo.pid \in {p, AnyChild}
     /\ "__WNOTHREAD" \in frame[t].wo.flags => t = parents[p]}
WakeUpParent(ps, parents) ==
  awake' = [t \in Threads |-> awake[t] \/ t \in Woken(ps, parents)]

-----------------------------------------------------------------------------
(* The jobs *)

\* will_become_orphaned_pgrp(); two processes that have a parent that is not
\* init are in one session here.
Orphaned(q, ignored, states, threads, parents) ==
  \A p \in threads \cap Leaders :
    (/\ Pgrp[p] = q /\ p \notin ignored
     /\ ~(states[p] # "alive" /\ GroupEmpty(p, threads))
     /\ Leader[parents[p]] # InitTask)
    => Pgrp[Leader[parents[p]]] = q
Stopped(p) == stop[p] \in {"stopped", "reported"}
StoppedJobs(q) == {p \in Leaders \cap hashed : Pgrp[p] = q /\ Stopped(p)}

\* The processes whose last thread has been through exit_notify(), which has
\* looked at their group for the end of the process; as long as another of their
\* threads is in the lists they still count as a link.
Announced ==
  {p \in Leaders : \A t \in Group(p) :
     PF_EXITING(t) /\ ~(phase[t] = "exiting" /\ frame[t].group_dead)}

\* The group q has a link, but only processes that are announced.
OnlyAnnounced(q) ==
  /\ ~Orphaned(q, {}, exit_state, hashed, real_parent)
  /\ Orphaned(q, Announced, exit_state, hashed, real_parent)

\* do_signal_stop() of a terminal's stop: a group that is an orphan goes on.
Stop(p) ==
  /\ p \in plan.stops \ stops /\ NoReader
  /\ \E t \in Group(p) : phase[t] = "run"
  /\ ~Orphaned(Pgrp[p], {}, exit_state, hashed, real_parent)
  /\ stop' = [stop EXCEPT ![p] = "stopped"]
  /\ stops' = stops \cup {p} /\ note' = note \cup {p}
  /\ late' = IF OnlyAnnounced(Pgrp[p]) THEN late \cup {p} ELSE late
  /\ UNCHANGED <<plan, calls, phase, frame, awake, treeVars, got>>

Continue(p) ==
  /\ Stopped(p) /\ stop' = [stop EXCEPT ![p] = "continued"]
  /\ note' = note \cup {p}
  /\ UNCHANGED <<plan, calls, phase, frame, awake, stops, late, treeVars, got>>

\* do_notify_parent_cldstop(), a step after the flags are set
NotifyStop(p) ==
  /\ p \in note /\ note' = note \ {p}
  /\ WakeUpParent({p}, real_parent)
  /\ UNCHANGED <<plan, calls, phase, frame, stop, stops, late, treeVars, got>>

-----------------------------------------------------------------------------
(* The end of a thread *)

\* exit_signals() sets PF_EXITING, do_exit() counts signal->live down.  The end
\* of the group takes its job-control flags (synchronize_group_exit(), a kill).
ExitSignals(t) ==
  /\ phase[t] = "run" /\ t \in plan.exits /\ Leader[t] \notin note
  /\ Stopped(Leader[t]) => Group(Leader[t]) = {t}
  /\ LET last == \A u \in Group(Leader[t]) \ {t} : PF_EXITING(u)
     IN /\ SetFrame(t, [EmptyFrame EXCEPT !.group_dead = last])
        /\ stop' = IF last THEN [stop EXCEPT ![Leader[t]] = "no"] ELSE stop
  /\ Become(t, "exiting")
  /\ UNCHANGED <<plan, calls, awake, note, stops, late, treeVars, got>>

\* Mutant: a thread that ends may inherit.
AnyThreads(p) == Group(p) \cap hashed

\* find_alive_thread()
AliveThreads(p) == {t \in Group(p) \cap hashed : ~PF_EXITING(t)}

\* The ancestors of a thread, nearest first.
Ancestor(t) ==
  LET up[n \in 0 .. Cardinality(Threads)] ==
        IF n = 0 THEN t ELSE real_parent[Leader[up[n - 1]]]
  IN up

\* find_new_reaper()
NewReapers(t) ==
  LET up == Ancestor(t)
      found == {n \in 1 .. Cardinality(Threads) :
                 /\ Leader[up[n]] \in plan.subreapers /\ AliveThreads(Leader[up[n]]) # {}
                 /\ \A m \in 1 .. (n - 1) : Leader[up[m]] # InitTask}
  IN IF AliveThreads(Leader[t]) # {} THEN AliveThreads(Leader[t])
     ELSE IF found # {} THEN AliveThreads(Leader[up[Min(found)]])
     ELSE {InitTask}

\* The groups that the exit of t leaves without a connection: those of its
\* children when they get a parent in another process, its own when it is the
\* last thread.
LeftAlone(t, kids, heir, parents) ==
  LET me == Leader[t]
      apart == IF Leader[heir] = me THEN {}
               ELSE {Pgrp[p] : p \in {k \in kids : exit_state[k] # "dead"}} \ {Pgrp[me]}
      own == IF frame[t].group_dead /\ Pgrp[Leader[parents[me]]] # Pgrp[me]
                /\ Leader[parents[me]] # InitTask
             THEN {Pgrp[me]} ELSE {}
  IN {q \in apart : Orphaned(q, {}, exit_state, hashed, parents)}
     \cup {q \in own : Orphaned(q, {me}, exit_state, hashed, parents)}

\* kill_orphaned_pgrp(): SIGHUP and SIGCONT to a group with stopped jobs
KillOrphaned(qs) ==
  LET jobs == UNION {StoppedJobs(q) : q \in qs}
  IN /\ stop' = [p \in Leaders |-> IF p \in jobs THEN "continued" ELSE stop[p]]
     /\ note' = note \cup jobs

\* exit_notify(): forget_original_parent() with reparent_leader() of each
\* child, and the notice to the own parent.
ExitNotify(t) ==
  /\ phase[t] = "exiting" /\ NoReader
  /\ \E heir \in NewReapers(t) :
       LET kids == {p \in Leaders \cap hashed : real_parent[p] = t}
           parents == [p \in Leaders |-> IF p \in kids THEN heir ELSE real_parent[p]]
           told == IF Leader[heir] = Leader[t] THEN {}
                   ELSE {p \in kids : exit_state[p] = "zombie" /\ GroupEmpty(p, hashed)}
           me == {p \in {t} : p \in Leaders /\ GroupEmpty(p, hashed)}
           dead == {p \in told \cup me : Ignored(p, parents)}
                   \cup (IF t \in Leaders THEN {} ELSE {t})
       IN /\ real_parent' = parents
          /\ exit_state' = [p \in Threads |->
               IF p \in dead THEN "dead" ELSE IF p = t THEN "zombie" ELSE exit_state[p]]
          /\ KillOrphaned(LeftAlone(t, kids, heir, parents))
          /\ WakeUpParent(told \cup me, parents)
          /\ SetFrame(t, [frame[t] EXCEPT !.dead = dead])
          /\ Become(t, IF dead = {} THEN "gone" ELSE "release")
  /\ UNCHANGED <<plan, calls, hashed, released, got, stops>>
  /\ late' = late \cup {p \in Leaders : Stopped(p)' /\ OnlyAnnounced(Pgrp[p])'}

\* release_task(): the last thread of a group whose leader is a zombie tells
\* the parent of the leader, and releases the leader when the parent ignores it.
ReleaseTask(t, p) ==
  /\ phase[t] \in {"release", "reaped"} /\ p \in frame[t].dead /\ NoReader
  /\ LET left == hashed \ {p}
         last == {l \in {Leader[p]} \ {p} : GroupEmpty(l, left) /\ exit_state[l] = "zombie"}
         zap == {l \in last : Ignored(l, real_parent)}
         dead == (frame[t].dead \ {p}) \cup zap
     IN /\ hashed' = left
        /\ WakeUpParent(last, real_parent)
        /\ exit_state' = [u \in Threads |-> IF u \in zap THEN "dead" ELSE exit_state[u]]
        /\ released' = [released EXCEPT ![p] = @ + 1]
        /\ SetFrame(t, IF dead = {} THEN EmptyFrame ELSE [frame[t] EXCEPT !.dead = dead])
        /\ Become(t, IF dead # {} THEN phase[t] ELSE IF phase[t] = "release" THEN "gone" ELSE "run")
  /\ UNCHANGED <<plan, calls, real_parent, jobVars, got>>

-----------------------------------------------------------------------------
(* do_wait() *)

Wait(t) ==
  /\ phase[t] = "run" /\ calls[t] > 0 /\ ~Stopped(Leader[t])
  /\ calls' = [calls EXCEPT ![t] = IF t = InitTask THEN @ ELSE @ - 1]
  /\ \E wo \in plan.waits[t] : SetFrame(t, [EmptyFrame EXCEPT !.wo = wo])
  /\ Become(t, "repeat")
  /\ UNCHANGED <<plan, awake, treeVars, jobVars, got>>

\* The wait is over: it leaves the queue.
WaitReturns(t) == Become(t, "run") /\ SetFrame(t, EmptyFrame) /\ awake' = [awake EXCEPT ![t] = TRUE]

\* do_wait_pid() looks at one task, do_wait_thread() at each child.
Children(t) ==
  LET wo == frame[t].wo
      mine == IF "__WNOTHREAD" \in wo.flags THEN {t} ELSE Group(Leader[t])
  IN {p \in Leaders \cap hashed : real_parent[p] \in mine /\ wo.pid \in {p, AnyChild}}

SetInterruptible(t) == awake' = [awake EXCEPT ![t] = FALSE]

\* repeat: set_current_state(TASK_INTERRUPTIBLE), then the read lock.
Repeat(t) ==
  /\ phase[t] = "repeat" /\ SetInterruptible(t)
  /\ SetFrame(t, [frame[t] EXCEPT !.child = FALSE, !.todo = Children(t)])
  /\ Become(t, "scan")
  /\ UNCHANGED <<plan, calls, treeVars, jobVars, got>>

HasFlag(t, f) == f \in frame[t].wo.flags
Rest(t, p) == [frame[t] EXCEPT !.todo = @ \ {p}]

\* delay_group_leader(): a leader with threads left
Reapable(p) == exit_state[p] = "zombie" /\ GroupEmpty(p, hashed)

\* wait_task_stopped() and wait_task_continued(), each under siglock; without
\* WNOWAIT the report is the only one.
ReportStop(t, p) ==
  \/ /\ HasFlag(t, "WUNTRACED") /\ stop[p] = "stopped"
     /\ stop' = [stop EXCEPT ![p] = IF HasFlag(t, "WNOWAIT") THEN @ ELSE "reported"]
     /\ got' = [got EXCEPT ![p].stop = IF HasFlag(t, "WNOWAIT") THEN @ ELSE @ + 1]
  \/ /\ HasFlag(t, "WCONTINUED") /\ stop[p] = "continued"
     /\ stop' = [stop EXCEPT ![p] = IF HasFlag(t, "WNOWAIT") THEN @ ELSE "no"]
     /\ got' = [got EXCEPT ![p].cont = IF HasFlag(t, "WNOWAIT") THEN @ ELSE @ + 1]
NoStopToReport(t, p) ==
  /\ ~(HasFlag(t, "WUNTRACED") /\ stop[p] = "stopped")
  /\ ~(HasFlag(t, "WCONTINUED") /\ stop[p] = "continued")

\* wait_consider_task(), in any order of the list
Consider(t, p) ==
  /\ phase[t] = "scan" /\ p \in frame[t].todo
  /\ \/ /\ exit_state[p] = "dead"
        /\ SetFrame(t, Rest(t, p)) /\ UNCHANGED <<phase, awake, stop, got>>
     \/ /\ Reapable(p) /\ HasFlag(t, "WEXITED") /\ ~HasFlag(t, "WNOWAIT")
        /\ Become(t, "reap") /\ SetFrame(t, [frame[t] EXCEPT !.p = p]) /\ UNCHANGED <<awake, stop, got>>
     \/ /\ Reapable(p) /\ HasFlag(t, "WEXITED") /\ HasFlag(t, "WNOWAIT")
        /\ WaitReturns(t) /\ UNCHANGED <<stop, got>>
     \/ /\ Reapable(p) /\ ~HasFlag(t, "WEXITED")
        /\ SetFrame(t, Rest(t, p)) /\ UNCHANGED <<phase, awake, stop, got>>
     \/ /\ exit_state[p] # "dead" /\ ~Reapable(p)
        /\ \/ ReportStop(t, p) /\ WaitReturns(t)
           \/ /\ NoStopToReport(t, p)
              /\ SetFrame(t, [Rest(t, p) EXCEPT !.child = TRUE])
              /\ UNCHANGED <<phase, awake, stop, got>>
  /\ UNCHANGED <<plan, calls, treeVars, note, stops, late>>

\* Mutant: the state is set without looking at it.
ReapsAnyway(p) == TRUE

\* wait_task_zombie(): cmpxchg(&p->exit_state, EXIT_ZOMBIE, EXIT_DEAD)
MayReap(p) == exit_state[p] = "zombie"
Reap(t) ==
  LET p == frame[t].p
  IN /\ phase[t] = "reap"
     /\ \/ /\ MayReap(p)
           /\ exit_state' = [exit_state EXCEPT ![p] = "dead"]
           /\ got' = [got EXCEPT ![p].exit = @ + 1]
           /\ awake' = [awake EXCEPT ![t] = TRUE]
           /\ SetFrame(t, [EmptyFrame EXCEPT !.dead = {p}]) /\ Become(t, "reaped")
        \/ /\ ~MayReap(p) /\ SetFrame(t, Rest(t, p)) /\ Become(t, "scan")
           /\ UNCHANGED <<exit_state, got, awake>>
     /\ UNCHANGED <<plan, calls, hashed, real_parent, released, jobVars>>

\* notask: -ECHILD without a child to wait for, 0 with WNOHANG
Notask(t) ==
  /\ phase[t] = "scan" /\ frame[t].todo = {}
  /\ \/ (~frame[t].child \/ HasFlag(t, "WNOHANG")) /\ WaitReturns(t)
     \/ frame[t].child /\ ~HasFlag(t, "WNOHANG") /\ Become(t, "sleep") /\ UNCHANGED <<frame, awake>>
  /\ UNCHANGED <<plan, calls, treeVars, jobVars, got>>

\* schedule(), or -ERESTARTSYS when a signal is pending
Schedule(t) ==
  /\ phase[t] = "sleep" /\ awake[t] /\ Become(t, "repeat")
  /\ UNCHANGED <<plan, calls, frame, awake, treeVars, jobVars, got>>
Interrupted(t) ==
  /\ phase[t] = "sleep" /\ t \in plan.signals /\ WaitReturns(t)
  /\ UNCHANGED <<plan, calls, treeVars, jobVars, got>>

WaitStep(t) ==
  \/ ExitNotify(t)
  \/ \E p \in Threads : ReleaseTask(t, p)
  \/ Repeat(t) \/ \E p \in Leaders : Consider(t, p)
  \/ Reap(t) \/ Notask(t) \/ Schedule(t)

WaitNext ==
  \/ \E t \in Threads : ExitSignals(t) \/ Wait(t) \/ Interrupted(t) \/ WaitStep(t)
  \/ \E p \in Leaders : Stop(p) \/ Continue(p) \/ NotifyStop(p)

WaitSpec == WaitInit /\ [][WaitNext]_waitVars

\* Strong fairness of the steps of each thread: init may wait for ever, which can
\* keep the write lock away only for a time, for the lock is fair.
\* (ENABLED WaitStep(t) is written out: TLC is slow to find it.)
CanStep(t) ==
  \/ phase[t] \in {"repeat", "scan", "reap"}
  \/ phase[t] = "sleep" /\ awake[t]
  \/ phase[t] \in {"exiting", "release", "reaped"} /\ NoReader
Steps(t) == phase[t] # "run" /\ <<phase'[t], frame'[t]>> # <<phase[t], frame[t]>>
Fairness ==
  /\ ([]<>(\E t \in Threads \ {InitTask} : CanStep(t))
        => []<><<\E t \in Threads \ {InitTask} : Steps(t)>>_waitVars)
  /\ ([]<>CanStep(InitTask) => []<><<Steps(InitTask)>>_waitVars)
  /\ WF_waitVars(Wait(InitTask))
WaitFairSpec == WaitSpec /\ Fairness

-----------------------------------------------------------------------------
(* A child that ends is reported to one wait of one thread or, if its parent *)
(* ignores SIGCHLD, to none; a stop is reported once; no task is released    *)
(* twice, and none before it is dead (wait_task_zombie(), exit_notify(),     *)
(* release_task()).                                                          *)
ReportedOnce ==
  /\ \A p \in Leaders :
       /\ got[p].exit <= 1 /\ got[p].stop <= 1 /\ got[p].cont <= 1
       /\ got[p].exit = 1 => exit_state[p] = "dead"
  /\ \A t \in Threads :
       /\ released[t] <= 1
       /\ t \notin hashed => exit_state[t] = "dead" /\ released[t] = 1

(* Every task has a parent that has not yet given its children away, and a   *)
(* zombie whose parent ignores SIGCHLD is not left to anyone                 *)
(* (find_new_reaper(), reparent_leader(), release_task()).                   *)
HasHeir ==
  \A p \in (Leaders \cap hashed) \ {InitTask} :
    /\ phase[real_parent[p]] \notin {"release", "gone"}
    /\ Reapable(p) => ~Ignored(p, real_parent)

(* A process group that has become an orphan has no stopped process: it was  *)
(* sent SIGHUP and SIGCONT (kill_orphaned_pgrp()).  Excepted is a group that *)
(* is left to a link whose end has been announced while one of its threads   *)
(* has yet to leave: will_become_orphaned_pgrp() counts it, and nobody looks *)
(* again when it goes.                                                       *)
OrphansContinued ==
  \A p \in (Leaders \cap hashed) \ late :
    Stopped(p) => ~Orphaned(Pgrp[p], {}, exit_state, hashed, real_parent)

(* What exit_notify(), release_task() and do_wait() promise of the dead and   *)
(* the stopped: every end is reported and released once, nobody is left      *)
(* without a parent, and no orphaned group is left stopped.                  *)
ZombiesExact == ReportedOnce /\ HasHeir /\ OrphansContinued

(* No thread sleeps in do_wait() while there is something to report to it,   *)
(* or nothing left to wait for.  The news of a stop counts when it has been   *)
(* sent, to this process.  A wait with __WNOTHREAD is left out: it is not    *)
(* woken when a zombie of another thread of the process becomes its own.     *)
WaitersServed ==
  \A t \in Threads :
    (phase[t] = "sleep" /\ ~awake[t] /\ ~HasFlag(t, "__WNOTHREAD")) =>
      /\ \A p \in Children(t) :
           /\ HasFlag(t, "WEXITED") => ~Reapable(p)
           /\ (p \notin note /\ Leader[Parent[p]] = Leader[t]) => NoStopToReport(t, p)
      /\ HasFlag(t, "WEXITED") => \E p \in Children(t) : exit_state[p] # "dead"

(* A zombie that init inherits is released, when init waits for its          *)
(* children; a wait whose process has no child left ends.                    *)
Inherited(p) ==
  /\ calls[InitTask] > 0
  /\ p \in hashed /\ exit_state[p] # "alive" /\ GroupEmpty(p, hashed)
  /\ Leader[real_parent[p]] = InitTask
WaitsForNone(t) == t \in Waiting /\ Children(t) = {}
ZombiesGo ==
  /\ \A p \in Leaders : Inherited(p) ~> ~Inherited(p)
  /\ \A t \in Threads \ {InitTask} : WaitsForNone(t) ~> ~WaitsForNone(t)
=============================================================================
