---------------------------- MODULE GroupSignals ----------------------------
(***************************************************************************)
(* Signals of the thread groups of one process group: kernel/signal.c, and *)
(* what fork, clone and exit do to them (kernel/fork.c, kernel/exit.c).  A *)
(* step is a critical section of siglock.  Of the signals there are two    *)
(* that stop, the one that continues, the one that kills and one that a    *)
(* handler may take.  No task is traced, and no exec is under way.         *)
(***************************************************************************)
EXTENDS Integers, Sequences, FiniteSets, FiniteSetsExt, SequencesExt

CONSTANTS
  Threads, Groups, Null,
  Handlers,        \* the first action for "TERM": "DFL", "IGN" or "HANDLER"
  Scripts,         \* the system calls of each thread, in order
  SendLists        \* the signals that come from outside, in order

Numbers == <<"KILL", "TERM", "CONT", "STOP", "TSTP">>
StopMask == {"STOP", "TSTP"}
Calls == {"fork", "clone", "block", "unblock", "pause", "timedwait", "ignore", "handle",
          "exit"}

ConstantsOK ==
  /\ Handlers \subseteq {"DFL", "IGN", "HANDLER"}
  /\ \A f \in Scripts : \A t \in Threads : \A i \in DOMAIN f[t] : f[t][i] \in Calls
  /\ \A l \in SendLists : \A i \in DOMAIN l : l[i] \in ToSet(Numbers) \X {"PID", "TGID", "PGID"}

VARIABLES
  sig,        \* of each group: flags, stop_count, quick_threads, shared, action,
              \* threads (in the order of the list), leader, curr_target
  th,         \* of each thread: group, pending, blocked, real_blocked, saved,
              \* tif (TIF_SIGPENDING), jobctl, exiting, asleep
  siglock,    \* who keeps the lock of a group from one step to the next
  delayed,    \* the signals a fork collects; Null when there is no fork
  pc, child,  \* the step of each thread; the thread it is making
  todo, sends,
  pgrp,       \* a signal on its way through the process group, with the lock
              \* of the task list
  hit,        \* the signals that have gone through it
  handled,    \* those that a process, or its parent before the fork, has handled
  before      \* those that were pending for a process when its fork began

vars == <<sig, th, siglock, delayed, pc, child, todo, sends, pgrp, hit, handled,
          before>>

NoGroup == [flags |-> {}, stop_count |-> 0, quick_threads |-> 0, shared |-> {},
            action |-> "DFL", threads |-> <<>>, leader |-> Null, curr_target |-> Null]
NoThread == [group |-> Null, pending |-> {}, blocked |-> {}, real_blocked |-> {},
             saved |-> {}, tif |-> FALSE, jobctl |-> {}, exiting |-> FALSE,
             asleep |-> "no"]

Live == {g \in Groups : sig[g].threads # <<>>}
Members(g) == ToSet(sig[g].threads)
Group(t) == th[t].group
Action(sg, s) == IF s = "TERM" THEN sg.action ELSE "DFL"

\* One group of two threads.
Init ==
  LET g == CHOOSE x \in Groups : TRUE
      t == CHOOSE x \in Threads : TRUE
      u == CHOOSE x \in Threads \ {t} : TRUE
  IN /\ \E h \in Handlers :
          sig = [x \in Groups |->
            IF x = g THEN [NoGroup EXCEPT !.quick_threads = 2, !.action = h, !.leader = t,
                                          !.threads = <<t, u>>, !.curr_target = t]
            ELSE NoGroup]
     /\ th = [x \in Threads |-> IF x \in {t, u} THEN [NoThread EXCEPT !.group = g]
                                ELSE NoThread]
     /\ siglock = [x \in Groups |-> Null]
     /\ delayed = [x \in Threads |-> Null]
     /\ pc = [x \in Threads |-> IF x \in {t, u} THEN "user" ELSE "none"]
     /\ child = [x \in Threads |-> Null]
     /\ todo \in Scripts /\ sends \in SendLists
     /\ pgrp = Null /\ hit = {}
     /\ handled = [x \in Groups |-> {}] /\ before = [x \in Threads |-> {}]

-----------------------------------------------------------------------------
(* The parts of a critical section work on w: the group, the threads and     *)
(* the collected signals.                                                     *)

World(g) == [g |-> g, sg |-> sig[g], th |-> th, delayed |-> delayed]
Commit(w) ==
  /\ sig' = [sig EXCEPT ![w.g] = w.sg] /\ th' = w.th /\ delayed' = w.delayed
InGroup(w, u) == u \in ToSet(w.sg.threads)
ForEach(w, S, f(_)) ==
  [w EXCEPT !.th = [u \in Threads |-> IF u \in S /\ InGroup(w, u) THEN f(w.th[u]) ELSE w.th[u]]]

\* flush_sigqueue_mask(), on the shared queue and those of the threads
Flush(w, mask) ==
  ForEach([w EXCEPT !.sg.shared = @ \ mask], Threads,
          LAMBDA r : [r EXCEPT !.pending = @ \ mask])

\* signal_wake_up(): only a fatal signal wakes a thread that is stopped.
WakeUp(r, fatal) ==
  [r EXCEPT !.tif = TRUE,
            !.asleep = IF @ = "sleep" \/ (fatal /\ @ = "stopped") THEN "no" ELSE @]

\* recalc_sigpending_tsk()
HasPending(r, sg) ==
  "PENDING" \in r.jobctl \/ (r.pending \cup sg.shared) \ r.blocked # {}
Recalc(w, t) == [w EXCEPT !.th[t].tif = HasPending(w.th[t], w.sg)]

FatalPending(r) == r.tif /\ "KILL" \in r.pending
ClearStop(r) == [r EXCEPT !.jobctl = {}]

\* task_set_jobctl_pending() does nothing for a task that dies.
CanStop(r) == ~FatalPending(r) /\ ~r.exiting
SetStop(r) == [r EXCEPT !.jobctl = @ \cup {"PENDING", "CONSUME"}]

\* task_participate_group_stop()
Participate(w, t) ==
  LET left == IF "CONSUME" \in w.th[t].jobctl THEN w.sg.stop_count - 1 ELSE w.sg.stop_count
      done == "CONSUME" \in w.th[t].jobctl /\ left = 0
  IN [w EXCEPT !.th[t].jobctl = {}, !.sg.stop_count = left,
               !.sg.flags = IF done THEN {"STOPPED"} ELSE @]

\* retarget_shared_pending(): other threads are woken for the signals in which,
\* in the order of the list, until all are taken.
Retarget(w, t, which) ==
  LET From(l, x) == LET i == CHOOSE j \in DOMAIN l : l[j] = x
                    IN SubSeq(l, i + 1, Len(l)) \o SubSeq(l, 1, i - 1)
      Offer(u, acc) ==
        IF w.th[u].exiting \/ acc.left \subseteq w.th[u].blocked THEN acc
        ELSE [left |-> acc.left \cap w.th[u].blocked, woken |-> acc.woken \cup {u}]
      end == FoldLeft(LAMBDA acc, u : Offer(u, acc),
                      [left |-> w.sg.shared \cap which, woken |-> {}], From(w.sg.threads, t))
  IN ForEach(w, end.woken, LAMBDA r : IF r.tif THEN r ELSE WakeUp(r, FALSE))

\* Mutant: the signals a thread is going to block stay its own.
NoRetarget(w, t, which) == w

Retargeted(w, t, which) == Retarget(w, t, which)

\* __set_task_blocked()
SetBlocked(w, t, newset) ==
  LET r == w.th[t]
      w1 == IF r.tif /\ Len(w.sg.threads) > 1 THEN Retargeted(w, t, newset \ r.blocked) ELSE w
  IN Recalc([w1 EXCEPT !.th[t].blocked = newset], t)

-----------------------------------------------------------------------------
(* __send_signal_locked() to thread t *)

\* sig_ignored(); of these signals the default for "CONT" is to be ignored.
Ignored(w, t, s) ==
  /\ s \notin w.th[t].blocked \cup w.th[t].real_blocked
  /\ Action(w.sg, s) = "IGN" \/ s = "CONT"

\* prepare_signal()
Prepare(w, s) ==
  IF s \in StopMask THEN Flush(w, {"CONT"})
  ELSE IF s # "CONT" THEN w
  ELSE LET w1 == ForEach(Flush(w, StopMask), Threads,
                   LAMBDA r : [ClearStop(r) EXCEPT !.asleep = IF @ = "stopped" THEN "no" ELSE @])
       IN IF "STOPPED" \in w.sg.flags \/ w.sg.stop_count > 0
          THEN [w1 EXCEPT !.sg.flags = {"CLD", "CONTINUED"}, !.sg.stop_count = 0]
          ELSE w1

\* wants_signal(); curr are the threads that run on a processor.
Wants(w, u, s, curr) ==
  LET r == w.th[u]
  IN /\ s \notin r.blocked /\ ~r.exiting
     /\ s = "KILL" \/ (r.asleep # "stopped" /\ (u \in curr \/ ~r.tif))

\* zap: every thread of S gets "KILL".
Kill(w, S) ==
  ForEach([w EXCEPT !.sg.flags = {"GROUP_EXIT"}, !.sg.stop_count = 0], S,
          LAMBDA r : WakeUp([ClearStop(r) EXCEPT !.pending = @ \cup {"KILL"}], TRUE))

\* complete_signal(): t gets it, or the first thread from curr_target on that
\* wants it, or none.
Complete(w, t, s, type, curr) ==
  LET l == w.sg.threads
      i == CHOOSE j \in DOMAIN l : l[j] = w.sg.curr_target
      others == SelectSeq(SubSeq(l, i, Len(l)) \o SubSeq(l, 1, i - 1),
                          LAMBDA u : Wants(w, u, s, curr))
      found == Wants(w, t, s, curr) \/ (type # "PID" /\ Len(l) > 1 /\ others # <<>>)
      u == IF Wants(w, t, s, curr) THEN t ELSE Head(others)
      w1 == IF found /\ u # t THEN [w EXCEPT !.sg.curr_target = u] ELSE w
  IN IF ~found THEN w
     ELSE IF s \in {"KILL", "TERM"} /\ Action(w.sg, s) = "DFL" /\ s \notin w.th[u].real_blocked
          THEN Kill(w1, Threads)
          ELSE [w1 EXCEPT !.th[u] = WakeUp(@, s = "KILL")]

\* Mutant: a fork does not collect the signals for the process group.
NotCollected(w, s) == w

\* Signals for many processes appear after the forks under way.
Collect(w, s) ==
  LET against == IF s = "CONT" THEN StopMask ELSE IF s \in StopMask THEN {"CONT"} ELSE {}
  IN [w EXCEPT !.delayed = [u \in Threads |->
        IF InGroup(w, u) /\ w.delayed[u] # Null
        THEN (w.delayed[u] \ against) \cup {s} ELSE w.delayed[u]]]

Send(w, t, s, type, curr) ==
  LET w1 == Prepare(w, s)
      old == IF type = "PID" THEN w1.th[t].pending ELSE w1.sg.shared
      w2 == IF type = "PID" THEN [w1 EXCEPT !.th[t].pending = @ \cup {s}]
            ELSE [w1 EXCEPT !.sg.shared = @ \cup {s}]
      w3 == IF type = "PGID" THEN Collect(w2, s) ELSE w2
  IN IF "GROUP_EXIT" \in w.sg.flags THEN w
     ELSE IF Ignored(w1, t, s) \/ s \in old THEN w1
     ELSE Complete(w3, t, s, type, curr)

Deliver(g, t, s, type) ==
  /\ siglock[g] = Null
  /\ \E curr \in SUBSET {u \in Members(g) : th[u].asleep = "no" /\ pc[u] = "user"} :
       Commit(Send(World(g), t, s, type, curr))

\* kill() and tgkill()
SendOne ==
  /\ sends # <<>> /\ Head(sends)[2] # "PGID"
  /\ \E g \in Live, t \in Threads :
       /\ t \in IF Head(sends)[2] = "PID" THEN Members(g) ELSE {sig[g].leader}
       /\ Deliver(g, t, Head(sends)[1], Head(sends)[2])
  /\ sends' = Tail(sends)
  /\ UNCHANGED <<siglock, pc, child, todo, pgrp, hit, handled, before>>

\* __kill_pgrp_info(), with the task list locked: one group after the other.
SendGroup ==
  /\ sends # <<>> /\ Head(sends)[2] = "PGID" /\ pgrp = Null /\ Live # {}
  /\ pgrp' = [sig |-> Head(sends)[1], groups |-> Live]
  /\ sends' = Tail(sends)
  /\ UNCHANGED <<sig, th, siglock, delayed, pc, child, todo, hit, handled, before>>

SendNext ==
  /\ pgrp # Null
  /\ \E g \in pgrp.groups :
       /\ Deliver(g, sig[g].leader, pgrp.sig, "PGID")
       /\ pgrp' = IF pgrp.groups = {g} THEN Null ELSE [pgrp EXCEPT !.groups = @ \ {g}]
       /\ hit' = IF pgrp.groups = {g} THEN hit \cup {pgrp.sig} ELSE hit
  /\ UNCHANGED <<siglock, pc, child, todo, sends, handled, before>>

-----------------------------------------------------------------------------
Goto(t, l) == pc' = [pc EXCEPT ![t] = l]
Unlock(t) == siglock' = [siglock EXCEPT ![Group(t)] = Null]
Lock(t) == siglock' = [siglock EXCEPT ![Group(t)] = t]
Has(t) == Group(t) # Null /\ siglock[Group(t)] \in {Null, t} /\ th[t].asleep = "no"
At(t, l) == pc[t] = l /\ Has(t)
Rest == UNCHANGED <<child, todo, sends, pgrp, hit, before>>
Begin(t, call) ==
  /\ pc[t] = "user" /\ Has(t) /\ todo[t] # <<>> /\ Head(todo[t]) = call
  /\ todo' = [todo EXCEPT ![t] = Tail(@)]
Called(t) == UNCHANGED <<siglock, child, sends, pgrp, hit, handled, before>>

(* get_signal(), on the way to user mode.  Who keeps the lock goes on with   *)
(* the loop; who stops, or lets the lock go, starts again.                    *)

Get(t) == Has(t) /\ (pc[t] = "get" \/ (pc[t] = "user" /\ th[t].tif))

NotifyParent(t) ==
  /\ Get(t) /\ siglock[Group(t)] = Null /\ "CLD" \in sig[Group(t)].flags
  /\ sig' = [sig EXCEPT ![Group(t)].flags = @ \ {"CLD"}]
  /\ Goto(t, "get")
  /\ UNCHANGED <<th, siglock, delayed, handled>> /\ Rest

\* Whether the flags of the loop let the thread go on to its signals.
Looks(t) == Get(t) /\ (siglock[Group(t)] = t \/ "CLD" \notin sig[Group(t)].flags)

Die(t) ==
  /\ Looks(t) /\ "GROUP_EXIT" \in sig[Group(t)].flags
  /\ Commit(Recalc([World(Group(t)) EXCEPT !.th[t].pending = @ \ {"KILL"}], t))
  /\ Goto(t, "group_exit") /\ Unlock(t)
  /\ UNCHANGED handled /\ Rest

\* TASK_STOPPED, until SIGCONT or SIGKILL.
Stop(w, t) ==
  /\ Commit([Participate(w, t) EXCEPT !.th[t].asleep = "stopped"])
  /\ Goto(t, "get") /\ Unlock(t)

JoinStop(t) ==
  /\ Looks(t) /\ "GROUP_EXIT" \notin sig[Group(t)].flags /\ "PENDING" \in th[t].jobctl
  /\ Stop(World(Group(t)), t)
  /\ UNCHANGED handled /\ Rest

\* do_signal_stop() of a thread that is not stopping; a SIGCONT or SIGKILL since
\* the signal was dequeued has cleared DEQUEUED.
StartStop(w, t) ==
  LET S == {u \in Threads : InGroup(w, u) /\ CanStop(w.th[u]) /\ w.th[u].asleep # "stopped"}
      w1 == ForEach(ForEach(w, S, SetStop), S \ {t}, LAMBDA r : WakeUp(r, FALSE))
  IN IF "DEQUEUED" \notin w.th[t].jobctl \/ "GROUP_EXIT" \in w.sg.flags
     THEN Commit(w) /\ Goto(t, "get") /\ Lock(t)
     ELSE Stop([w1 EXCEPT !.sg.stop_count = Cardinality(S)], t)

DoSignalStop(w, t) == IF "PENDING" \in w.th[t].jobctl THEN Stop(w, t) ELSE StartStop(w, t)

\* dequeue_signal(): the lowest number, of the thread's own signals first.
Lowest(S) == Numbers[Min({i \in DOMAIN Numbers : Numbers[i] \in S})]
Dequeued(w, t, mask) ==
  LET own == w.th[t].pending \ mask
      s == Lowest(IF own # {} THEN own ELSE w.sg.shared \ mask)
      w1 == IF own # {} THEN [w EXCEPT !.th[t].pending = @ \ {s}]
            ELSE [w EXCEPT !.sg.shared = @ \ {s}]
      w2 == Recalc(w1, t)
  IN [sig |-> s,
      w |-> IF s \in StopMask THEN [w2 EXCEPT !.th[t].jobctl = @ \cup {"DEQUEUED"}] ELSE w2]
Ready(t, mask) == (th[t].pending \cup sig[Group(t)].shared) \ mask # {}

Handle(g, s) == handled' = [handled EXCEPT ![g] = @ \cup {s}]

Dequeue(t) ==
  LET g == Group(t)
      d == Dequeued(World(g), t, th[t].blocked)
      to == Action(sig[g], d.sig)
  IN /\ Looks(t)
     /\ "GROUP_EXIT" \notin sig[g].flags /\ "PENDING" \notin th[t].jobctl
     /\ Ready(t, th[t].blocked)
     /\ \/ /\ to = "IGN" \/ d.sig = "CONT"
           /\ Commit(d.w) /\ Goto(t, "get") /\ Lock(t) /\ UNCHANGED handled
        \/ /\ to = "HANDLER"
           /\ Commit(d.w) /\ Goto(t, "deliver") /\ Unlock(t) /\ Handle(g, d.sig)
        \/ /\ d.sig = "STOP"
           /\ DoSignalStop(d.w, t) /\ UNCHANGED handled
        \/ /\ d.sig = "TSTP"
           /\ Commit(d.w) /\ Goto(t, "orphaned") /\ Unlock(t) /\ UNCHANGED handled
        \/ /\ to = "DFL" /\ d.sig \in {"KILL", "TERM"}
           /\ Commit(d.w) /\ Goto(t, "group_exit") /\ Unlock(t) /\ UNCHANGED handled
     /\ Rest

NothingReady(t) ==
  /\ Looks(t)
  /\ "GROUP_EXIT" \notin sig[Group(t)].flags /\ "PENDING" \notin th[t].jobctl
  /\ ~Ready(t, th[t].blocked)
  /\ Commit(Recalc(World(Group(t)), t))
  /\ Goto(t, "user") /\ Unlock(t)
  /\ UNCHANGED handled /\ Rest

\* The lock is not held while the process group is looked at.
CheckOrphaned(t) ==
  /\ At(t, "orphaned")
  /\ \/ Goto(t, "get") /\ UNCHANGED <<sig, th, siglock, delayed>>
     \/ DoSignalStop(World(Group(t)), t)
  /\ UNCHANGED handled /\ Rest

\* signal_delivered(), the handler, and sigreturn()
Delivered(t) ==
  /\ At(t, "deliver")
  /\ Commit(SetBlocked([World(Group(t)) EXCEPT !.th[t].saved = th[t].blocked], t,
                       th[t].blocked \cup {"TERM"}))
  /\ Goto(t, "handler")
  /\ UNCHANGED <<siglock, handled>> /\ Rest

Sigreturn(t) ==
  /\ At(t, "handler")
  /\ Commit(SetBlocked(World(Group(t)), t, th[t].saved))
  /\ Goto(t, "user")
  /\ UNCHANGED <<siglock, handled>> /\ Rest

-----------------------------------------------------------------------------
(* sigprocmask(), sigaction(), pause() and sigtimedwait() *)

Sigprocmask(t) ==
  /\ \/ /\ Begin(t, "block")
        /\ \E S \in {{"TERM"}, {"CONT", "TSTP"}} :
             Commit(SetBlocked(World(Group(t)), t, th[t].blocked \cup S))
     \/ Begin(t, "unblock") /\ Commit(SetBlocked(World(Group(t)), t, {}))
  /\ Called(t) /\ UNCHANGED pc

DoSigaction(t) ==
  /\ LET w == World(Group(t))
     IN \/ Begin(t, "ignore") /\ Commit(Flush([w EXCEPT !.sg.action = "IGN"], {"TERM"}))
        \/ Begin(t, "handle") /\ Commit([w EXCEPT !.sg.action = "HANDLER"])
  /\ Called(t) /\ UNCHANGED pc

\* A task with TIF_SIGPENDING does not go to sleep.
Pause(t) ==
  /\ Begin(t, "pause")
  /\ th' = [th EXCEPT ![t].asleep = IF th[t].tif THEN "no" ELSE "sleep"]
  /\ Called(t) /\ UNCHANGED <<sig, delayed, pc>>

Timedwait(t) ==
  LET w == World(Group(t))
      mask == ToSet(Numbers) \ {"TERM"}
      w1 == Recalc([w EXCEPT !.th[t].real_blocked = th[t].blocked,
                             !.th[t].blocked = @ \ {"TERM"}], t)
  IN /\ Begin(t, "timedwait")
     /\ IF Ready(t, mask)
        THEN Commit(Dequeued(w, t, mask).w) /\ UNCHANGED pc
        ELSE /\ Commit([w1 EXCEPT !.th[t].asleep = IF w1.th[t].tif THEN "no" ELSE "sleep"])
             /\ Goto(t, "timedwait")
     /\ handled' = IF Ready(t, mask) THEN [handled EXCEPT ![Group(t)] = @ \cup {"TERM"}]
                   ELSE handled
     /\ UNCHANGED <<siglock, child, sends, pgrp, hit, before>>

\* The wait may end with the time as well as with a signal.
TimedwaitEnd(t) ==
  LET w == World(Group(t))
      w1 == SetBlocked([w EXCEPT !.th[t].asleep = "no"], t, th[t].real_blocked)
      w2 == [w1 EXCEPT !.th[t].real_blocked = {}]
      mask == ToSet(Numbers) \ {"TERM"}
  IN /\ pc[t] = "timedwait" /\ siglock[Group(t)] = Null
     /\ IF Ready(t, mask) THEN Commit(Dequeued(w2, t, mask).w) /\ Handle(Group(t), "TERM")
        ELSE Commit(Recalc(w2, t)) /\ UNCHANGED handled
     /\ Goto(t, "user")
     /\ UNCHANGED siglock /\ Rest

-----------------------------------------------------------------------------
(* copy_process(), for a new process or a new thread *)

ForkBegin(t) ==
  LET w == Recalc(World(Group(t)), t)
      again == w.th[t].tif      \* -ERESTARTNOINTR
  IN \E call \in {"fork", "clone"} :
       /\ pc[t] = "user" /\ Has(t) /\ todo[t] # <<>> /\ Head(todo[t]) = call
       /\ Commit(IF call = "fork" /\ ~again THEN [w EXCEPT !.delayed[t] = {}] ELSE w)
       /\ before' = [before EXCEPT ![t] = sig[Group(t)].shared]
       /\ todo' = IF again THEN todo ELSE [todo EXCEPT ![t] = Tail(@)]
       /\ Goto(t, IF again THEN "user" ELSE call)
       /\ UNCHANGED <<siglock, child, sends, pgrp, hit, handled>>

\* dup_task_struct() and copy_sighand(); a fork that finds no memory fails.
CopyTask(t) ==
  /\ pc[t] \in {"fork", "clone"} /\ Has(t)
  /\ \/ \E u \in Threads, g \in Groups :
          /\ pc[u] = "none" /\ siglock[g] = Null
          /\ IF pc[t] = "clone" THEN g = Group(t)
             ELSE sig[g].threads = <<>> /\ ~\E x \in Threads : th[x].group = g
          /\ sig' = [sig EXCEPT ![g].action = sig[Group(t)].action]
          /\ th' = [th EXCEPT ![u] = [th[t] EXCEPT !.group = g, !.pending = {},
                                                   !.real_blocked = {}, !.jobctl = {},
                                                   !.asleep = "new"]]
          /\ child' = [child EXCEPT ![t] = u]
          /\ pc' = [pc EXCEPT ![t] = IF pc[t] = "fork" THEN "attach" ELSE "join", ![u] = "new"]
     \/ Goto(t, "fork_out") /\ UNCHANGED <<sig, th, child>>
  /\ UNCHANGED <<siglock, delayed, todo, sends, pgrp, hit, handled, before>>

\* Mutant: a new thread is made of a thread that is to die.
NotFatal(r) == FALSE

Fatal(r) == FatalPending(r)

\* With the task list locked no signal goes through the process group.
Attach(t) ==
  LET u == child[t]
      g == th[u].group
  IN /\ At(t, "attach") /\ pgrp = Null
     /\ IF Fatal(th[t])
        THEN Goto(t, "fork_out") /\ UNCHANGED <<sig, th, delayed, handled>>
        ELSE /\ sig' = [sig EXCEPT ![g] = [@ EXCEPT
                  !.quick_threads = 1, !.shared = delayed[t],
                  !.threads = <<u>>, !.leader = u, !.curr_target = u]]
             /\ th' = [th EXCEPT ![u].asleep = "no"]
             /\ delayed' = [delayed EXCEPT ![t] = Null]
             /\ handled' = [handled EXCEPT ![g] = handled[Group(t)] \cup before[t]]
             /\ pc' = [pc EXCEPT ![t] = "user", ![u] = "start"]
     /\ child' = IF Fatal(th[t]) THEN child ELSE [child EXCEPT ![t] = Null]
     /\ UNCHANGED <<siglock, todo, sends, pgrp, hit, before>>

\* Mutant: a thread is made during a group stop and does not join it.
NotJoining(sg, r) == [sg |-> sg, r |-> r]

\* task_join_group_stop()
JoinGroupStop(sg, r) ==
  IF sg.stop_count > 0
  THEN [sg |-> [sg EXCEPT !.stop_count = @ + 1], r |-> SetStop(r)]
  ELSE IF "STOPPED" \in sg.flags
  THEN [sg |-> sg, r |-> [r EXCEPT !.jobctl = @ \cup {"PENDING"}]]
  ELSE [sg |-> sg, r |-> r]

Join(t) ==
  LET u == child[t]
      g == Group(t)
      j == JoinGroupStop([sig[g] EXCEPT !.quick_threads = @ + 1, !.threads = Append(@, u)],
                         [th[u] EXCEPT !.asleep = "no"])
  IN /\ At(t, "join") /\ pgrp = Null
     /\ IF Fatal(th[t]) THEN Goto(t, "fork_out") /\ UNCHANGED <<sig, th, child>>
        ELSE /\ sig' = [sig EXCEPT ![g] = j.sg] /\ th' = [th EXCEPT ![u] = j.r]
             /\ pc' = [pc EXCEPT ![t] = "user", ![u] = "start"]
             /\ child' = [child EXCEPT ![t] = Null]
     /\ UNCHANGED <<siglock, delayed, todo, sends, pgrp, hit, handled, before>>

ForkOut(t) ==
  LET u == child[t]
  IN /\ At(t, "fork_out")
     /\ delayed' = [delayed EXCEPT ![t] = Null]
     /\ IF u = Null THEN th' = th /\ Goto(t, "user")
        ELSE /\ th' = [th EXCEPT ![u] = NoThread]
             /\ pc' = [pc EXCEPT ![t] = "user", ![u] = "none"]
     /\ child' = [child EXCEPT ![t] = Null]
     /\ UNCHANGED <<sig, siglock, todo, sends, pgrp, hit, handled, before>>

\* calculate_sigpending(), the first thing the child does
Start(t) ==
  /\ At(t, "start")
  /\ Commit(Recalc(World(Group(t)), t))
  /\ Goto(t, "user")
  /\ UNCHANGED <<siglock, handled>> /\ Rest

-----------------------------------------------------------------------------
(* do_group_exit(), do_exit() and release_task() *)

DoExit(t) ==
  /\ Begin(t, "exit") /\ Goto(t, "exit")
  /\ Called(t) /\ UNCHANGED <<sig, th, delayed>>

GroupExit(t) ==
  LET w == World(Group(t))
  IN /\ At(t, "group_exit")
     /\ Commit(IF "GROUP_EXIT" \in w.sg.flags THEN w ELSE Kill(w, Threads \ {t}))
     /\ Goto(t, "exit")
     /\ UNCHANGED <<siglock, handled>> /\ Rest

\* The last thread that begins to exit ends the group.
SynchronizeGroupExit(t) ==
  LET w == [World(Group(t)) EXCEPT !.sg.quick_threads = @ - 1]
  IN /\ At(t, "exit")
     /\ Commit(IF w.sg.quick_threads = 0 /\ "GROUP_EXIT" \notin w.sg.flags
               THEN [w EXCEPT !.sg.flags = {"GROUP_EXIT"}, !.sg.stop_count = 0] ELSE w)
     /\ Goto(t, "exit_signals")
     /\ UNCHANGED <<siglock, handled>> /\ Rest

ExitSignals(t) ==
  LET w == [World(Group(t)) EXCEPT !.th[t].exiting = TRUE]
      w1 == Retargeted(w, t, ToSet(Numbers) \ th[t].blocked)
  IN /\ At(t, "exit_signals")
     /\ Commit(IF Len(w.sg.threads) = 1 \/ "GROUP_EXIT" \in w.sg.flags \/ ~th[t].tif THEN w
               ELSE IF "PENDING" \in th[t].jobctl THEN Participate(w1, t) ELSE w1)
     /\ Goto(t, "release")
     /\ UNCHANGED <<siglock, handled>> /\ Rest

\* The leader stays until all threads are gone and its parent has waited for it.
Release(t) ==
  LET g == Group(t)
      l == sig[g].threads
      i == CHOOSE j \in DOMAIN l : l[j] = t
      last == t = sig[g].leader
  IN /\ At(t, "release") /\ pgrp = Null
     /\ last => Len(l) = 1
     /\ sig' = [sig EXCEPT ![g] =
          IF last THEN NoGroup
          ELSE [@ EXCEPT !.threads = RemoveAt(l, i),
                         !.curr_target = IF @ = t THEN l[(i % Len(l)) + 1] ELSE @]]
     /\ th' = [th EXCEPT ![t] = NoThread]
     /\ handled' = IF last THEN [handled EXCEPT ![g] = {}] ELSE handled
     /\ Goto(t, "dead")
     /\ UNCHANGED <<siglock, delayed>> /\ Rest

-----------------------------------------------------------------------------
Call(t) ==
  \/ Sigprocmask(t) \/ DoSigaction(t) \/ Pause(t) \/ Timedwait(t) \/ ForkBegin(t) \/ DoExit(t)

GetSignal(t) ==
  \/ NotifyParent(t) \/ Die(t) \/ JoinStop(t) \/ Dequeue(t) \/ NothingReady(t)
  \/ CheckOrphaned(t) \/ Delivered(t) \/ Sigreturn(t)

Kernel(t) ==
  \/ CopyTask(t) \/ Attach(t) \/ Join(t) \/ ForkOut(t) \/ Start(t) \/ TimedwaitEnd(t)
  \/ GroupExit(t) \/ SynchronizeGroupExit(t) \/ ExitSignals(t) \/ Release(t)

Next ==
  \/ \E t \in Threads : Call(t) \/ GetSignal(t) \/ Kernel(t)
  \/ SendOne \/ SendGroup \/ SendNext

Spec == Init /\ [][Next]_vars

-----------------------------------------------------------------------------
\* A group stop counts the threads that have still to take part in it; when it
\* has come to its end no thread of the group goes on; and a thread is stopped
\* only in a group that has stopped or is going to, unless the group exits (do_signal_stop,
\* task_participate_group_stop, task_join_group_stop, prepare_signal).
StopExact ==
  \A g \in {x \in Live : "GROUP_EXIT" \notin sig[x].flags} :
    /\ sig[g].stop_count = Cardinality({t \in Members(g) : "CONSUME" \in th[t].jobctl})
    /\ "STOPPED" \in sig[g].flags =>
         \A t \in Members(g) :
           th[t].exiting \/ th[t].asleep = "stopped" \/ "PENDING" \in th[t].jobctl
             \/ pc[t] \in {"exit", "exit_signals", "group_exit"}
    /\ (\E t \in Members(g) : th[t].asleep = "stopped") =>
         sig[g].stop_count > 0 \/ "STOPPED" \in sig[g].flags

\* Never are a signal to stop and one to continue both pending for a process
\* (prepare_signal, the delayed signals of copy_process).
NeverBoth ==
  \A g \in Live :
    LET all == sig[g].shared \cup UNION {th[t].pending : t \in Members(g)}
    IN ~("CONT" \in all /\ all \cap StopMask # {})

\* A shared signal that some thread would take has been pointed out to one: to a
\* thread that looks at its signals before it goes on
\* (complete_signal, retarget_shared_pending, exit_signals).
HasTaker ==
  \A g \in Live : \A s \in sig[g].shared :
    LET takers == {t \in Members(g) : s \notin th[t].blocked /\ ~th[t].exiting}
    IN takers # {} =>
         \E t \in takers :
           \/ th[t].tif /\ th[t].asleep # "sleep"
           \/ th[t].asleep = "stopped" \/ pc[t] \in {"get", "start"}

\* After kill(-pgrp, SIGKILL) no process of the group is left that does not die,
\* forks under way included (copy_process, __kill_pgrp_info).
NoSurvivor == "KILL" \in hit => \A g \in Live : "GROUP_EXIT" \in sig[g].flags

\* Nothing is left to do: no signal is on its way, and the threads sleep, have
\* stopped or ended, or run on in user mode.
Settled ==
  /\ sends = <<>> /\ pgrp = Null
  /\ \A t \in Threads :
       \/ pc[t] \in {"none", "dead"}
       \/ th[t].asleep = "stopped"
       \/ pc[t] = "user" /\ th[t].asleep = "sleep"
       \/ pc[t] = "user" /\ ~th[t].tif /\ todo[t] = <<>>
       \/ pc[t] = "release" /\ t = sig[Group(t)].leader /\ Len(sig[Group(t)].threads) > 1

\* Then a group that was to stop has stopped, and one that was to exit is gone;
\* nobody sleeps on a signal; and a signal to the process group has been handled
\* in each of its processes, or by the parent before it forked the process (or
\* was pending for it when the fork began), but for processes that have stopped,
\* or block or ignore it
\* (do_signal_stop, do_group_exit, __send_signal_locked, copy_process).
AllHandled ==
  Settled => \A g \in Live :
    /\ sig[g].stop_count = 0 /\ "GROUP_EXIT" \notin sig[g].flags
    /\ "TERM" \in hit =>
         \/ "TERM" \in handled[g] \/ sig[g].action # "HANDLER"
         \/ \E t \in Members(g) : th[t].asleep = "stopped" \/ "TERM" \in th[t].blocked
=============================================================================
