------------------------------ MODULE PidTable ------------------------------
(***************************************************************************)
(* kernel/pid.c: the numbers of tasks in a pid namespace and in a child of *)
(* it.  alloc_pid() takes a number in each namespace under pidmap_lock and *)
(* then makes the pid visible; copy_process() attaches a task to it; who   *)
(* detaches the last task frees it.  A lookup works under RCU.             *)
(***************************************************************************)
EXTENDS Integers, Sequences, FiniteSets, FiniteSetsExt

CONSTANTS
  Actors,          \* calls in progress: they fork, look up and change pids
  Pids, Kids,      \* the struct pids and tasks there is memory for
  Nil,
  pid_max, RESERVED_PIDS,
  Requests         \* what each actor does, in order

Nss == {"root", "sub"}
Levels(n) == IF n = "root" THEN {"root"} ELSE Nss
Numbers == 1 .. (pid_max - 1)
Reserved == "reserved"   \* idr: a number without a pid
Types == {"PID", "TGID", "PGID", "SID"}
GroupTypes == Types \ {"PID"}

PidCalls == {"fork", "fork_sub", "set_tid", "thread", "setsid", "find", "exec"}
PidConstantsOK ==
  /\ IsFiniteSet(Actors) /\ IsFiniteSet(Pids) /\ Pids # {} /\ Kids # {}
  /\ Nil \notin Pids \cup Kids /\ Reserved \notin Pids \cup {Nil}
  /\ pid_max \in Nat /\ RESERVED_PIDS \in 1 .. (pid_max - 1)
  /\ Requests \subseteq [Actors -> Seq(PidCalls)]

VARIABLES
  idr,             \* of each namespace: number -> pid, Reserved or Nil
  cursor,
  pid_allocated, adding,    \* the count and the flag PIDNS_ADDING
  child_reaper,
  zap,             \* the exit of the reaper of "sub": none, kill, asleep, awake, done
  zapped,          \* the tasks it has killed
  pid,             \* of each pid: state, ns, nr, count, tasks
  task,            \* of each task: its pid, its group; Nil before and after
  group,           \* of each group: its leader and its pids
  stage, work,     \* the step of each actor and its local variables
  requests, warned

pidVars == <<idr, cursor, pid_allocated, adding, child_reaper, zap, zapped, pid, task, group,
             stage, work, requests, warned>>
nsVars == <<idr, cursor, pid_allocated, adding, child_reaper, zap, zapped>>

NoPid == [state |-> "free", ns |-> "root", nr |-> [n \in Nss |-> 0], count |-> 0,
          tasks |-> [y \in Types |-> {}]]
Unborn == [pid |-> Nil, group |-> Nil]
NoGroup == [leader |-> Nil, pids |-> [y \in GroupTypes |-> Nil]]
\* The namespace, those that want a number yet, the number that is asked for,
\* the pid, the caller of fork() and whether it asks for a thread.
Idle == [ns |-> "root", levels |-> <<>>, tid |-> 0, pid |-> Nil, by |-> Nil, thread |-> FALSE]

Live(k) == task[k].pid # Nil
NsOf(k) == pid[task[k].pid].ns
InSub(k) == Live(k) /\ NsOf(k) = "sub"
Leads(k) == Live(k) /\ group[task[k].group].leader = k

\* One task of "root" has number 1.
PidInit ==
  LET p == CHOOSE x \in Pids : TRUE
      k == CHOOSE x \in Kids : TRUE
  IN /\ idr = [n \in Nss |-> [i \in Numbers |-> IF n = "root" /\ i = 1 THEN p ELSE Nil]]
     /\ cursor = [n \in Nss |-> IF n = "root" THEN 2 ELSE 0]
     /\ pid_allocated = [n \in Nss |-> IF n = "root" THEN 1 ELSE 0]
     /\ adding = [n \in Nss |-> TRUE]
     /\ child_reaper = [n \in Nss |-> IF n = "root" THEN k ELSE Nil]
     /\ zap = "none" /\ zapped = {}
     /\ pid = [x \in Pids |->
          IF x = p THEN [NoPid EXCEPT !.state = "hashed", !.nr["root"] = 1, !.count = 1,
                                      !.tasks = [y \in Types |-> {k}]]
          ELSE NoPid]
     /\ task = [x \in Kids |-> IF x = k THEN [pid |-> p, group |-> k] ELSE Unborn]
     /\ group = [x \in Kids |->
          IF x = k THEN [leader |-> k, pids |-> [y \in GroupTypes |-> p]] ELSE NoGroup]
     /\ stage = [a \in Actors |-> "idle"] /\ work = [a \in Actors |-> Idle]
     /\ requests \in Requests /\ warned = FALSE

AtStage(a, l) == stage' = [stage EXCEPT ![a] = l]
WorksOn(a, r) == work' = [work EXCEPT ![a] = r]
Done(a) == AtStage(a, "idle") /\ WorksOn(a, Idle)
Asked(a, call) ==
  /\ stage[a] = "idle" /\ requests[a] # <<>> /\ Head(requests[a]) = call
  /\ requests' = [requests EXCEPT ![a] = Tail(@)]

ForkStages == {"alloc", "unwind", "attach"}
\* A task that is in fork() does nothing else.
InFork(k) == \E a \in Actors : stage[a] \in ForkStages /\ work[a].by = k

-----------------------------------------------------------------------------
(* put_pid(), free_pid() *)

Dropped(p) == IF p.count = 1 THEN NoPid ELSE [p EXCEPT !.count = @ - 1]

\* The pids of S leave their namespaces; their counts of the table are put after
\* a grace period.  The reaper of a namespace is woken when it is alone, or nearly.
FreePids(S, pids) ==
  LET gone == [n \in Nss |-> {x \in S : n \in Levels(pids[x].ns)}]
      left == [n \in Nss |-> pid_allocated[n] - Cardinality(gone[n])]
      first == {n \in Nss : gone[n] # {} /\ left[n] = 0 /\ adding[n]}
      wakes == left["sub"] <= 2 /\ pid_allocated["sub"] > 1
  IN /\ pid_allocated' = left
     /\ adding' = [n \in Nss |-> adding[n] /\ n \notin first]
     /\ warned' = (warned \/ \E n \in first : child_reaper[n] # Nil)
     /\ zap' = IF zap = "asleep" /\ gone["sub"] # {} /\ wakes THEN "awake" ELSE zap
     /\ idr' = [n \in Nss |-> [i \in Numbers |->
          IF \E x \in gone[n] : pids[x].nr[n] = i THEN Nil ELSE idr[n][i]]]
     /\ pid' = [x \in Pids |-> IF x \in S THEN [pids[x] EXCEPT !.state = "grace"] ELSE pids[x]]
     /\ UNCHANGED <<cursor, zapped>>

\* delayed_put_pid(), when no reader of RCU has the pid in hand.
DelayedPutPid(x) ==
  /\ pid[x].state = "grace"
  /\ \A a \in Actors : ~(stage[a] = "found" /\ work[a].pid = x)
  /\ pid' = [pid EXCEPT ![x] = Dropped([@ EXCEPT !.state = "put"])]
  /\ UNCHANGED <<nsVars, task, group, stage, work, requests, warned>>

-----------------------------------------------------------------------------
(* alloc_pid() *)

\* A fork into a namespace without a reaper is the only one there.
MayFork(n) ==
  child_reaper[n] # Nil \/ \A a \in Actors : work[a].ns = n => stage[a] = "idle"

\* fork() of the task k into its namespace, or into "sub".
AllocBegin(a) ==
  \E call \in {"fork", "fork_sub", "set_tid", "thread"}, x \in Pids, k \in Kids :
    LET n == IF call = "fork_sub" THEN "sub" ELSE NsOf(k)
    IN /\ Asked(a, call)
       /\ Live(k) /\ ~InFork(k) /\ MayFork(n)
       /\ \E tid \in IF call = "set_tid" THEN Numbers ELSE {0} :
            WorksOn(a, [ns |-> n, levels |-> IF n = "sub" THEN <<"sub", "root">> ELSE <<"root">>,
                        tid |-> tid, pid |-> x, by |-> k, thread |-> call = "thread"])
       /\ pid[x] = NoPid
       /\ pid' = [pid EXCEPT ![x] = [NoPid EXCEPT !.state = "new", !.ns = n]]
       /\ AtStage(a, "alloc")
       /\ UNCHANGED <<nsVars, task, group, warned>>

FreeNumbers(n, from) == {i \in Numbers : i >= from /\ idr[n][i] = Nil}

\* idr_alloc_cyclic(): from the cursor on, else from the start; 0 if there is none.
Cyclic(n) ==
  LET start == IF cursor[n] > RESERVED_PIDS THEN RESERVED_PIDS ELSE 1
      above == FreeNumbers(n, Max({start, cursor[n]}))
      all == FreeNumbers(n, start)
  IN IF above # {} THEN Min(above) ELSE IF all # {} THEN Min(all) ELSE 0

\* The innermost namespace comes first; a given number is for that one.
AllocNumber(a) ==
  LET n == Head(work[a].levels)
      tid == IF n = work[a].ns THEN work[a].tid ELSE 0
      nr == IF tid = 0 THEN Cyclic(n) ELSE IF idr[n][tid] = Nil THEN tid ELSE 0
  IN /\ stage[a] = "alloc" /\ work[a].levels # <<>>
     /\ IF nr = 0 \/ (tid > 1 /\ child_reaper[n] = Nil)
        THEN AtStage(a, "unwind") /\ UNCHANGED <<idr, cursor, pid, work>>
        ELSE /\ idr' = [idr EXCEPT ![n][nr] = Reserved]
             /\ cursor' = IF tid = 0 THEN [cursor EXCEPT ![n] = nr + 1] ELSE cursor
             /\ pid' = [pid EXCEPT ![work[a].pid].nr[n] = nr]
             /\ WorksOn(a, [work[a] EXCEPT !.levels = Tail(@)])
             /\ UNCHANGED stage
     /\ UNCHANGED <<pid_allocated, adding, child_reaper, zap, zapped, task, group, requests,
                    warned>>

MakeVisible(a) ==
  LET x == work[a].pid
      levels == Levels(work[a].ns)
  IN /\ stage[a] = "alloc" /\ work[a].levels = <<>>
     /\ IF adding[work[a].ns]
        THEN /\ idr' = [n \in Nss |-> IF n \in levels THEN [idr[n] EXCEPT ![pid[x].nr[n]] = x]
                                      ELSE idr[n]]
             /\ pid_allocated' = [n \in Nss |-> IF n \in levels THEN pid_allocated[n] + 1
                                                ELSE pid_allocated[n]]
             /\ pid' = [pid EXCEPT ![x].state = "hashed", ![x].count = 1]
             /\ AtStage(a, "attach")
        ELSE AtStage(a, "unwind") /\ UNCHANGED <<idr, pid_allocated, pid>>
     /\ UNCHANGED <<cursor, adding, child_reaper, zap, zapped, task, group, work, requests,
                    warned>>

Unwind(a) ==
  LET x == work[a].pid
      n0 == work[a].ns
  IN /\ stage[a] = "unwind"
     /\ idr' = [n \in Nss |-> IF pid[x].nr[n] # 0 THEN [idr[n] EXCEPT ![pid[x].nr[n]] = Nil]
                              ELSE idr[n]]
     /\ cursor' = IF adding[n0] /\ pid_allocated[n0] = 0 THEN [cursor EXCEPT ![n0] = 0]
                  ELSE cursor
     /\ pid' = [pid EXCEPT ![x] = NoPid]
     /\ Done(a)
     /\ UNCHANGED <<pid_allocated, adding, child_reaper, zap, zapped, task, group, requests,
                    warned>>

-----------------------------------------------------------------------------
(* attach_pid(), in copy_process() under tasklist_lock *)

\* The lists after k has joined, for each type y, that of the pid to[y].
Joined(pids, k, to) ==
  [z \in Pids |-> [pids[z] EXCEPT !.tasks = [y \in Types |->
     IF y \in DOMAIN to /\ to[y] = z THEN @[y] \cup {k} ELSE @[y]]]]

\* A child gets a group of its own, in the process group and session of the task
\* that forked.
AttachProcess(a, k) ==
  LET x == work[a].pid
      its == group[task[work[a].by].group].pids
      to == [y \in Types |-> IF y \in {"PID", "TGID"} THEN x ELSE its[y]]
  IN /\ ~work[a].thread
     /\ group' = [group EXCEPT ![k] = [leader |-> k, pids |-> [y \in GroupTypes |-> to[y]]]]
     /\ pid' = Joined(pid, k, to)
     /\ task' = [task EXCEPT ![k] = [pid |-> x, group |-> k]]
     /\ child_reaper' = IF pid[x].nr[work[a].ns] = 1
                        THEN [child_reaper EXCEPT ![work[a].ns] = k] ELSE child_reaper

AttachThread(a, k) ==
  /\ work[a].thread
  /\ pid' = Joined(pid, k, [y \in {"PID"} |-> work[a].pid])
  /\ task' = [task EXCEPT ![k] = [pid |-> work[a].pid, group |-> task[work[a].by].group]]
  /\ UNCHANGED <<child_reaper, group>>

Attach(a) ==
  /\ stage[a] = "attach" /\ adding[work[a].ns]
  /\ \E k \in Kids :
       /\ ~Live(k) /\ group[k].leader = Nil
       /\ AttachProcess(a, k) \/ AttachThread(a, k)
  /\ Done(a)
  /\ UNCHANGED <<idr, cursor, pid_allocated, adding, zap, zapped, requests, warned>>

\* copy_process() may fail after alloc_pid().
ForkFails(a) ==
  /\ stage[a] = "attach"
  /\ FreePids({work[a].pid}, pid)
  /\ Done(a)
  /\ UNCHANGED <<child_reaper, task, group, requests>>

-----------------------------------------------------------------------------
(* detach_pid(), change_pid(), exchange_tids(), transfer_pid() *)

Without(pids, ys, k) ==
  [z \in Pids |-> [pids[z] EXCEPT !.tasks = [y \in Types |->
     IF y \in ys THEN @[y] \ {k} ELSE @[y]]]]

\* Mutant: a pid is freed although a process group or session still has it.
UnusedByTasks(pids) ==
  {z \in Pids : pids[z].state = "hashed" /\ pids[z].tasks["PID"] = {}
                /\ pid[z].tasks["PID"] # {}}

\* The visible pids that have lost their last task: they are freed.
UnusedPids(pids) ==
  {z \in Pids : pids[z].state = "hashed" /\ (\A y \in Types : pids[z].tasks[y] = {})
                /\ \E y \in Types : pid[z].tasks[y] # {}}
Relisted(pids) == FreePids(UnusedPids(pids), pids)

\* __unhash_process(): a thread; or the leader, when no thread is left.
Detach(k) ==
  LET g == task[k].group
  IN /\ Live(k) /\ ~InFork(k) /\ k # child_reaper["root"]
     /\ Leads(k) => \A j \in Kids \ {k} : task[j].group # g
     /\ k = child_reaper["sub"] => zap = "done"
     /\ Relisted(Without(pid, IF Leads(k) THEN Types ELSE {"PID"}, k))
     /\ task' = [task EXCEPT ![k] = Unborn]
     /\ group' = IF Leads(k) THEN [group EXCEPT ![g] = NoGroup] ELSE group
     /\ UNCHANGED <<child_reaper, stage, work, requests>>

\* setsid(): change_pid() of the session and the process group.
SetSid(a) ==
  /\ Asked(a, "setsid")
  /\ \E k \in Kids :
       /\ Leads(k) /\ ~InFork(k)
       /\ Relisted(Joined(Without(pid, {"PGID", "SID"}, k), k,
                          [y \in {"PGID", "SID"} |-> task[k].pid]))
       /\ group' = [group EXCEPT ![task[k].group].pids =
            [y \in GroupTypes |-> IF y = "TGID" THEN @[y] ELSE task[k].pid]]
  /\ UNCHANGED <<child_reaper, task, stage, work>>

\* de_thread(): a thread takes the pid of the leader and its place in the lists.
\* A group that is being killed does not get here.  That the leader, which has
\* exited, is not the reaper any more (find_child_reaper) shows from here on.
ExecExchange(a) ==
  /\ Asked(a, "exec")
  /\ \E k \in Kids :
       LET g == task[k].group
           old == group[g].leader
           Swap(S) == IF old \in S THEN (S \ {old}) \cup {k} ELSE S
       IN /\ Live(k) /\ old # k /\ ~InFork(k) /\ ~InFork(old)
          /\ InSub(k) => zap = "none"
          /\ pid' = [z \in Pids |-> [pid[z] EXCEPT !.tasks = [y \in Types |->
               IF y # "PID" THEN Swap(@[y])
               ELSE IF z = task[old].pid THEN {k} ELSE IF z = task[k].pid THEN {old} ELSE @[y]]]]
          /\ task' = [task EXCEPT ![k].pid = task[old].pid, ![old].pid = task[k].pid]
          /\ group' = [group EXCEPT ![g].leader = k]
          /\ child_reaper' = [n \in Nss |-> IF child_reaper[n] = old THEN k ELSE child_reaper[n]]
  /\ UNCHANGED <<idr, cursor, pid_allocated, adding, zap, zapped, stage, work, warned>>

-----------------------------------------------------------------------------
(* find_get_pid(), pid_task(), put_pid() *)

Find(a) ==
  /\ Asked(a, "find")
  /\ \E n \in Nss, i \in Numbers :
       IF idr[n][i] \in {Nil, Reserved} THEN UNCHANGED <<stage, work>>
       ELSE WorksOn(a, [Idle EXCEPT !.pid = idr[n][i]]) /\ AtStage(a, "found")
  /\ UNCHANGED <<nsVars, pid, task, group, warned>>

GetPid(a) ==
  /\ stage[a] = "found"
  /\ pid' = [pid EXCEPT ![work[a].pid].count = @ + 1]
  /\ AtStage(a, "held")
  /\ UNCHANGED <<nsVars, task, group, work, requests, warned>>

PutPid(a) ==
  /\ stage[a] = "held"
  /\ pid' = [pid EXCEPT ![work[a].pid] = Dropped(@)]
  /\ Done(a)
  /\ UNCHANGED <<nsVars, task, group, requests, warned>>

-----------------------------------------------------------------------------
(* zap_pid_ns_processes() of the reaper of "sub": disable_pid_allocation(),  *)
(* kill the rest, and sleep until the reaper is alone.                       *)

ZapStep(from) ==
  zap = from /\ UNCHANGED <<idr, cursor, pid_allocated, child_reaper, pid, task, group,
                            stage, work, requests, warned>>

ZapBegin ==
  /\ ZapStep("none") /\ child_reaper["sub"] # Nil
  /\ adding' = [adding EXCEPT !["sub"] = FALSE]
  /\ zap' = "kill" /\ UNCHANGED zapped

ZapKill ==
  /\ ZapStep("kill")
  /\ zapped' = {k \in Kids : InSub(k)} \ {child_reaper["sub"]}
  /\ zap' = "awake" /\ UNCHANGED adding

ZapCheck ==
  /\ ZapStep("awake")
  /\ zap' = IF pid_allocated["sub"] = 1 THEN "done" ELSE "asleep"
  /\ UNCHANGED <<adding, zapped>>

PidStep(a) ==
  \/ AllocNumber(a) \/ MakeVisible(a) \/ Unwind(a) \/ Attach(a) \/ ForkFails(a)
  \/ GetPid(a) \/ PutPid(a)

PidCall(a) == AllocBegin(a) \/ SetSid(a) \/ ExecExchange(a) \/ Find(a)

Killed(k) == k \in zapped /\ InSub(k) /\ Detach(k)

PidNext ==
  \/ \E a \in Actors : PidStep(a) \/ PidCall(a)
  \/ \E k \in Kids : Detach(k)
  \/ \E x \in Pids : DelayedPutPid(x)
  \/ ZapBegin \/ ZapKill \/ ZapCheck

\* Calls that have begun go on, killed tasks exit and the reaper runs when awake.
PidSpec == PidInit /\ [][PidNext]_pidVars
PidFairSpec ==
  /\ PidSpec
  /\ \A a \in Actors : WF_pidVars(PidStep(a))
  /\ \A k \in Kids : WF_pidVars(Killed(k))
  /\ WF_pidVars(ZapKill \/ ZapCheck)

-----------------------------------------------------------------------------
\* A number leads to at most one pid, which tasks are attached to or about to
\* be, and none of those has been freed; each namespace counts its pids; a pid
\* in hand has not been freed; and free_pid() does not warn (alloc_pid,
\* free_pid, __change_pid, transfer_pid, find_get_pid).
NumbersExact ==
  /\ \A n \in Nss :
       pid_allocated[n] = Cardinality({x \in Pids : pid[x].state = "hashed"
                                                    /\ n \in Levels(pid[x].ns)})
  /\ \A x \in Pids :
       /\ pid[x].state = "hashed" => \A n \in Levels(pid[x].ns) : idr[n][pid[x].nr[n]] = x
       /\ (pid[x].state = "hashed")
            <=> \/ \E y \in Types : pid[x].tasks[y] # {}
                \/ \E a \in Actors : stage[a] = "attach" /\ work[a].pid = x
       /\ pid[x].count = (IF pid[x].state \in {"hashed", "grace"} THEN 1 ELSE 0)
            + Cardinality({a \in Actors : stage[a] = "held" /\ work[a].pid = x})
  /\ \A k \in Kids : Live(k) =>
       /\ pid[task[k].pid].tasks["PID"] = {k}
       /\ Leads(k) => \A y \in GroupTypes : k \in pid[group[task[k].group].pids[y]].tasks[y]
  /\ ~warned

\* Once the reaper of a namespace has found itself alone no other task is in it
\* or enters it (copy_process, disable_pid_allocation, free_pid).
ReaperLast ==
  zap = "done" => \A k \in Kids : InSub(k) => k = child_reaper["sub"]

PidsExact == NumbersExact /\ ReaperLast

\* A reaper that exits is woken until it is alone (free_pid).
ReaperBusy == zap \notin {"none", "done"}
ReaperEnds == ReaperBusy ~> ~ReaperBusy
=============================================================================
