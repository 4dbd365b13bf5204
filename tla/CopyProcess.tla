----------------------------- MODULE CopyProcess -----------------------------
(***************************************************************************)
(* kernel_clone() and copy_process() of kernel/fork.c: what the new task   *)
(* copies and shares, the ladder of labels that undoes a copy that fails,  *)
(* the wait of a vfork(); unshare(); and, of exec and exit, what they do   *)
(* to the shared parts.  What happens under a lock is one step.            *)
(***************************************************************************)
EXTENDS Integers, Sequences, FiniteSets, FiniteSetsExt, SequencesExt

CONSTANTS
  Tasks,        \* task_structs
  Ids,          \* the structures of each kind, as numbers
  None,
  Firsts,       \* the parts that the first tasks have
  Scripts,      \* the system calls that each task makes, in order
  max_threads

\* The parts of a task, with the flag of clone() that shares them.
Flag == [files |-> "FILES", fs |-> "FS", sighand |-> "SIGHAND",
         signal |-> "THREAD", mm |-> "VM"]
Kinds == DOMAIN Flag
NoParts == [kind \in Kinds |-> None]

Sharing == {"FILES", "FS", "SIGHAND", "THREAD", "VM", "VFORK", "PIDFD"}
Calls == [call : {"exec", "exit", "kill"}]
         \cup [call : {"clone", "unshare"}, flags : SUBSET Sharing]

ForkConstantsOK ==
  /\ IsFiniteSet(Tasks) /\ Ids \subseteq Nat /\ None \notin Tasks \cup Ids
  /\ max_threads \in Nat
  /\ \A f \in Firsts :
       /\ f \in [Tasks -> [Kinds -> Ids \cup {None}]]
       /\ \A k \in Tasks : f[k] = NoParts \/ \A kind \in Kinds : f[k][kind] # None
  /\ \A s \in Scripts : s \in [Tasks -> Seq(Calls)]

VARIABLES
  state,        \* "free", "new", "visible" (not woken yet) or "live"
  parts,        \* the structure of each kind that a task points to
  users,        \* the count of each structure (of a signal_struct, sigcnt)
  live,         \* signal->live
  nr_threads,   \* of the system
  in_exec,      \* of each fs_struct
  own,          \* what else the ladder has taken for a new task
  usage,        \* of each task_struct
  vfork_done,   \* the task whose completion it is
  done,         \* the completion on the stack of a task in vfork()
  killed,       \* SIGKILL is pending
  step, lv,     \* the step of each task and its local variables
  todo,         \* the system calls still to make
  bug           \* something is put twice

forkVars == <<state, parts, users, live, nr_threads, in_exec, own, usage, vfork_done,
              done, killed, step, lv, todo, bug>>

-----------------------------------------------------------------------------
Local == [p |-> None, flags |-> {}, i |-> 0, unsafe |-> FALSE, new |-> NoParts]

ForkInit ==
  \E first \in Firsts :
    /\ parts = first
    /\ state = [k \in Tasks |-> IF first[k] = NoParts THEN "free" ELSE "live"]
    /\ users = [kind \in Kinds |-> [id \in Ids |->
                  Cardinality({k \in Tasks : first[k][kind] = id})]]
    /\ live = [id \in Ids |-> Cardinality({k \in Tasks : first[k].signal = id})]
    /\ nr_threads = Cardinality({k \in Tasks : first[k] # NoParts})
    /\ in_exec = [id \in Ids |-> FALSE]
    /\ own = [k \in Tasks |-> {}]
    /\ usage = [k \in Tasks |-> IF first[k] = NoParts THEN 0 ELSE 1]
    /\ vfork_done = [k \in Tasks |-> None] /\ done = [k \in Tasks |-> FALSE]
    /\ killed = {}
    /\ step = [k \in Tasks |-> "user"] /\ lv = [k \in Tasks |-> Local]
    /\ todo \in Scripts
    /\ bug = FALSE

InStep(t, l) == state[t] = "live" /\ step[t] = l
Move(t, l) == step' = [step EXCEPT ![t] = l]
Keep(t, r) == lv' = [lv EXCEPT ![t] = r]
End(t) == Move(t, "user") /\ Keep(t, Local)
Begin(t, call) ==
  /\ InStep(t, "user") /\ t \notin killed
  /\ todo[t] # <<>> /\ Head(todo[t]).call = call
  /\ todo' = [todo EXCEPT ![t] = Tail(@)]
NoCopying == UNCHANGED <<own, usage, vfork_done, done>>
NoLife == UNCHANGED <<state, live, nr_threads, killed>>
NoParting == UNCHANGED <<parts, users, in_exec, bug>>

Peers(t) == {k \in Tasks \ {t} : /\ parts[k].signal = parts[t].signal
                                 /\ state[k] \in {"visible", "live"}}
Unused(kind) == {id \in Ids : users[kind][id] = 0}
Fresh(kind) == Min(Unused(kind))

\* The counts after the structures of a set of kinds have been put.
Put(us, ps, kinds) ==
  [kind \in Kinds |->
     IF kind \in kinds /\ ps[kind] # None
     THEN [us[kind] EXCEPT ![ps[kind]] = @ - 1] ELSE us[kind]]
Over(us, ps, kinds) == \E kind \in kinds : ps[kind] # None /\ us[kind][ps[kind]] = 0

-----------------------------------------------------------------------------
(* copy_process().  Each stage takes something, or only tests; its second    *)
(* field is what the label undoes first that it jumps to when it fails.      *)

Stages ==
  << <<"creds", "task">>, <<"limits", "creds">>, <<"delayacct", "none">>,
     <<"policy", "delayacct">>, <<"perf", "policy">>, <<"audit", "perf">>,
     <<"security", "audit">>, <<"semundo", "security">>,
     <<"files", "semundo">>, <<"fs", "files">>, <<"sighand", "fs">>,
     <<"signal", "sighand">>, <<"mm", "signal">>, <<"namespaces", "mm">>,
     <<"io", "namespaces">>, <<"thread", "io">>, <<"pid", "thread">>,
     <<"pidfd", "pid">>, <<"put_user", "pidfd">>, <<"cgroup", "pidfd">>,
     <<"publish", "cgroup">> >>

Undos == <<"cgroup", "pidfd", "pid", "thread", "io", "namespaces", "mm", "signal",
           "sighand", "fs", "files", "semundo", "security", "audit", "perf",
           "policy", "delayacct", "creds", "task">>

Ladder == Stages
Position(label) == CHOOSE i \in DOMAIN Undos : Undos[i] = label

Allowed(flags) ==
  /\ "THREAD" \in flags => "SIGHAND" \in flags /\ "PIDFD" \notin flags
  /\ "SIGHAND" \in flags => "VM" \in flags

\* dup_task_struct() copies the pointers; a signal that is pending comes first.
Clone(t) ==
  /\ Begin(t, "clone")
  /\ LET flags == Head(todo[t]).flags
     IN \/ UNCHANGED <<state, parts, own, usage, vfork_done, step, lv>>
        \/ \E p \in Tasks :
             /\ Allowed(flags) /\ usage[p] = 0
             /\ state' = [state EXCEPT ![p] = "new"]
             /\ parts' = [parts EXCEPT ![p] = parts[t]]
             /\ own' = [own EXCEPT ![p] = {"task"}]
             /\ usage' = [usage EXCEPT ![p] = 1]
             /\ vfork_done' = [vfork_done EXCEPT ![p] = None]
             /\ Keep(t, [Local EXCEPT !.p = p, !.flags = flags, !.i = 1])
             /\ Move(t, "copy")
  /\ UNCHANGED <<users, live, nr_threads, in_exec, done, killed, bug>>

Stage(t) == Ladder[lv[t].i]
Copying(t) == InStep(t, "copy") /\ UNCHANGED <<vfork_done, done, killed, todo, bug, in_exec>>
NextStage(t) == Keep(t, [lv[t] EXCEPT !.i = @ + 1]) /\ UNCHANGED step
Has(t, what) ==
  CASE what \in {"pidfd", "put_user"} -> "PIDFD" \in lv[t].flags
    [] what = "signal" -> "THREAD" \notin lv[t].flags
    [] OTHER -> TRUE

\* copy_creds() to copy_semundo(), and copy_namespaces() to cgroup_can_fork().
CopyPrivate(t) ==
  LET what == Stage(t)[1]
  IN /\ Copying(t) /\ what \notin Kinds \cup {"publish"}
     /\ what = "limits" => nr_threads < max_threads
     /\ own' = IF what \in {"limits", "put_user"} \/ ~Has(t, what) THEN own
               ELSE [own EXCEPT ![lv[t].p] = @ \cup {what}]
     /\ NextStage(t)
     /\ UNCHANGED <<state, parts, users, live, nr_threads, usage>>

\* Mutant: copy_fs() shares the fs_struct of an exec.
RefusesNever(t, kind) == FALSE

Refuses(t, kind) == kind = "fs" /\ in_exec[parts[t].fs]

\* copy_files(), copy_fs(), copy_sighand(), copy_signal() and copy_mm()
CopyPart(t) ==
  LET kind == Stage(t)[1]
      p == lv[t].p
  IN /\ Copying(t) /\ kind \in Kinds
     /\ IF Flag[kind] \in lv[t].flags
        THEN /\ ~Refuses(t, kind)
             /\ users' = IF kind = "signal" THEN users
                         ELSE [users EXCEPT ![kind][parts[t][kind]] = @ + 1]
             /\ UNCHANGED <<parts, live>>
        ELSE /\ Unused(kind) # {}
             /\ parts' = [parts EXCEPT ![p][kind] = Fresh(kind)]
             /\ users' = [users EXCEPT ![kind][Fresh(kind)] = 1]
             /\ live' = IF kind = "signal" THEN [live EXCEPT ![Fresh(kind)] = 1] ELSE live
     /\ own' = [own EXCEPT ![p] = IF Has(t, kind) THEN @ \cup {kind} ELSE @]
     /\ NextStage(t)
     /\ UNCHANGED <<state, nr_threads, usage>>

\* With tasklist_lock and siglock.
Publish(t) ==
  LET p == lv[t].p
      id == parts[t].signal
      thread == "THREAD" \in lv[t].flags
  IN /\ Copying(t) /\ Stage(t)[1] = "publish" /\ t \notin killed
     /\ users' = IF thread THEN [users EXCEPT !.signal[id] = @ + 1] ELSE users
     /\ live' = IF thread THEN [live EXCEPT ![id] = @ + 1] ELSE live
     /\ nr_threads' = nr_threads + 1
     /\ state' = [state EXCEPT ![p] = "visible"]
     /\ own' = [own EXCEPT ![p] = {}]
     /\ Move(t, "wake") /\ UNCHANGED <<parts, usage, lv>>

CopyFails(t) ==
  /\ Copying(t) /\ Stage(t)[2] # "none" /\ Has(t, Stage(t)[1])
  /\ Stage(t)[1] = "publish" => t \in killed
  /\ Keep(t, [lv[t] EXCEPT !.i = Position(Stage(t)[2])]) /\ Move(t, "undo")
  /\ UNCHANGED <<state, parts, users, live, nr_threads, own, usage>>

\* The labels bad_fork_..., from one to the next.
Undo(t) ==
  LET what == Undos[lv[t].i]
      p == lv[t].p
      kinds == IF what \in Kinds /\ Has(t, what) THEN {what} ELSE {}
  IN /\ InStep(t, "undo")
     /\ users' = Put(users, parts[p], kinds)
     /\ bug' = (bug \/ Over(users, parts[p], kinds) \/ (Has(t, what) /\ what \notin own[p]))
     /\ live' = IF kinds = {"signal"} THEN [live EXCEPT ![parts[p].signal] = 0] ELSE live
     /\ own' = [own EXCEPT ![p] = @ \ {what}]
     /\ IF what = "task"
        THEN /\ state' = [state EXCEPT ![p] = "free"]
             /\ parts' = [parts EXCEPT ![p] = NoParts]
             /\ usage' = [usage EXCEPT ![p] = 0]
             /\ End(t)
        ELSE Keep(t, [lv[t] EXCEPT !.i = @ + 1]) /\ UNCHANGED <<state, parts, usage, step>>
     /\ UNCHANGED <<nr_threads, in_exec, vfork_done, done, killed, todo>>

-----------------------------------------------------------------------------
(* kernel_clone() wakes the new task, and waits for it after vfork().        *)

Wake(t) ==
  LET p == lv[t].p
  IN /\ InStep(t, "wake")
     /\ state' = [state EXCEPT ![p] = "live"]
     /\ IF "VFORK" \in lv[t].flags
        THEN /\ vfork_done' = [vfork_done EXCEPT ![p] = t]
             /\ usage' = [usage EXCEPT ![p] = @ + 1]
             /\ Move(t, "vfork") /\ UNCHANGED lv
        ELSE End(t) /\ UNCHANGED <<vfork_done, usage>>
     /\ UNCHANGED <<done, live, nr_threads, own, killed, todo>> /\ NoParting

\* Mutant: a parent that is killed leaves its completion to the child.
KeepsCompletion(p) == vfork_done

DropsCompletion(p) == [vfork_done EXCEPT ![p] = None]

\* The wait ends, or is cut short by SIGKILL.
VforkWait(t) ==
  /\ InStep(t, "vfork")
  /\ \/ /\ done[t] /\ done' = [done EXCEPT ![t] = FALSE]
        /\ usage' = [usage EXCEPT ![lv[t].p] = @ - 1] /\ End(t)
     \/ t \in killed /\ ~done[t] /\ Move(t, "vfork_killed") /\ UNCHANGED <<usage, done, lv>>
  /\ UNCHANGED <<own, vfork_done, todo>> /\ NoLife /\ NoParting

VforkKilled(t) ==
  /\ InStep(t, "vfork_killed")
  /\ vfork_done' = DropsCompletion(lv[t].p)
  /\ done' = [done EXCEPT ![t] = FALSE]
  /\ usage' = [usage EXCEPT ![lv[t].p] = @ - 1]
  /\ End(t)
  /\ UNCHANGED <<own, todo>> /\ NoLife /\ NoParting

\* mm_release(): complete_vfork_done()
MmRelease(t) ==
  /\ vfork_done' = [vfork_done EXCEPT ![t] = None]
  /\ done' = IF vfork_done[t] = None THEN done ELSE [done EXCEPT ![vfork_done[t]] = TRUE]

-----------------------------------------------------------------------------
(* ksys_unshare() of fs and files: the copies, then the exchange.            *)

Unshare(t) ==
  /\ Begin(t, "unshare")
  /\ Keep(t, [Local EXCEPT !.flags = Head(todo[t]).flags]) /\ Move(t, "unshare_fs")
  /\ NoCopying /\ NoLife /\ NoParting

UnshareCopy(t, kind, next, failed) ==
  LET shared == Flag[kind] \in lv[t].flags /\ users[kind][parts[t][kind]] > 1
  IN /\ \/ /\ shared /\ Unused(kind) # {}
           /\ users' = [users EXCEPT ![kind][Fresh(kind)] = 1]
           /\ Keep(t, [lv[t] EXCEPT !.new[kind] = Fresh(kind)]) /\ Move(t, next)
        \/ ~shared /\ Move(t, next) /\ UNCHANGED <<users, lv>>
        \/ shared /\ Move(t, failed) /\ UNCHANGED <<users, lv>>
     /\ UNCHANGED <<parts, in_exec, todo, bug>> /\ NoCopying /\ NoLife

UnshareFs(t) == InStep(t, "unshare_fs") /\ UnshareCopy(t, "fs", "unshare_fd", "cleanup")
UnshareFd(t) == InStep(t, "unshare_fd") /\ UnshareCopy(t, "files", "unshare_ns", "cleanup")

\* The other parts may fail.
UnshareRest(t) ==
  /\ InStep(t, "unshare_ns")
  /\ Move(t, "unshare_swap") \/ Move(t, "cleanup")
  /\ UNCHANGED <<lv, todo>> /\ NoCopying /\ NoLife /\ NoParting

\* Under task_lock the old parts become the ones to put.
UnshareSwap(t) ==
  LET Swapped == [kind \in Kinds |-> IF lv[t].new[kind] = None THEN parts[t][kind]
                                     ELSE lv[t].new[kind]]
      Old == [kind \in Kinds |-> IF lv[t].new[kind] = None THEN None ELSE parts[t][kind]]
  IN /\ InStep(t, "unshare_swap")
     /\ parts' = [parts EXCEPT ![t] = Swapped]
     /\ users' = Put(users, Old, {"fs"})
     /\ bug' = (bug \/ Over(users, Old, {"fs"}))
     /\ Keep(t, [lv[t] EXCEPT !.new = [Old EXCEPT !.fs = None]]) /\ Move(t, "cleanup")
     /\ UNCHANGED <<in_exec, todo>> /\ NoCopying /\ NoLife

UnshareCleanup(t) ==
  /\ InStep(t, "cleanup")
  /\ users' = Put(users, lv[t].new, Kinds)
  /\ bug' = (bug \/ Over(users, lv[t].new, Kinds))
  /\ End(t)
  /\ UNCHANGED <<parts, in_exec, todo>> /\ NoCopying /\ NoLife

-----------------------------------------------------------------------------
(* bprm_execve() and begin_new_exec().  cred_guard_mutex lets one thread of  *)
(* a group exec.                                                              *)

ExecPcs == {"exec", "dethread", "exec_files", "exec_mm", "exec_sighand", "exec_end"}

\* check_unsafe_exec()
ExecCheck(t) ==
  LET f == parts[t].fs
      group == {t} \cup Peers(t)
      shared == users.fs[f] > Cardinality({k \in group : parts[k].fs = f})
  IN /\ Begin(t, "exec")
     /\ \A k \in Peers(t) : step[k] \notin ExecPcs
     /\ in_exec' = IF shared THEN in_exec ELSE [in_exec EXCEPT ![f] = TRUE]
     /\ Keep(t, [Local EXCEPT !.unsafe = shared]) /\ Move(t, "exec")
     /\ UNCHANGED <<parts, users, bug>> /\ NoCopying /\ NoLife

\* The program cannot be opened or loaded, or the point of no return is near.
ExecOpen(t) ==
  /\ InStep(t, "exec")
  /\ Move(t, "exec_end") \/ (t \notin killed /\ Move(t, "dethread"))
  /\ UNCHANGED <<lv, todo>> /\ NoCopying /\ NoLife /\ NoParting

\* de_thread() kills the other threads and waits until they have gone.
KillOthers(t) ==
  /\ InStep(t, "dethread")
  /\ \/ Peers(t) # {} /\ t \in killed /\ Move(t, "exec_end") /\ UNCHANGED killed
     \/ /\ ~(Peers(t) \subseteq killed) /\ t \notin killed
        /\ killed' = killed \cup Peers(t) /\ UNCHANGED step
     \/ Peers(t) = {} /\ Move(t, "exec_files") /\ UNCHANGED killed
  /\ UNCHANGED <<state, live, nr_threads, lv, todo>> /\ NoCopying /\ NoParting

\* unshare_files(), exec_mmap() and unshare_sighand(): a structure of its own.
\* A failure is fatal here.
OwnPart(t, kind, next) ==
  LET old == parts[t][kind]
      must == kind = "mm" \/ users[kind][old] > 1
  IN /\ \/ ~must /\ Move(t, next) /\ UNCHANGED <<parts, users, killed>>
        \/ /\ must /\ Unused(kind) # {}
           /\ parts' = [parts EXCEPT ![t][kind] = Fresh(kind)]
           /\ users' = [users EXCEPT ![kind][Fresh(kind)] = 1, ![kind][old] = @ - 1]
           /\ Move(t, next) /\ UNCHANGED killed
        \/ /\ must /\ killed' = killed \cup {t}
           /\ Move(t, "exec_end") /\ UNCHANGED <<parts, users>>
     /\ UNCHANGED <<state, live, nr_threads, in_exec, own, usage, lv, todo, bug>>

ExecFiles(t) ==
  /\ InStep(t, "exec_files") /\ OwnPart(t, "files", "exec_mm")
  /\ UNCHANGED <<vfork_done, done>>

ExecMm(t) ==
  /\ InStep(t, "exec_mm") /\ OwnPart(t, "mm", "exec_sighand") /\ MmRelease(t)

ExecSighand(t) ==
  /\ InStep(t, "exec_sighand") /\ OwnPart(t, "sighand", "exec_end")
  /\ UNCHANGED <<vfork_done, done>>

ExecEnd(t) ==
  /\ InStep(t, "exec_end")
  /\ in_exec' = [in_exec EXCEPT ![parts[t].fs] = FALSE]
  /\ End(t)
  /\ UNCHANGED <<parts, users, bug, todo>> /\ NoCopying /\ NoLife

-----------------------------------------------------------------------------
(* do_exit(), and SIGKILL for a group from outside. *)

ExitPcs == {"exit_mm", "exit_files", "exit_fs", "exit_notify"}

Exit(t) ==
  /\ \/ Begin(t, "exit")
     \/ InStep(t, "user") /\ t \in killed /\ UNCHANGED todo
  /\ live' = [live EXCEPT ![parts[t].signal] = @ - 1]
  /\ Move(t, "exit_mm")
  /\ UNCHANGED <<state, nr_threads, killed, lv>> /\ NoCopying /\ NoParting

Give(t, kinds) ==
  /\ users' = Put(users, parts[t], kinds)
  /\ parts' = [parts EXCEPT ![t] = [kind \in Kinds |->
                 IF kind \in kinds THEN None ELSE parts[t][kind]]]
  /\ bug' = (bug \/ Over(users, parts[t], kinds))
  /\ UNCHANGED <<in_exec, own, todo>>

ExitMm(t) ==
  /\ InStep(t, "exit_mm") /\ MmRelease(t) /\ Give(t, {"mm"})
  /\ Move(t, "exit_files") /\ UNCHANGED <<usage, lv>> /\ NoLife

ExitFiles(t) ==
  /\ InStep(t, "exit_files") /\ Give(t, {"files"})
  /\ Move(t, "exit_fs") /\ UNCHANGED <<usage, vfork_done, done, lv>> /\ NoLife

ExitFs(t) ==
  /\ InStep(t, "exit_fs") /\ Give(t, {"fs"})
  /\ Move(t, "exit_notify") /\ UNCHANGED <<usage, vfork_done, done, lv>> /\ NoLife

\* exit_notify(), release_task() and put_task_struct()
Release(t) ==
  /\ InStep(t, "exit_notify") /\ Give(t, {"sighand", "signal"})
  /\ nr_threads' = nr_threads - 1
  /\ state' = [state EXCEPT ![t] = "free"]
  /\ usage' = [usage EXCEPT ![t] = @ - 1]
  /\ killed' = killed \ {t}
  /\ End(t)
  /\ UNCHANGED <<live, vfork_done, done>>

KillGroup(t) ==
  /\ Begin(t, "kill")
  /\ \E k \in Tasks \ {t} :
       /\ state[k] = "live"
       /\ killed' = killed \cup {k} \cup Peers(k)
  /\ UNCHANGED <<state, live, nr_threads, step, lv>> /\ NoCopying /\ NoParting

-----------------------------------------------------------------------------
ForkStep(t) ==
  \/ CopyPrivate(t) \/ CopyPart(t) \/ Publish(t) \/ CopyFails(t) \/ Undo(t)
  \/ Wake(t) \/ VforkWait(t) \/ VforkKilled(t)
  \/ UnshareFs(t) \/ UnshareFd(t) \/ UnshareRest(t) \/ UnshareSwap(t) \/ UnshareCleanup(t)
  \/ ExecOpen(t) \/ KillOthers(t) \/ ExecFiles(t) \/ ExecMm(t) \/ ExecSighand(t)
  \/ ExecEnd(t) \/ ExitMm(t) \/ ExitFiles(t) \/ ExitFs(t) \/ Release(t)
Call(t) == Clone(t) \/ Unshare(t) \/ ExecCheck(t) \/ Exit(t) \/ KillGroup(t)

ForkNext == \E t \in Tasks : ForkStep(t) \/ Call(t)

\* The kernel runs every task that can run, and programs go on.
ForkSpec == ForkInit /\ [][ForkNext]_forkVars
ForkFairSpec == ForkSpec /\ \A t \in Tasks : WF_forkVars(ForkStep(t) \/ Call(t))

-----------------------------------------------------------------------------
\* A structure is counted once for each task that has it and for each call that
\* has made it and not used it yet: nothing leaks or is put twice, whatever stage
\* fails and whoever shares (copy_process, ksys_unshare, begin_new_exec, do_exit).
Counted(k, kind) ==
  /\ parts[k][kind] # None
  /\ state[k] = "new" => kind \in own[k]

CountsExact ==
  /\ \A kind \in Kinds : \A id \in Ids :
       users[kind][id] =
         Cardinality({k \in Tasks : parts[k][kind] = id /\ Counted(k, kind)})
         + Cardinality({k \in Tasks : lv[k].new[kind] = id})
  /\ \A id \in Ids : live[id] = Cardinality({k \in Tasks : parts[k].signal = id
       /\ Counted(k, "signal") /\ step[k] \notin ExitPcs})
  /\ nr_threads = Cardinality({k \in Tasks : state[k] \in {"visible", "live"}})
  /\ \A k \in Tasks : state[k] # "new" => own[k] = {}
  /\ ~bug

\* A child completes only the wait of the parent that waits for it, on whose
\* stack the completion is, and the parent's child is no other task
\* (kernel_clone, wait_for_vfork_done, complete_vfork_done).
VforkValid ==
  \A k, t \in Tasks :
    /\ vfork_done[k] = t => step[t] \in {"vfork", "vfork_killed"} /\ lv[t].p = k
    /\ step[t] = "vfork" /\ lv[t].p = k => done[t] \/ vfork_done[k] = t

\* An exec that has found its fs_struct unshared keeps it so until it ends: no
\* task outside the group has it or is about to (check_unsafe_exec, copy_fs).
ExecFsPrivate ==
  \A t, k \in Tasks :
    /\ step[t] \in ExecPcs /\ ~lv[t].unsafe
    /\ parts[k].fs = parts[t].fs /\ Counted(k, "fs")
    => parts[k].signal = parts[t].signal

\* What tasks share is sound: the counts, the completions, the fs_struct of an exec.
SharingSound == CountsExact /\ VforkValid /\ ExecFsPrivate

\* Every call ends; a vfork() with the exec or the exit of the child, if that gets
\* there (kernel_clone, de_thread).
Resting(k) == step[k] = "user" /\ todo[k] = <<>>
InCall(t) == step[t] # "user" /\ ~\E k \in Tasks : lv[t].p = k /\ Resting(k)
CallsEnd == \A t \in Tasks : InCall(t) ~> ~InCall(t)
=============================================================================
