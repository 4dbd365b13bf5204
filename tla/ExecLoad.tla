------------------------------ MODULE ExecLoad ------------------------------
(***************************************************************************)
(* execve() of fs/exec.c and load_elf_binary() of fs/binfmt_elf.c, with a  *)
(* failure possible at every step: the memory, files and locks it takes    *)
(* and gives back, the point of no return, and the tasks that meanwhile    *)
(* look at its memory (mm_access) or write to the files.  The other        *)
(* threads of the group are those of ExecDeThread.                         *)
(***************************************************************************)
EXTENDS Integers

CONSTANTS
  Files,
  Programs,      \* of each file: kind "elf", "script", "misc" or "data", and interp
  FirstFile,     \* the program that runs first
  Readers,       \* tasks that call mm_access()
  Writable,      \* files that are opened for writing
  Null,
  MaxRewrites,   \* the largest depth of exec_binprm()
  MaxExecs       \* bound: calls of execve()

ConstantsOK ==
  /\ FirstFile \in Files /\ Writable \subseteq Files /\ Null \notin Files
  /\ MaxRewrites \in Nat /\ MaxExecs \in Nat
  /\ Programs \in [Files -> [kind : {"elf", "script", "misc", "data"},
                             interp : Files \cup {Null}]]
  /\ \A f \in Files : Programs[f].kind \in {"script", "misc"} => Programs[f].interp \in Files

VARIABLES
  pc, b,        \* the step of the task, and its linux_binprm
  mem,          \* the memory of the exec that is allocated
  mm, cred,     \* of the task: which exec they come from; and mm->exe_file
  fref,         \* f_count of each file
  wcount,       \* i_writecount: writers, or minus the denials
  fds,          \* files that fd_install() has given to a new program
  guard,        \* cred_guard_mutex is held
  update,       \* exec_update_lock is held for writing
  fatal,        \* a fatal signal is pending
  execs,        \* calls so far
  rpc, seen,    \* the step of each reader, and the mm and credentials it saw
  writers       \* the files open for writing

vars == <<pc, b, mem, mm, cred, fref, wcount, fds, guard, update, fatal, execs,
          rpc, seen, writers>>

-----------------------------------------------------------------------------
NoBprm == [file |-> Null, executable |-> Null, interpreter |-> Null, elf |-> Null,
           exe |-> Null, mm |-> FALSE, cred |-> FALSE, execfd |-> FALSE, depth |-> 0,
           point_of_no_return |-> FALSE, failed |-> FALSE, old |-> <<0, 0>>]

Init ==
  /\ pc = "user" /\ b = NoBprm /\ mem = {}
  /\ mm = [exec |-> 0, exe |-> FirstFile] /\ cred = 0
  /\ fref = [f \in Files |-> IF f = FirstFile THEN 1 ELSE 0]
  /\ wcount = [f \in Files |-> IF f = FirstFile THEN -1 ELSE 0]
  /\ fds = {}
  /\ guard = FALSE /\ update = FALSE /\ fatal = FALSE /\ execs = 0
  /\ rpc = [r \in Readers |-> "idle"] /\ seen = [r \in Readers |-> <<0, 0>>]
  /\ writers = {}

At(l) == pc = l
Goto(l) == pc' = l
NoFiles == UNCHANGED <<fref, wcount, fds>>
NoLocks == UNCHANGED <<guard, update>>
Same == UNCHANGED <<mm, cred>>
Others == UNCHANGED <<fatal, execs, rpc, seen, writers>>

Is(f, g) == IF f = g THEN 1 ELSE 0
Plus(f, g, n) == IF g = Null THEN f ELSE [f EXCEPT ![g] = @ + n]

\* do_open_execat() and deny_write_access(); then fput() and allow_write_access().
CanOpen(f) == wcount[f] <= 0
OpenExec(f) == fref' = Plus(fref, f, 1) /\ wcount' = Plus(wcount, f, -1) /\ UNCHANGED fds
CloseExec(f) == fref' = Plus(fref, f, -1) /\ wcount' = Plus(wcount, f, 1) /\ UNCHANGED fds

\* A call that succeeds and goes on, or fails and jumps.
Tries(next, failed) == (Goto(next) /\ UNCHANGED b) \/ (Goto(failed) /\ b' = [b EXCEPT !.failed = TRUE])
Fails(l) == Goto(l) /\ b' = [b EXCEPT !.failed = TRUE]

-----------------------------------------------------------------------------
(* do_execveat_common(), kernel_execve() *)

Exec(f) ==
  /\ At("user") /\ ~fatal /\ execs < MaxExecs
  /\ execs' = execs + 1
  /\ b' = [NoBprm EXCEPT !.interpreter = f, !.old = <<mm.exec, cred>>]
  /\ mem' = {"bprm"} /\ Goto("alloc")
  /\ NoFiles /\ NoLocks /\ Same /\ UNCHANGED <<fatal, rpc, seen, writers>>

\* alloc_bprm(): the name, and bprm_mm_init().
AllocBprm ==
  /\ At("alloc")
  /\ \/ /\ \E path \in {{}, {"fdpath"}} : mem' = mem \cup {"mm"} \cup path
        /\ b' = [b EXCEPT !.mm = TRUE] /\ Goto("args")
     \/ mem' \in {mem, mem \cup {"fdpath"}} /\ Fails("free")
  /\ NoFiles /\ NoLocks /\ Same /\ Others

\* count(), bprm_stack_limits(), copy_strings()
CopyStrings ==
  /\ At("args") /\ Tries("creds", "free")
  /\ UNCHANGED mem /\ NoFiles /\ NoLocks /\ Same /\ Others

PrepareBprmCreds ==
  /\ At("creds")
  /\ \/ /\ ~guard /\ guard' = TRUE /\ mem' = mem \cup {"cred"}
        /\ b' = [b EXCEPT !.cred = TRUE] /\ Goto("open")
     \/ Fails("free") /\ UNCHANGED <<guard, mem>>
  /\ NoFiles /\ Same /\ UNCHANGED update /\ Others

\* bprm_execve()
Open ==
  LET f == b.interpreter
  IN /\ At("open")
     /\ \/ /\ CanOpen(f) /\ OpenExec(f)
           /\ b' = [b EXCEPT !.file = f, !.interpreter = Null] /\ Goto("search")
        \/ Fails("free") /\ NoFiles
     /\ UNCHANGED mem /\ NoLocks /\ Same /\ Others

-----------------------------------------------------------------------------
(* exec_binprm() and search_binary_handler() *)

\* The handlers of scripts and of binfmt_misc open the interpreter.
LoadScript ==
  LET p == Programs[b.file]
  IN /\ At("search") /\ b.depth <= MaxRewrites /\ p.kind \in {"script", "misc"}
     /\ CanOpen(p.interp) /\ OpenExec(p.interp)
     /\ mem' = mem \cup {"interp"}
     /\ b' = [b EXCEPT !.interpreter = p.interp, !.execfd = @ \/ p.kind = "misc"]
     /\ Goto("rewrite")
     /\ NoLocks /\ Same /\ Others

\* No handler takes the file, the depth is exceeded, or a handler fails.
NoHandler ==
  /\ At("search") /\ Fails("out")
  /\ UNCHANGED mem /\ NoFiles /\ NoLocks /\ Same /\ Others

Rewrite ==
  LET exec == b.file
      keep == b.execfd /\ b.executable = Null
  IN /\ At("rewrite")
     /\ wcount' = Plus(wcount, exec, 1)
     /\ fref' = IF keep THEN fref ELSE Plus(fref, exec, -1)
     /\ b' = [b EXCEPT !.file = b.interpreter, !.interpreter = Null, !.depth = @ + 1,
                       !.executable = IF keep THEN exec ELSE @,
                       !.failed = b.execfd /\ ~keep]
     /\ Goto(IF b.execfd /\ ~keep THEN "out" ELSE "search")
     /\ UNCHANGED <<mem, fds>> /\ NoLocks /\ Same /\ Others

-----------------------------------------------------------------------------
(* load_elf_binary(), up to begin_new_exec() *)

ElfPhdrs ==
  /\ At("search") /\ b.depth <= MaxRewrites /\ Programs[b.file].kind = "elf"
  /\ mem' = mem \cup {"elf_phdata"}
  /\ Goto(IF Programs[b.file].interp = Null THEN "elf_check" ELSE "elf_interp")
  /\ UNCHANGED b /\ NoFiles /\ NoLocks /\ Same /\ Others

\* PT_INTERP: open_exec(), and memory for the header.
ElfInterp ==
  LET f == Programs[b.file].interp
  IN /\ At("elf_interp")
     /\ \/ /\ CanOpen(f) /\ OpenExec(f)
           /\ \/ /\ mem' = mem \cup {"interp_elf_ex"}
                 /\ b' = [b EXCEPT !.elf = f] /\ Goto("elf_headers")
              \/ /\ b' = [b EXCEPT !.elf = f, !.failed = TRUE]
                 /\ Goto("out_free_dentry") /\ UNCHANGED mem
        \/ Fails("out_free_ph") /\ UNCHANGED mem /\ NoFiles
     /\ NoLocks /\ Same /\ Others

ElfHeaders ==
  /\ At("elf_headers")
  /\ \/ mem' = mem \cup {"interp_elf_phdata"} /\ Goto("elf_check") /\ UNCHANGED b
     \/ Fails("out_free_dentry") /\ UNCHANGED mem
  /\ NoFiles /\ NoLocks /\ Same /\ Others

ElfCheck ==
  /\ At("elf_check") /\ Tries("begin", "out_free_dentry")
  /\ UNCHANGED mem /\ NoFiles /\ NoLocks /\ Same /\ Others

-----------------------------------------------------------------------------
(* begin_new_exec(), setup_new_exec() *)

BprmCredsFromFile ==
  /\ At("begin")
  /\ \/ b' = [b EXCEPT !.point_of_no_return = TRUE] /\ Goto("de_thread")
     \/ Fails("out_free_dentry")
  /\ UNCHANGED mem /\ NoFiles /\ NoLocks /\ Same /\ Others

\* de_thread() and unshare_files()
DeThread ==
  /\ At("de_thread") /\ Tries("exe_file", "out_free_dentry")
  /\ UNCHANGED mem /\ NoFiles /\ NoLocks /\ Same /\ Others

\* set_mm_exe_file() of bprm->mm, which has no exe_file yet.
SetMmExeFile ==
  /\ At("exe_file")
  /\ OpenExec(b.file)
  /\ b' = [b EXCEPT !.exe = b.file] /\ Goto("update_lock")
  /\ UNCHANGED mem /\ NoLocks /\ Same /\ Others

\* exec_mmap(): the lock, and mmap_lock, both killable; then the new mm.
ExecUpdateLock ==
  /\ At("update_lock")
  /\ \/ /\ ~update /\ \A r \in Readers : rpc[r] = "idle"
        /\ update' = TRUE /\ Goto("mmap") /\ UNCHANGED b
     \/ fatal /\ Fails("out_free_dentry") /\ UNCHANGED update
  /\ UNCHANGED <<guard, mem>> /\ NoFiles /\ Same /\ Others

ExecMmap ==
  /\ At("mmap")
  /\ \/ /\ mm' = [exec |-> execs, exe |-> b.exe]
        /\ CloseExec(mm.exe)
        /\ b' = [b EXCEPT !.mm = FALSE, !.exe = Null]
        /\ mem' = mem \ {"mm"}
        /\ Goto("sighand") /\ UNCHANGED update
     \/ fatal /\ update' = FALSE /\ Fails("out_free_dentry") /\ UNCHANGED <<mm, mem>> /\ NoFiles
  /\ UNCHANGED <<cred, guard>> /\ Others

\* Mutant: the credentials are committed after the lock has been let go.
UnlocksEarly == update' = FALSE

KeepsLock == UNCHANGED update

\* unshare_sighand(), set_cred_ucounts(), and commit_creds() after them.
UnshareSighand ==
  /\ At("sighand")
  /\ \/ Goto("commit") /\ UNCHANGED b /\ KeepsLock
     \/ Fails("out_free_dentry") /\ update' = FALSE
  /\ UNCHANGED <<mem, guard>> /\ NoFiles /\ Same /\ Others

CommitCreds ==
  /\ At("commit")
  /\ cred' = execs
  /\ b' = [b EXCEPT !.cred = FALSE] /\ mem' = mem \ {"cred"}
  /\ Goto(IF b.execfd THEN "execfd" ELSE "setup")
  /\ NoFiles /\ NoLocks /\ UNCHANGED mm /\ Others

\* The opened binary is passed to the interpreter.
ExecFd ==
  /\ At("execfd")
  /\ \/ /\ fds' = fds \cup {b.executable}
        /\ fref' = Plus(fref, b.executable, IF b.executable \in fds THEN -1 ELSE 0)
        /\ b' = [b EXCEPT !.executable = Null] /\ Goto("setup")
        /\ UNCHANGED <<wcount, update>>
     \/ Fails("out_free_dentry") /\ update' = FALSE /\ NoFiles
  /\ UNCHANGED <<mem, guard>> /\ Same /\ Others

SetupNewExec ==
  /\ At("setup")
  /\ update' = FALSE /\ guard' = FALSE /\ Goto("map")
  /\ UNCHANGED <<b, mem>> /\ NoFiles /\ Same /\ Others

-----------------------------------------------------------------------------
(* The rest of load_elf_binary(), and its labels. *)

\* setup_arg_pages(), elf_map(), set_brk(), load_elf_interp()
ElfMap ==
  /\ At("map") /\ Tries("map_done", "out_free_dentry")
  /\ UNCHANGED mem /\ NoFiles /\ NoLocks /\ Same /\ Others

ElfMem == {"elf_phdata", "interp_elf_ex", "interp_elf_phdata"}

ElfMapped ==
  /\ At("map_done")
  /\ CloseExec(b.elf)
  /\ mem' = mem \ ElfMem /\ Goto("tables")
  /\ UNCHANGED b /\ NoLocks /\ Same /\ Others

\* Mutant: the last failure jumps to the label of the earlier ones.
LateLabel == "out_free_dentry"

LastLabel == "out"

\* ARCH_SETUP_ADDITIONAL_PAGES, create_elf_tables(), finalize_exec()
CreateElfTables ==
  /\ At("tables") /\ Tries("done", LastLabel)
  /\ UNCHANGED mem /\ NoFiles /\ NoLocks /\ Same /\ Others

OutFreeDentry ==
  /\ At("out_free_dentry")
  /\ CloseExec(b.elf)
  /\ mem' = mem \ {"interp_elf_ex", "interp_elf_phdata"} /\ Goto("out_free_ph")
  /\ UNCHANGED b /\ NoLocks /\ Same /\ Others

OutFreePh ==
  /\ At("out_free_ph")
  /\ mem' = mem \ {"elf_phdata"} /\ Goto("out")
  /\ UNCHANGED b /\ NoFiles /\ NoLocks /\ Same /\ Others

-----------------------------------------------------------------------------
(* The end of bprm_execve(), and free_bprm(). *)

\* Mutant: a failure behind the point of no return goes back to the program.
NotFatal == FALSE

Doomed == b.point_of_no_return

Out ==
  /\ At("out") \/ At("done")
  /\ fatal' = (fatal \/ (At("out") /\ Doomed))
  /\ Goto("free")
  /\ UNCHANGED <<b, mem, execs, rpc, seen, writers>> /\ NoFiles /\ NoLocks /\ Same

FreeBprm ==
  LET Denied(f) == Is(b.file, f) + Is(b.exe, f)
  IN /\ At("free")
     /\ guard' = (guard /\ ~b.cred)
     /\ fref' = [f \in Files |-> fref[f] - Denied(f) - Is(b.executable, f)]
     /\ wcount' = [f \in Files |-> wcount[f] + Denied(f)]
     /\ mem' = mem \ ({"bprm", "fdpath", "interp"} \cup (IF b.mm THEN {"mm"} ELSE {})
                      \cup (IF b.cred THEN {"cred"} ELSE {}))
     /\ Goto("ret")
     /\ UNCHANGED <<b, fds, update>> /\ Same /\ Others

\* Back to the program; or the task dies.
Return ==
  /\ At("ret")
  /\ IF fatal THEN Goto("dead") /\ CloseExec(mm.exe) ELSE Goto("user") /\ NoFiles
  /\ b' = NoBprm
  /\ UNCHANGED mem /\ NoLocks /\ Same /\ Others

-----------------------------------------------------------------------------
(* mm_access(): exec_update_lock for reading, get_task_mm(), and             *)
(* ptrace_may_access(), which looks at the credentials.                      *)

Reader(r, from, to) ==
  /\ rpc[r] = from /\ rpc' = [rpc EXCEPT ![r] = to]
  /\ UNCHANGED <<pc, b, mem, fatal, execs, writers>> /\ NoFiles /\ NoLocks /\ Same

MmAccess(r) ==
  /\ ~update /\ pc # "dead" /\ Reader(r, "idle", "locked") /\ UNCHANGED seen

GetTaskMm(r) == Reader(r, "locked", "got") /\ seen' = [seen EXCEPT ![r] = <<mm.exec, 0>>]

PtraceMayAccess(r) ==
  Reader(r, "got", "checked") /\ seen' = [seen EXCEPT ![r][2] = cred]

UpRead(r) == Reader(r, "checked", "idle") /\ seen' = [seen EXCEPT ![r] = <<0, 0>>]

\* SIGKILL, and files opened for writing and closed.
Kill ==
  /\ pc \notin {"user", "dead", "ret"} /\ ~fatal /\ fatal' = TRUE
  /\ UNCHANGED <<pc, b, mem, execs, rpc, seen, writers>> /\ NoFiles /\ NoLocks /\ Same

Write(f) ==
  /\ f \in Writable
  /\ \/ f \notin writers /\ wcount[f] >= 0 /\ wcount' = Plus(wcount, f, 1)
        /\ writers' = writers \cup {f}
     \/ f \in writers /\ wcount' = Plus(wcount, f, -1) /\ writers' = writers \ {f}
  /\ UNCHANGED <<pc, b, mem, fref, fds, fatal, execs, rpc, seen>> /\ NoLocks /\ Same

Step ==
  \/ AllocBprm \/ CopyStrings \/ PrepareBprmCreds \/ Open \/ LoadScript \/ NoHandler
  \/ Rewrite \/ ElfPhdrs \/ ElfInterp \/ ElfHeaders \/ ElfCheck \/ BprmCredsFromFile
  \/ DeThread \/ SetMmExeFile \/ ExecUpdateLock \/ ExecMmap \/ UnshareSighand
  \/ CommitCreds \/ ExecFd \/ SetupNewExec \/ ElfMap \/ ElfMapped \/ CreateElfTables
  \/ OutFreeDentry \/ OutFreePh \/ Out \/ FreeBprm \/ Return
Read(r) == GetTaskMm(r) \/ PtraceMayAccess(r) \/ UpRead(r)

Next ==
  \/ Step \/ Kill
  \/ \E f \in Files : Exec(f) \/ Write(f)
  \/ \E r \in Readers : MmAccess(r) \/ Read(r)

\* An rwsem is fair: readers that come again do not keep a writer waiting.
Spec == Init /\ [][Next]_vars
FairSpec == Spec /\ SF_vars(Step) /\ \A r \in Readers : WF_vars(Read(r))

-----------------------------------------------------------------------------
ElfPcs == {"elf_headers", "elf_check", "begin", "de_thread", "exe_file", "update_lock",
           "mmap", "sighand", "commit", "execfd", "setup", "map", "map_done",
           "out_free_dentry"}

\* What denies a file to writers: the running program, and what the exec has
\* opened; and what else has a reference.
Denials(f) ==
  LET prog == IF pc = "dead" THEN 0 ELSE Is(mm.exe, f)
      exec == IF pc = "ret" THEN 0 ELSE Is(b.file, f) + Is(b.exe, f)
      next == IF pc = "rewrite" THEN Is(b.interpreter, f) ELSE 0
      elf == IF pc \in ElfPcs THEN Is(b.elf, f) ELSE 0
  IN prog + exec + next + elf
Kept(f) == (IF pc = "ret" THEN 0 ELSE Is(b.executable, f)) + (IF f \in fds THEN 1 ELSE 0)

\* Every file is referenced, and denied to writers, as often as the exec and the
\* running program hold it, at every step of every failure; nobody writes to one
\* that is denied; and a call that has ended leaves no memory behind (free_bprm,
\* exec_binprm, load_elf_binary, set_mm_exe_file).
FilesExact ==
  /\ \A f \in Files :
       /\ wcount[f] = (IF f \in writers THEN 1 ELSE -Denials(f))
       /\ fref[f] = Denials(f) + Kept(f)
       /\ f \in writers => Denials(f) = 0
  /\ pc \in {"user", "dead"} => mem = {} /\ ~update

\* An exec that returns an error has left the program and its credentials as they
\* were, and one that succeeds has changed both; what fails behind the point of
\* no return does not return (bprm_execve, begin_new_exec).
ErrorLeavesOld ==
  pc = "ret" /\ ~fatal =>
    /\ b.failed => <<mm.exec, cred>> = b.old
    /\ ~b.failed => mm = [exec |-> execs, exe |-> b.file] /\ cred = execs

\* A reader never sees the memory of one program with the credentials of another,
\* but for a program that dies of its failure (mm_access, exec_mmap, setup_new_exec).
CredsMatchMm ==
  \A r \in Readers :
    rpc[r] = "checked" => seen[r][1] = seen[r][2] \/ b.failed \/ pc = "dead"

LoadSound == ErrorLeavesOld /\ CredsMatchMm

\* An exec that fails lets go of cred_guard_mutex (comment of prepare_bprm_creds).
GuardReleased == pc \in {"user", "dead"} => ~guard

\* An exec ends, whatever fails.
Busy == pc \notin {"user", "dead"}
ExecEnds == Busy ~> ~Busy
=============================================================================
