------------------------------ MODULE MCKernel ------------------------------
(* Finite instances of the parts of the kernel that the exec path uses: the *)
(* table of files, the pids, copy_process(), the loading of a program, its    *)
(* arguments and its image, the core dump and the wait for children.  A      *)
(* behaviour is one of the part that kind names; the variables of the other  *)
(* parts are Null, but those of PidTable, ExecLoad, CopyProcess and           *)
(* WaitChildren, which this module extends, stay as they begin.  place,       *)
(* locals, script, fault and bytes are those of the part.                     *)
EXTENDS PidTable, ExecLoad, CopyProcess, WaitChildren, TLC

CONSTANTS t1, t2, t3, k1, k2, k3, k4, x1, x2, x3, x4, fa, fb, fc,
          init, sh, pa, pb, ca, cb, ch

VARIABLES
  kind, place, locals, script, fault, bytes,
  files, fs, ref, nr_open, readers,
  call, bprm, user, edits, cp, vma, acct, args_mm, args_fatal,
  seg, prog, interp, wr, st, ld, brk,
  post, signaled, group_exit, core, next, parked, old, case, info, heap, out, pos

filesVars == <<files, fs, ref, nr_open, readers>>
argsVars == <<call, bprm, user, edits, cp, vma, acct, args_mm, args_fatal>>
imageVars == <<seg, prog, interp, wr, st, ld, brk>>
dumpVars ==
  <<post, signaled, group_exit, core, next, parked, old, case, info, heap, out, pos>>
newVars == <<argsVars, imageVars, dumpVars>>
kernelVars ==
  <<kind, place, locals, script, fault, bytes, filesVars, pidVars, forkVars, vars,
    waitVars, newVars>>

-----------------------------------------------------------------------------
(* Two tasks that share a table of two or four files and grow it to six.    *)

Two(x, y) == t1 :> x @@ t2 :> y
FileTables ==
  {[max_fds |-> 2, fd |-> 0 :> fa @@ 1 :> fb],
   [max_fds |-> 4, fd |-> 0 :> fa @@ 1 :> Null @@ 2 :> fb @@ 3 :> fb]}
FileRanges == {<<2, 5>>, <<0, 1>>}
FileScripts ==
  {Two(<<"open">>, <<"dup2">>), Two(<<"open">>, <<"open", "close">>),
   Two(<<"fdget">>, <<"close", "open">>), Two(<<"fdget">>, <<"dup2">>),
   Two(<<"fdget">>, <<"open", "exit">>), Two(<<"open">>, <<"range">>),
   Two(<<"open", "flag">>, <<"exec">>), Two(<<"fdget">>, <<"exit">>),
   Two(<<"range">>, <<"exit">>)}
F == INSTANCE FileTable WITH
       pc <- place, lv <- locals, todo <- script, bug <- fault,
       Tasks <- {t1, t2}, Structs <- {1, 2}, Files <- {fa, fb, fc},
       BITS_PER_LONG <- 2,
       Chunk <- 2, NrOpens <- {4, 6}, Nofile <- 5, Fds <- {0, 1, 3}, Ranges <- FileRanges,
       Tables <- FileTables, Scripts <- FileScripts

(* Two callers and four numbers in each namespace, the first of which is     *)
(* given out before the counter wraps only.                                  *)
PidRequests ==
  {Two(<<"fork_sub", "fork_sub">>, <<"find">>), Two(<<"fork_sub", "fork_sub", "fork">>, <<>>),
   Two(<<"fork_sub">>, <<"fork_sub">>),
   Two(<<"fork", "setsid">>, <<"find", "fork">>),
   Two(<<"thread", "exec">>, <<"find", "set_tid">>),
   Two(<<"fork_sub", "thread">>, <<"exec">>)}

Three(x, y, z) == t1 :> x @@ t2 :> y @@ t3 :> z

(* Two tasks that share all or part of what they have, and room for a third. *)
CloneCall(flags) == [call |-> "clone", flags |-> flags]
UnshareCall(flags) == [call |-> "unshare", flags |-> flags]
Do(name) == [call |-> name]
Part(files_id, fs_id, sighand, signal, mm_id) ==
  [files |-> files_id, fs |-> fs_id, sighand |-> sighand, signal |-> signal, mm |-> mm_id]
ForkFirsts ==
  {Three(Part(1, 1, 1, 1, 1), p, NoParts) :
     p \in {Part(1, 1, 1, 1, 1), Part(1, 1, 2, 2, 2), Part(2, 1, 1, 2, 1)}}
ThreadFlags == {"VM", "FS", "FILES", "SIGHAND", "THREAD"}
ForkScripts ==
  {Three(<<CloneCall({"VM", "VFORK"})>>, <<Do("kill")>>, <<Do("exec"), Do("exit")>>),
   Three(<<CloneCall({"VM", "VFORK", "PIDFD"})>>, <<Do("exec")>>, <<Do("exit")>>),
   Three(<<CloneCall({"FS"})>>, <<Do("exec")>>, <<Do("exit")>>),
   Three(<<CloneCall(ThreadFlags)>>, <<Do("exec"), Do("exit")>>,
         <<UnshareCall({"FS", "FILES"}), Do("exit")>>),
   Three(<<UnshareCall({"FS", "FILES"})>>, <<CloneCall({"FS", "FILES", "PIDFD"})>>, <<Do("exit")>>),
   Three(<<Do("exec")>>, <<CloneCall({"FS"})>>, <<Do("kill")>>),
   Three(<<UnshareCall({"FS", "FILES"})>>, <<Do("exit")>>, <<>>)}

(* Files of each kind: a program with an interpreter, scripts, and a script  *)
(* that is its own interpreter.                                              *)
ExecPrograms ==
  LET File(k, i) == [kind |-> k, interp |-> i]
  IN "sh" :> File("elf", "ld") @@ "ld" :> File("elf", Null) @@ "script" :> File("script", "sh")
     @@ "misc" :> File("misc", "sh") @@ "misc2" :> File("misc", "script")
     @@ "loop" :> File("script", "loop")
ProgramFiles == DOMAIN ExecPrograms

(* init, a shell, a process of two threads pa and pb and its children: ca    *)
(* with the thread cb, and ch in the process group of its parent.            *)
Family == {init, sh, pa, pb, ca, cb, ch}
FamilyLeader == [t \in Family |-> IF t = pb THEN pa ELSE IF t = cb THEN ca ELSE t]
FamilyParent == init :> init @@ sh :> init @@ pa :> sh @@ ca :> pa @@ ch :> pb
FamilyPgrp == init :> 1 @@ sh :> 2 @@ pa :> 3 @@ ca :> 4 @@ ch :> 3
For(p, flags) == [pid |-> p, flags |-> flags]
Exited == {"WEXITED"}
WaitPlans ==
  LET NoWaits == [t \in Family |-> {}]
      Plan(exits, waits) ==
        [exits |-> exits, signals |-> {}, ignores |-> {}, stops |-> {},
         subreapers |-> {sh}, waits |-> waits @@ NoWaits]
  IN {[Plan({ca, ch}, pa :> {For(AnyChild, Exited)}
         @@ pb :> {For(AnyChild, Exited \cup {"WNOHANG"}), For(ch, Exited \cup {"__WNOTHREAD"})})
         EXCEPT !.ignores = {pa}],
      [Plan({ca, cb, ch}, pa :> {For(AnyChild, Exited)}
         @@ pb :> {For(AnyChild, Exited \cup {"WNOWAIT"}), For(ca, Exited)})
         EXCEPT !.signals = {pa}],
      Plan({pa, pb, ca}, init :> {For(AnyChild, Exited)} @@ sh :> {For(AnyChild, Exited)} @@ pb :> {For(AnyChild, Exited)}),
      [Plan({pa, pb, ca, ch, sh}, init :> {For(AnyChild, Exited)}) EXCEPT !.ignores = {init}],
      [Plan({ch}, pa :> {For(AnyChild, {"WUNTRACED", "WCONTINUED"})}
         @@ pb :> {For(ch, Exited \cup {"WUNTRACED"})}) EXCEPT !.stops = {ch, ca}],
      [Plan({pa, pb, sh}, NoWaits) EXCEPT !.stops = {ch, ca}, !.subreapers = {}]}

(* Calls with strings that another thread changes, that are too long or do    *)
(* not end, with scripts, with an array that does not end, and of the kernel; *)
(* a stack of pages of four, and a limit that they reach.                     *)
Execve(argv, envp, scripts) ==
  [kernel |-> FALSE, file |-> <<-9>>, argv |-> argv, envp |-> envp, scripts |-> scripts]
KernelExecve(argv, envp, scripts) ==
  [Execve(argv, envp, scripts) EXCEPT !.kernel = TRUE]
Strings ==
  <<<<-1, -1, 0, -1, 0>>, <<0>>, <<-3, -3, -3, -3, 0>>, <<-4, -4, -4, -4, -4, -4, 0>>,
    <<-5, -5, -5, -5>>>>
Shell == [name |-> <<-7>>, arg |-> Null]
ShellArg == [name |-> <<-7, -7>>, arg |-> <<-8>>]
ArgsCalls ==
  {Execve(<<1, 3, 0>>, <<2, 1, 0>>, <<>>), Execve(<<3, 0>>, Null, <<Shell>>),
   Execve(<<0>>, <<1, 0>>, <<ShellArg>>), Execve(Null, <<1, 2, 0>>, <<Shell, ShellArg>>),
   Execve(<<1, 4, 0>>, Null, <<>>), Execve(<<5, 0>>, <<1>>, <<>>),
   Execve(<<5, 0>>, <<0>>, <<>>), Execve(<<1, 1, 1, 1, 1, 0>>, <<0>>, <<>>),
   KernelExecve(<<1, 3, 0>>, <<1, 0>>, <<Shell>>), KernelExecve(<<0>>, <<1, 0>>, <<>>)}
A == INSTANCE ExecArgs WITH
       pc <- place, b <- bprm, mem <- bytes, mm <- args_mm, fatal <- args_fatal,
       Calls <- ArgsCalls, Edits <- {<<1, 3, -1>>, <<1, 5, -1>>, <<3, 2, 0>>},
       MaxEdits <- 2, Rlims <- {8, 80}, StackTops <- {48, 44}, Gaps <- {3}, PAGE_SIZE <- 4,
       STACK_TOP_MAX <- 48, mmap_min_addr <- 4, stack_expand <- 4, Align <- 2,
       MAX_ARG_STRLEN <- 6, MAX_ARG_STRINGS <- 4, ARG_MAX <- 9, STK_LIM_3_4 <- 24,
       platform <- <<-6>>, k_rand_bytes <- <<-2, -2>>

(* Programs of one or two segments, fixed or not, with and without a bss and  *)
(* a gap, and an interpreter of two segments, in twelve pages of four.        *)
Segment(v, o, f, m, x, w, al) ==
  [vaddr |-> v, offset |-> o, filesz |-> f, memsz |-> m, x |-> x, w |-> w, align |-> al]
Texts(v) ==
  {Segment(v, v % 4, f, f + m, TRUE, m > 0, al) : f \in {2, 6}, m \in {0, 5}, al \in {4, 8}}
NextPage(at) == 4 * ((at + 3) \div 4)
Datas(s) ==
  {z \in {Segment(NextPage(s.vaddr + s.memsz) + g, 4 + g, f, f + m, FALSE, TRUE, 4) :
            g \in {0, 3}, f \in {0, 6}, m \in {0, 1, 6}} : z.memsz > 0}
Image(type, phoff, segs) == [type |-> type, phoff |-> phoff, segs |-> segs]
Images ==
  UNION {{Image(tv[1], 1, <<s>>) : s \in Texts(tv[2])}
           \cup UNION {{Image(tv[1], 5, <<s, z>>) : z \in Datas(s)} : s \in Texts(tv[2])} :
           tv \in {<<"EXEC", 4>>, <<"EXEC", 9>>, <<"DYN", 0>>}}
Loader ==
  Image("DYN", 0, <<Segment(0, 0, 4, 4, TRUE, FALSE, 4), Segment(9, 5, 2, 5, FALSE, TRUE, 4)>>)
I == INSTANCE ElfImage WITH
       pc <- place, i <- seg, mem <- bytes, Programs <- Images, Interps <- {Loader, Null},
       FileLen <- 14,
       ELF_MIN_ALIGN <- 4, TASK_SIZE <- 48, StackStart <- 44, DynBases <- {8, 12},
       MmapBases <- {16, 24, 32}

(* Three threads, and memory with more areas than a header can count, a name  *)
(* that does not fit at first, or no area.                                    *)
Vma(name, size) == [name |-> name, dump_size |-> size]
D == INSTANCE CoreDump WITH
       pc <- place, Threads <- {t1, t2, t3},
       Dumps <- {<<Vma(2, 16), Vma(0, 0), Vma(3, 32)>>, <<Vma(9, 16)>>, <<>>},
       Regsets <- Three(<<3, 5>>, <<3>>, <<3, 2>>), EhdrSize <- 8, PhdrSize <- 4,
       ShdrSize <- 4, NoteSize <- 4, NameSize <- 5, InfoSizes <- <<6, 1>>, Long <- 2,
       PerVma <- 10, PN_XNUM <- 2, ELF_EXEC_PAGESIZE <- 16, PAGE_SIZE <- 8,
       MAX_FILE_NOTE_SIZE <- 48

ASSUME /\ F!ConstantsOK /\ PidConstantsOK /\ ForkConstantsOK /\ ConstantsOK
       /\ WaitConstantsOK /\ A!ConstantsOK /\ I!ConstantsOK /\ D!ConstantsOK

-----------------------------------------------------------------------------
FilesOff == fs = Null /\ ref = Null /\ nr_open = Null /\ readers = Null
PidsOff == PidInit /\ requests = (CHOOSE r \in Requests : TRUE)
ForkOff ==
  /\ ForkInit /\ parts = (CHOOSE f \in Firsts : TRUE)
  /\ todo = (CHOOSE s \in Scripts : TRUE)
WaitOff == WaitInit /\ plan = (CHOOSE p \in Plans : TRUE)
ArgsOff ==
  /\ call = Null /\ bprm = Null /\ user = Null /\ edits = Null /\ cp = Null
  /\ vma = Null /\ acct = Null /\ args_mm = Null /\ args_fatal = Null
ImageOff ==
  /\ seg = Null /\ prog = Null /\ interp = Null /\ wr = Null /\ st = Null /\ ld = Null
  /\ brk = Null
DumpOff ==
  /\ post = Null /\ signaled = Null /\ group_exit = Null /\ core = Null /\ next = Null
  /\ parked = Null /\ old = Null /\ case = Null /\ info = Null /\ heap = Null
  /\ out = Null /\ pos = Null

\* What more than one part has.
NoTable == files = Null
NoBytes == bytes = Null
NoLocals == locals = Null /\ script = Null /\ fault = Null
NewOff == ArgsOff /\ ImageOff /\ DumpOff

KernelInit ==
  \/ /\ kind = "files" /\ F!Init
     /\ PidsOff /\ ForkOff /\ Init /\ WaitOff /\ NoBytes /\ NewOff
  \/ /\ kind = "pids" /\ PidInit /\ place = Null
     /\ FilesOff /\ ForkOff /\ Init /\ WaitOff /\ NoLocals /\ NoTable /\ NoBytes /\ NewOff
  \/ /\ kind = "fork" /\ ForkInit /\ place = Null /\ NoLocals
     /\ FilesOff /\ PidsOff /\ Init /\ WaitOff /\ NoTable /\ NoBytes /\ NewOff
  \/ /\ kind = "load" /\ Init /\ place = Null
     /\ FilesOff /\ PidsOff /\ ForkOff /\ WaitOff /\ NoLocals /\ NoTable /\ NoBytes /\ NewOff
  \/ /\ kind = "wait" /\ WaitInit /\ place = Null
     /\ FilesOff /\ PidsOff /\ ForkOff /\ Init /\ NoLocals /\ NoTable /\ NoBytes /\ NewOff
  \/ /\ kind = "args" /\ A!Init
     /\ FilesOff /\ PidsOff /\ ForkOff /\ Init /\ WaitOff /\ NoLocals /\ NoTable
     /\ ImageOff /\ DumpOff
  \/ /\ kind = "image" /\ I!Init
     /\ FilesOff /\ PidsOff /\ ForkOff /\ Init /\ WaitOff /\ NoLocals /\ NoTable
     /\ ArgsOff /\ DumpOff
  \/ /\ kind = "dump" /\ D!Init
     /\ FilesOff /\ PidsOff /\ ForkOff /\ Init /\ WaitOff /\ NoLocals /\ NoBytes
     /\ ArgsOff /\ ImageOff

InFiles ==
  /\ kind = "files"
  /\ UNCHANGED <<kind, bytes, pidVars, forkVars, vars, waitVars, newVars>>
InPids ==
  /\ kind = "pids"
  /\ UNCHANGED <<kind, place, locals, script, fault, bytes, filesVars, forkVars, vars,
                 waitVars, newVars>>
InCopy ==
  /\ kind = "fork"
  /\ UNCHANGED <<kind, place, locals, script, fault, bytes, filesVars, pidVars, vars,
                 waitVars, newVars>>
InLoad ==
  /\ kind = "load"
  /\ UNCHANGED <<kind, place, locals, script, fault, bytes, filesVars, pidVars, forkVars,
                 waitVars, newVars>>
InWait ==
  /\ kind = "wait"
  /\ UNCHANGED <<kind, place, locals, script, fault, bytes, filesVars, pidVars, forkVars,
                 vars, newVars>>
InNew ==
  UNCHANGED <<kind, locals, script, fault, fs, ref, nr_open, readers, pidVars, forkVars,
              vars, waitVars>>
InArgs == kind = "args" /\ InNew /\ UNCHANGED <<files, imageVars, dumpVars>>
InImage == kind = "image" /\ InNew /\ UNCHANGED <<files, argsVars, dumpVars>>
InDump == kind = "dump" /\ InNew /\ UNCHANGED <<bytes, argsVars, imageVars>>

KernelNext ==
  \/ InFiles /\ F!Next
  \/ InPids /\ PidNext
  \/ InCopy /\ ForkNext
  \/ InLoad /\ Next
  \/ InWait /\ WaitNext
  \/ InArgs /\ A!Next
  \/ InImage /\ I!Next
  \/ InDump /\ D!Next

KernelSpec == KernelInit /\ [][KernelNext]_kernelVars

\* The fairness of the modules.  kind does not change, so that a condition can be
\* that of an actor of each kind.
Actor == <<t1, t2, t3>>
WeaklyFair(i) ==
  \/ /\ InPids
     /\ \/ i <= 2 /\ PidStep(Actor[i])
        \/ i = 3 /\ \E k \in Kids : Killed(k)
        \/ i = 4 /\ (ZapKill \/ ZapCheck)
  \/ InCopy /\ i <= 3 /\ (ForkStep(Actor[i]) \/ Call(Actor[i]))
  \/ InLoad /\ i = 1 /\ Read(Actor[i])
  \/ InWait /\ i = 1 /\ Wait(init)
  \/ InDump /\ i <= 3 /\ D!Step(Actor[i])
StronglyFair(i) ==
  \/ InFiles /\ F!Step(Actor[i])
  \/ InLoad /\ i = 1 /\ Step
CanRun(i) ==
  \/ kind = "wait" /\ \E t \in IF i = 1 THEN {init} ELSE Family \ {init} : CanStep(t)
  \/ kind = "args" /\ i = 1 /\ ~A!Ended
  \/ kind = "image" /\ i = 1 /\ ~I!Ended
DoesRun(i) ==
  \/ kind = "wait" /\ \E t \in IF i = 1 THEN {init} ELSE Family \ {init} : Steps(t)
  \/ kind = "args" /\ i = 1 /\ A!Step
  \/ kind = "image" /\ i = 1 /\ I!Step
KernelFairSpec ==
  /\ KernelSpec
  /\ \A i \in 1 .. 4 : WF_kernelVars(WeaklyFair(i))
  /\ \A i \in 1 .. 2 : SF_kernelVars(StronglyFair(i))
  /\ \A i \in 1 .. 2 : []<>CanRun(i) => []<><<DoesRun(i)>>_kernelVars

-----------------------------------------------------------------------------
(* The properties of the modules; that of PidTable is PidsExact, those of    *)
(* ExecLoad are FilesExact and LoadSound, that of CopyProcess is             *)
(* SharingSound, those of WaitChildren are ZombiesExact and WaitersServed.   *)
TableExact == kind = "files" => F!RefsExact /\ F!BitmapsExact
CopyIsClear == kind = "files" => F!CopyIsClear
ArgsExact == kind = "args" => A!ArgsDelivered /\ A!PointersInside /\ A!PagesAccounted
ImageSound == kind = "image" => I!ImageExact /\ I!LayoutTold
DumpSound == kind = "dump" => D!ThreadsStay /\ D!FileExact /\ D!DumpFreed

\* What must come to its end, in up to three places.
Unfinished(i) ==
  CASE kind = "files" -> i <= 2 /\ F!Busy(<<t1, t2>>[i])
    [] kind = "pids" -> i = 1 /\ ReaperBusy
    [] kind = "fork" -> InCall(<<t1, t2, t3>>[i])
    [] kind = "load" -> i = 1 /\ Busy
    [] kind = "wait" -> IF i <= 2 THEN Inherited(<<ca, ch>>[i])
                        ELSE WaitsForNone(pb)
    [] kind = "args" -> i = 1 /\ A!Busy
    [] kind = "image" -> i = 1 /\ ~I!Ended
    [] kind = "dump" -> D!Busy(<<t1, t2, t3>>[i])
KernelCallsEnd == <>[](\A i \in 1 .. 3 : ~Unfinished(i))
=============================================================================
