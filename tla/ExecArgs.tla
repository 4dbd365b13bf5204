------------------------------ MODULE ExecArgs ------------------------------
(***************************************************************************)
(* The arguments of execve(): fs/exec.c counts the strings of the caller,  *)
(* copies them page by page to the top of a new stack while other threads  *)
(* may write to them, rewrites them for a script and moves the stack;      *)
(* create_elf_tables() of fs/binfmt_elf.c puts the pointers below them.    *)
(* A character is negative, NUL is 0, and a pointer takes one unit.        *)
(***************************************************************************)
EXTENDS Integers, Sequences, FiniteSetsExt

CONSTANTS
  Calls,           \* kernel, file, argv, envp and scripts of each call
  Strings,         \* the memory of the caller: the bytes at each pointer
  Edits,           \* bytes that another thread may write: <<pointer, index, byte>>
  MaxEdits,        \* bound: writes of the other thread
  Rlims,           \* RLIMIT_STACK
  StackTops,       \* the tops that randomize_stack_top() may choose
  Gaps,            \* what arch_align_stack() may take off
  PAGE_SIZE, STACK_TOP_MAX, mmap_min_addr, stack_expand, Align,
  MAX_ARG_STRLEN, MAX_ARG_STRINGS, ARG_MAX, STK_LIM_3_4,
  platform, k_rand_bytes,
  Null

ConstantsOK ==
  /\ PAGE_SIZE \in Nat \ {0} /\ STACK_TOP_MAX % PAGE_SIZE = 0
  /\ \A top \in StackTops : top % PAGE_SIZE = 0 /\ top <= STACK_TOP_MAX
  /\ \A r \in Rlims : r \in Nat
  /\ \A c \in Calls : c.kernel => c.argv # Null

VARIABLES
  pc, b,           \* the step of the exec, and its linux_binprm
  call,            \* the call that is made
  user, edits,     \* the bytes of the caller, and how many have been written
  cp,              \* the string that copy_strings() is in the middle of
  vma, mem,        \* the new stack: its bounds, and the bytes of its pages
  acct,            \* MM_ANONPAGES that acct_arg_size() has added to the caller
  mm,              \* the new memory's arg_start, arg_end, env_start, env_end and sp
  fatal            \* a fatal signal is pending

vars == <<pc, b, call, user, edits, cp, vma, mem, acct, mm, fatal>>

-----------------------------------------------------------------------------
NoBprm == [p |-> 0, argc |-> 0, envc |-> 0, argmin |-> 0, exec |-> 0, vma_pages |-> 0,
           rlim |-> 0, interp |-> <<>>, depth |-> 0, push |-> <<>>, dead |-> FALSE]
NoCopy == [i |-> 0, str |-> 0, len |-> 0, pos |-> 0]
NoMm == [arg_start |-> 0, arg_end |-> 0, env_start |-> 0, env_end |-> 0, sp |-> 0,
         saved_auxv |-> <<>>]

Init ==
  /\ pc = "alloc" /\ call \in Calls
  /\ b = [NoBprm EXCEPT !.interp = call.file]
  /\ user = Strings /\ edits = 0 /\ cp = NoCopy
  /\ vma = Null /\ mem = <<>> /\ acct = 0 /\ mm = NoMm /\ fatal = FALSE

At(l) == pc = l
Goto(l) == pc' = l
Caller == UNCHANGED <<call, user, edits, fatal>>
Fails == Goto("free") /\ UNCHANGED <<b, cp, vma, mem, acct, mm>>

PageOf(a) == a - (a % PAGE_SIZE)
Byte(m, a) == IF a \in DOMAIN m THEN m[a] ELSE 0

\* The bytes at a: the pages they are on come into being, filled with zeros.
Put(m, a, s) ==
  [x \in DOMAIN m \cup PageOf(a) .. PageOf(a + Len(s) - 1) + PAGE_SIZE - 1 |->
     IF x \in a .. a + Len(s) - 1 THEN s[x - a + 1] ELSE Byte(m, x)]

\* get_arg_page() for writing: the stack grows, and its pages are accounted to
\* the caller, if it has a memory of its own.
GetArgPage(a, bprm) ==
  LET start == Min({vma.start, PageOf(a)})
      pages == (vma.end - start) \div PAGE_SIZE
  IN /\ vma' = [vma EXCEPT !.start = start]
     /\ IF call.kernel THEN UNCHANGED acct /\ b' = bprm
        ELSE acct' = acct + pages - b.vma_pages /\ b' = [bprm EXCEPT !.vma_pages = pages]

-----------------------------------------------------------------------------
(* bprm_mm_init(), and the number of the strings. *)

NewStack == [start |-> STACK_TOP_MAX - PAGE_SIZE, end |-> STACK_TOP_MAX]

BprmMmInit ==
  /\ At("alloc")
  /\ \/ \E rlim \in Rlims :
          /\ vma' = NewStack
          /\ b' = [b EXCEPT !.p = STACK_TOP_MAX - 1, !.rlim = rlim]
          /\ Goto("count_argv") /\ UNCHANGED <<cp, mem, acct, mm>>
     \/ Goto("ret") /\ UNCHANGED <<b, cp, vma, mem, acct, mm>>
  /\ Caller

\* get_user_arg_ptr() of an array that ends where nothing is mapped: -1.
Pointer(array, i) == IF i < Len(array) THEN array[i + 1] ELSE -1

\* count() and count_strings_kernel(), one pointer of the array.
Count(array, from, to, argc, envc) ==
  /\ At(from)
  /\ IF array = Null \/ Pointer(array, cp.i) = 0
     THEN /\ IF call.kernel /\ from = "count_argv" /\ cp.i = 0 THEN Goto("free") ELSE Goto(to)
          /\ b' = [b EXCEPT !.argc = argc, !.envc = envc] /\ cp' = NoCopy
          /\ UNCHANGED <<vma, mem, acct, mm>>
     ELSE \/ /\ Pointer(array, cp.i) > 0 /\ cp.i < MAX_ARG_STRINGS /\ ~fatal
             /\ cp' = [cp EXCEPT !.i = @ + 1]
             /\ UNCHANGED <<pc, b, vma, mem, acct, mm>>
          \/ (Pointer(array, cp.i) = -1 \/ cp.i >= MAX_ARG_STRINGS \/ fatal) /\ Fails
  /\ Caller

CountArgv == Count(call.argv, "count_argv", "count_envp", cp.i, 0)
CountEnvp == Count(call.envp, "count_envp", "limits", b.argc, cp.i)

BprmStackLimits ==
  LET limit == Max({Min({STK_LIM_3_4, b.rlim \div 4}), ARG_MAX})
      ptr_size == Max({b.argc, 1}) + b.envc
  IN /\ At("limits")
     /\ IF limit <= ptr_size THEN Fails
        ELSE /\ b' = [b EXCEPT !.argmin = b.p - (limit - ptr_size)] /\ Goto("file")
             /\ UNCHANGED <<cp, vma, mem, acct, mm>>
     /\ Caller

-----------------------------------------------------------------------------
(* copy_string_kernel() of a string that nobody else can reach: all of it at *)
(* once.                                                                     *)

CopyStringKernel(s, bprm) ==
  LET len == Len(s) + 1
      p == b.p - len
  IN /\ len <= MAX_ARG_STRLEN /\ p >= b.argmin
     /\ mem' = Put(mem, p, s \o <<0>>)
     /\ GetArgPage(p, [bprm EXCEPT !.p = p])

\* A string that does not fit fails, and so may one for which there is no page.
\* The name of the file, to which AT_EXECFN will point.
CopyFile ==
  /\ At("file")
  /\ \/ /\ CopyStringKernel(call.file, [b EXCEPT !.exec = b.p - Len(call.file) - 1])
        /\ cp' = [NoCopy EXCEPT !.i = b.envc] /\ Goto("envp") /\ UNCHANGED mm
     \/ Fails
  /\ Caller

\* copy_strings(), from the last string to the first: the length, as of now.
Terminated(q) == \E i \in DOMAIN user[q] : user[q][i] = 0
StrnlenUser(q) == Min({i \in DOMAIN user[q] : user[q][i] = 0})
CString(q) == SubSeq(user[q], 1, StrnlenUser(q) - 1)

NextString(array, from) ==
  LET q == Pointer(array, cp.i - 1)
      len == StrnlenUser(q)
  IN /\ At(from) /\ ~call.kernel /\ cp.len = 0 /\ cp.i > 0
     /\ IF q <= 0 \/ ~Terminated(q) \/ len > MAX_ARG_STRLEN \/ b.p - len < b.argmin
        THEN Fails
        ELSE /\ cp' = [i |-> cp.i - 1, str |-> q, len |-> len, pos |-> b.p]
             /\ b' = [b EXCEPT !.p = @ - len]
             /\ UNCHANGED <<pc, vma, mem, acct, mm>>
     /\ Caller

Offset(pos) == IF pos % PAGE_SIZE = 0 THEN PAGE_SIZE ELSE pos % PAGE_SIZE

\* The part of the string that is on one page, as the bytes are now.
CopyChunk ==
  LET bytes == Min({Offset(cp.pos), cp.len})
      pos == cp.pos - bytes
  IN /\ pc \in {"envp", "argv"} /\ cp.len > 0
     /\ \/ /\ ~fatal
           /\ mem' = Put(mem, pos, SubSeq(user[cp.str], cp.len - bytes + 1, cp.len))
           /\ GetArgPage(pos, b)
           /\ cp' = [cp EXCEPT !.pos = pos, !.len = @ - bytes]
           /\ UNCHANGED <<pc, mm>>
        \/ Fails
     /\ Caller

\* copy_strings_kernel()
NextStringKernel(array, from) ==
  /\ At(from) /\ call.kernel /\ cp.i > 0
  /\ \/ /\ CopyStringKernel(CString(array[cp.i]), b)
        /\ cp' = [cp EXCEPT !.i = @ - 1]
        /\ (IF fatal THEN Goto("free") ELSE UNCHANGED pc) /\ UNCHANGED mm
     \/ Fails
  /\ Caller

Copied(from, to, n) ==
  /\ At(from) /\ cp.len = 0 /\ cp.i = 0
  /\ cp' = [NoCopy EXCEPT !.i = n] /\ Goto(to)
  /\ UNCHANGED <<b, vma, mem, acct, mm>> /\ Caller

\* An empty argv gets the string "".
EmptyArg ==
  /\ At("empty")
  /\ \/ /\ b.argc = 0 /\ CopyStringKernel(<<>>, [b EXCEPT !.argc = 1])
        /\ Goto("load") /\ UNCHANGED <<cp, mm>>
     \/ b.argc = 0 /\ Fails
     \/ b.argc > 0 /\ Goto("load") /\ UNCHANGED <<b, cp, vma, mem, acct, mm>>
  /\ Caller

CopyStrings ==
  \/ NextString(call.envp, "envp") \/ NextStringKernel(call.envp, "envp")
  \/ NextString(call.argv, "argv") \/ NextStringKernel(call.argv, "argv")
  \/ CopyChunk
  \/ Copied("envp", "argv", b.argc)
  \/ Copied("argv", "empty", 0)

-----------------------------------------------------------------------------
(* A script: its first argument is replaced by what runs it.                 *)

\* remove_arg_zero(): p moves behind the first NUL.
RemoveArgZero ==
  LET script == call.scripts[b.depth + 1]
      nul == Min({a \in b.p .. vma.end - 1 : Byte(mem, a) = 0})
      arg == IF script.arg = Null THEN <<>> ELSE <<script.arg>>
  IN /\ At("load") /\ b.depth < Len(call.scripts)
     /\ \/ /\ b' = [b EXCEPT !.p = nul + 1, !.argc = @ - 1, !.depth = @ + 1,
                             !.push = <<b.interp>> \o arg \o <<script.name>>]
           /\ Goto("push") /\ UNCHANGED <<cp, vma, mem, acct, mm>>
        \/ Fails
     /\ Caller

\* load_script(): the name of the script, its argument and its interpreter, each
\* by copy_string_kernel(); then bprm_change_interp().
PushArg ==
  /\ At("push") /\ b.push # <<>>
  /\ \/ /\ CopyStringKernel(b.push[1], [b EXCEPT !.push = Tail(@), !.argc = @ + 1])
        /\ UNCHANGED <<pc, cp, mm>>
     \/ Fails
  /\ Caller

ChangeInterp ==
  /\ At("push") /\ b.push = <<>>
  /\ \/ /\ b' = [b EXCEPT !.interp = call.scripts[b.depth].name]
        /\ Goto("load") /\ UNCHANGED <<cp, vma, mem, acct, mm>>
     \/ Fails
  /\ Caller

\* begin_new_exec(): what fails before exec_mmap() still returns to the caller.
BeginNewExec ==
  /\ At("load") /\ b.depth = Len(call.scripts)
  /\ \/ /\ (IF call.kernel THEN UNCHANGED acct ELSE acct' = acct - b.vma_pages)
        /\ b' = [b EXCEPT !.vma_pages = 0, !.dead = TRUE]
        /\ Goto("setup") /\ UNCHANGED <<cp, vma, mem, mm>>
     \/ Fails
  /\ Caller

-----------------------------------------------------------------------------
(* The stack gets its place. *)

\* shift_arg_pages(): the pages move down, and what they leave is unmapped.
Shifted(m, shift) == [a \in {x - shift : x \in DOMAIN m} |-> m[a + shift]]

\* setup_arg_pages(): expand_stack() only ever lowers the start.
SetupArgPages ==
  /\ At("setup")
  /\ \/ \E top \in StackTops :
          LET shift == vma.end - top
              size == vma.end - vma.start
              rlim_stack == PageOf(b.rlim)
              stack_base == IF size + stack_expand > rlim_stack THEN top - rlim_stack
                            ELSE top - size - stack_expand
          IN /\ top >= mmap_min_addr /\ size < top - mmap_min_addr
             /\ mem' = Shifted(mem, shift)
             /\ vma' = [start |-> Min({vma.start - shift, stack_base}), end |-> top]
             /\ b' = [b EXCEPT !.p = @ - shift, !.exec = @ - shift]
             /\ mm' = [mm EXCEPT !.arg_start = b.p - shift]
             /\ Goto("tables") /\ UNCHANGED <<cp, acct>>
     \/ Fails
  /\ Caller

-----------------------------------------------------------------------------
(* create_elf_tables() *)

AT_NULL == 0
AT_PLATFORM == 15
AT_RANDOM == 25
AT_EXECFN == 31

\* Mutant: no place for the NULL behind envp.
ItemsShort == (b.argc + 1) + b.envc + 1

Items == (b.argc + 1) + (b.envc + 1) + 1

Platform == IF platform = Null THEN <<>> ELSE platform \o <<0>>

\* What needs no pointer to a string, from the platform down to argc.
CreateElfTables ==
  /\ At("tables")
  /\ \/ \E gap \in Gaps :
          LET p == b.p - gap - ((b.p - gap) % Align)
              u_platform == p - Len(Platform)
              u_rand_bytes == u_platform - Len(k_rand_bytes)
              auxv == <<AT_RANDOM, u_rand_bytes, AT_EXECFN, b.exec>>
                      \o (IF platform = Null THEN <<>> ELSE <<AT_PLATFORM, u_platform>>)
                      \o <<AT_NULL, 0>>
              room == u_rand_bytes - Len(auxv) - Items
              sp == room - (room % Align)
          IN /\ sp >= mmap_min_addr
             /\ mem' = Put(Put(Put(mem, u_platform, Platform), u_rand_bytes, k_rand_bytes),
                           sp, <<b.argc>>)
             /\ vma' = [vma EXCEPT !.start = Min({@, PageOf(sp)})]
             /\ mm' = [mm EXCEPT !.sp = sp, !.saved_auxv = auxv]
             /\ b' = [b EXCEPT !.p = sp]
             /\ cp' = [NoCopy EXCEPT !.pos = mm.arg_start]
             /\ Goto("pointers") /\ UNCHANGED acct
     \/ Fails
  /\ Caller

\* The next pointer, and strnlen_user() of the string it points to, which fails
\* where the stack ends before the string.
Slot(i) == mm.sp + 1 + i + (IF i >= b.argc THEN 1 ELSE 0)

PutPointer ==
  LET nul == {a \in cp.pos .. vma.end - 1 : Byte(mem, a) = 0}
      next == Min(nul) + 1
  IN /\ At("pointers") /\ cp.i < b.argc + b.envc
     /\ \/ /\ nul # {} /\ next - cp.pos <= MAX_ARG_STRLEN
           /\ mem' = Put(mem, Slot(cp.i), <<cp.pos>>)
           /\ cp' = [cp EXCEPT !.i = @ + 1, !.pos = next]
           /\ mm' = IF cp.i >= b.argc THEN mm
                    ELSE [mm EXCEPT !.arg_end = next, !.env_start = next]
           /\ UNCHANGED <<pc, b, vma, acct>>
        \/ Fails
     /\ Caller

\* The NULLs behind argv and envp, and the auxiliary vector.
PutAuxv ==
  /\ At("pointers") /\ cp.i = b.argc + b.envc
  /\ \/ /\ mem' = Put(Put(mem, mm.sp + 1 + b.argc, <<0>>), Slot(cp.i), <<0>> \o mm.saved_auxv)
        /\ mm' = [mm EXCEPT !.env_end = cp.pos]
        /\ Goto("run") /\ UNCHANGED <<b, cp, vma, acct>>
     \/ Fails
  /\ Caller

\* free_bprm(), and the end of a task that has no program any more.
FreeBprm ==
  /\ At("free")
  /\ (IF b.dead \/ call.kernel THEN UNCHANGED acct ELSE acct' = acct - b.vma_pages)
  /\ b' = [b EXCEPT !.vma_pages = 0]
  /\ Goto(IF b.dead THEN "dead" ELSE "ret")
  /\ UNCHANGED <<cp, vma, mem, mm>> /\ Caller

-----------------------------------------------------------------------------
(* Another thread of the caller writes to its strings, and SIGKILL arrives.  *)

Ended == pc \in {"run", "ret", "dead"}

Write(e) ==
  /\ ~call.kernel /\ edits < MaxEdits /\ pc \in {"file", "envp", "argv"}
  /\ user[e[1]][e[2]] # e[3]
  /\ user' = [user EXCEPT ![e[1]][e[2]] = e[3]] /\ edits' = edits + 1
  /\ UNCHANGED <<pc, b, call, cp, vma, mem, acct, mm, fatal>>

Kill ==
  /\ pc \in {"count_argv", "count_envp", "envp", "argv"} /\ ~fatal /\ fatal' = TRUE
  /\ UNCHANGED <<pc, b, call, user, edits, cp, vma, mem, acct, mm>>

Step ==
  \/ BprmMmInit \/ CountArgv \/ CountEnvp \/ BprmStackLimits \/ CopyFile \/ CopyStrings
  \/ EmptyArg \/ RemoveArgZero \/ PushArg \/ ChangeInterp \/ BeginNewExec
  \/ SetupArgPages \/ CreateElfTables \/ PutPointer \/ PutAuxv \/ FreeBprm

Next == Step \/ Kill \/ \E e \in Edits : Write(e)

\* A step of the exec can be taken until it has ended: this is its weak fairness.
Spec == Init /\ [][Next]_vars
FairSpec == Spec /\ ([]<>~Ended => []<><<Step>>_vars)

-----------------------------------------------------------------------------
(* What the new program finds from its stack pointer on. *)

Argc == mem[mm.sp]
Argv(i) == mem[mm.sp + i]
Envp(i) == mem[mm.sp + Argc + 1 + i]
Aux(id) ==
  LET first == mm.sp + b.argc + b.envc + 3
      At2(i) == first + 2 * i
      i == CHOOSE n \in 0 .. 3 : mem[At2(n)] = id
  IN mem[At2(i) + 1]
StrLen(m, a) == Min({x \in a .. vma.end - 1 : Byte(m, x) = 0}) - a + 1
ReadStr(a) == [i \in 1 .. StrLen(mem, a) - 1 |-> mem[a + i - 1]]

\* The arguments that a chain of scripts makes of those of the call.
Asked ==
  LET given == IF call.argv = Null \/ call.argv[1] = 0 THEN <<<<>>>>
               ELSE [i \in 1 .. Len(call.argv) - 1 |-> CString(call.argv[i])]
      name(d) == IF d = 0 THEN call.file ELSE call.scripts[d].name
      after[d \in 0 .. Len(call.scripts)] ==
        IF d = 0 THEN given
        ELSE <<call.scripts[d].name>>
             \o (IF call.scripts[d].arg = Null THEN <<>> ELSE <<call.scripts[d].arg>>)
             \o <<name(d - 1)>> \o Tail(after[d - 1])
  IN after[Len(call.scripts)]

\* When nobody has written to them, a new program finds at the pointers of its
\* stack the strings of the call, in order and undamaged by the page boundaries,
\* the rewriting of scripts, the move of the stack and the tables, each list ended
\* by NULL, and the name of the file and the random bytes at those of the auxiliary
\* vector (copy_strings, remove_arg_zero, shift_arg_pages, create_elf_tables).
ArgsDelivered ==
  pc = "run" /\ edits = 0 =>
    LET envs == IF call.envp = Null THEN 0 ELSE Len(call.envp) - 1
    IN /\ Argc = Len(Asked) /\ Argv(Argc + 1) = 0 /\ Envp(envs + 1) = 0
       /\ \A i \in 1 .. Argc : ReadStr(Argv(i)) = Asked[i]
       /\ \A i \in 1 .. envs : ReadStr(Envp(i)) = CString(call.envp[i])
       /\ ReadStr(Aux(AT_EXECFN)) = call.file
       /\ \A i \in DOMAIN k_rand_bytes : mem[Aux(AT_RANDOM) + i - 1] = k_rand_bytes[i]
       /\ platform # Null => ReadStr(Aux(AT_PLATFORM)) = platform

\* Whatever another thread writes to the strings while they are copied, the new
\* program gets as many pointers as were counted, each behind the one before and
\* in the strings of its stack, above all that create_elf_tables() has put there.
PointersInside ==
  pc = "run" =>
    LET n == b.argc + b.envc
        Ptr(i) == IF i <= b.argc THEN Argv(i) ELSE Envp(i - b.argc)
    IN /\ Argc = b.argc
       /\ \A i \in 1 .. n : Ptr(i) \in mm.arg_start .. vma.end - 1
       /\ \A i \in 2 .. n : Ptr(i - 1) < Ptr(i)
       /\ Aux(AT_RANDOM) + Len(k_rand_bytes) <= mm.arg_start
       /\ mm.sp + n + 3 < Aux(AT_RANDOM)
       /\ mm.arg_start <= mm.arg_end /\ mm.arg_end = mm.env_start
       /\ mm.env_start <= mm.env_end /\ mm.env_end <= vma.end

\* The pages of the new stack are accounted to the caller while the exec may still
\* return to it, and no longer, whatever fails (acct_arg_size, free_bprm).
PagesAccounted == acct = b.vma_pages /\ (Ended => acct = 0)

\* An exec ends: a loop over a string takes a part of it each time.
Busy == ~Ended
ExecEnds == <>Ended
=============================================================================
