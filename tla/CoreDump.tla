------------------------------ MODULE CoreDump ------------------------------
(***************************************************************************)
(* The core dump of a thread group: the threads that coredump_task_exit()  *)
(* of kernel/exit.c parks, elf_core_dump() of fs/binfmt_elf.c, which lays  *)
(* the file out, collects the notes of the threads and writes them, and    *)
(* their release.  A size counts units, of which ELF_EXEC_PAGESIZE are a   *)
(* page; coredump_wait() and coredump_finish() are external.               *)
(***************************************************************************)
EXTENDS Integers, Sequences, FiniteSetsExt, SequencesExt

CONSTANTS
  Threads,
  Dumps,             \* vmas, each with dump_size and the length of its file's name
  Regsets,           \* of each thread: data sizes of its active register sets
  EhdrSize, PhdrSize, ShdrSize, NoteSize,
  NameSize,          \* strlen() + 1 of "CORE" and "LINUX"
  InfoSizes,         \* data sizes of the notes of the process: psinfo, signote, auxv
  Long, PerVma,      \* sizes of a long and of the estimate for one file
  PN_XNUM, ELF_EXEC_PAGESIZE, PAGE_SIZE, MAX_FILE_NOTE_SIZE,
  Null

ConstantsOK ==
  /\ \A n \in {EhdrSize, PhdrSize, NoteSize, ELF_EXEC_PAGESIZE} : n % 4 = 0
  /\ 5 * Long <= PerVma
  /\ \A t \in Threads : Regsets[t] # <<>>

VARIABLES
  pc,                \* the step of each thread
  post, signaled,    \* PF_POSTCOREDUMP, PF_SIGNALED
  group_exit,        \* SIGNAL_GROUP_EXIT
  core,              \* signal->core_state: of whom, nr_threads, and dumper.next
  next, parked,      \* of each thread's core_thread on its stack: next, and task
  old,               \* what its xchg() has returned
  case,              \* what is dumped
  info,              \* struct elf_note_info, and the headers
  files,             \* the note of the files while it is made
  heap,              \* memory the dump has allocated
  out, pos           \* what is written, and the position in the file

vars == <<pc, post, signaled, group_exit, core, next, parked, old, case, info, files,
          heap, out, pos>>

-----------------------------------------------------------------------------
NoInfo == [phdrs |-> 0, thread |-> <<>>, filled |-> 0, size |-> 0, ct |-> Null,
           psinfo |-> FALSE, has_files |-> FALSE, phdr4note |-> Null, ext |-> Null,
           e_phnum |-> 0, dataoff |-> 0, plan |-> <<>>, complete |-> FALSE]
NoFiles == [size |-> 0, k |-> 0, names |-> <<>>, remaining |-> 0]

Init ==
  /\ pc = [t \in Threads |-> "user"]
  /\ post = {} /\ signaled = {} /\ group_exit = FALSE /\ core = Null
  /\ next = [t \in Threads |-> Null] /\ parked = {} /\ old = [t \in Threads |-> Null]
  /\ case \in Dumps /\ info = NoInfo /\ files = NoFiles /\ heap = {} /\ out = <<>> /\ pos = 0

At(t, l) == pc[t] = l
Goto(t, l) == pc' = [pc EXCEPT ![t] = l]
Dump == UNCHANGED <<case, info, files, heap, out, pos>>
Group == UNCHANGED <<post, signaled, group_exit, core, next, parked, old, case>>

-----------------------------------------------------------------------------
(* The threads: a fatal signal, the exit, and coredump_task_exit().          *)

\* A signal that dumps core, and exit() of a thread of its own will.
Crash(t) ==
  /\ At(t, "user") /\ signaled' = signaled \cup {t} /\ Goto(t, "zap")
  /\ UNCHANGED <<post, group_exit, core, next, parked, old>> /\ Dump

Exit(t) ==
  /\ At(t, "user") /\ Goto(t, "exit")
  /\ UNCHANGED <<post, signaled, group_exit, core, next, parked, old>> /\ Dump

\* get_signal() of the SIGKILL that zap_process() has sent.
Killed(t) ==
  /\ At(t, "user") /\ group_exit /\ signaled' = signaled \cup {t} /\ Goto(t, "exit")
  /\ UNCHANGED <<post, group_exit, core, next, parked, old>> /\ Dump

\* coredump_wait(): one thread dumps, and it waits for those that are not so far
\* in their exit that they would not see it.
ZapThreads(t) ==
  LET waiters == Threads \ (post \cup {t})
  IN /\ At(t, "zap")
     /\ IF group_exit THEN Goto(t, "exit") /\ UNCHANGED <<group_exit, core>>
        ELSE /\ group_exit' = TRUE
             /\ core' = [of |-> t, nr_threads |-> Cardinality(waiters), list |-> Null,
                         startup |-> waiters = {}]
             /\ Goto(t, "startup")
     /\ UNCHANGED <<post, signaled, next, parked, old>> /\ Dump

Marked(t) == post' = post \cup {t}

CoredumpTaskExit(t) ==
  /\ At(t, "exit") /\ Marked(t)
  /\ IF core = Null THEN Goto(t, "gone") /\ UNCHANGED parked
     ELSE IF t \in signaled THEN Goto(t, "xchg") /\ parked' = parked \cup {t}
     ELSE Goto(t, "dec") /\ UNCHANGED parked
  /\ UNCHANGED <<signaled, group_exit, core, next, old>> /\ Dump

Xchg(t) ==
  /\ At(t, "xchg") /\ old' = [old EXCEPT ![t] = core.list] /\ core' = [core EXCEPT !.list = t]
  /\ Goto(t, "next") /\ UNCHANGED <<post, signaled, group_exit, next, parked>> /\ Dump

SetNext(t) ==
  /\ At(t, "next") /\ next' = [next EXCEPT ![t] = old[t]] /\ Goto(t, "dec")
  /\ UNCHANGED <<post, signaled, group_exit, core, parked, old>> /\ Dump

DecAndTest(t) ==
  /\ At(t, "dec")
  /\ core' = [core EXCEPT !.nr_threads = @ - 1, !.startup = core.nr_threads = 1]
  /\ Goto(t, "park") /\ UNCHANGED <<post, signaled, group_exit, next, parked, old>> /\ Dump

\* The core_thread is on the stack of its thread, which goes on now.
Unpark(t) ==
  /\ At(t, "park") /\ t \notin parked
  /\ Goto(t, "gone")
  /\ UNCHANGED <<post, signaled, group_exit, core, next, parked, old>> /\ Dump

-----------------------------------------------------------------------------
(* The sizes of the notes, and the order they are written in.                *)

RoundUp(n, k) == ((n + k - 1) \div k) * k
NoteLen(data) == NoteSize + RoundUp(NameSize, 4) + RoundUp(data, 4)

Total(seq) == FoldLeft(LAMBDA sum, x : sum + x, 0, seq)

Process == InfoSizes \o (IF info.has_files THEN <<files.size>> ELSE <<>>)

\* write_note_info(): the notes of the process behind the first of the dumping
\* thread.
Notes ==
  LET of(t) == Regsets[t]
      others == Tail(info.thread)
      first == info.thread[1]
  IN <<of(first)[1]>> \o Process \o Tail(of(first))
     \o FoldLeft(LAMBDA seq, t : seq \o of(t), <<>>, others)

-----------------------------------------------------------------------------
(* elf_core_dump(): fill_note_info(). *)

Dumping(t, l) == core # Null /\ core.of = t /\ At(t, l)
EndCoredump(t) == Goto(t, "free") /\ UNCHANGED <<info, files, heap, out, pos>>

Startup(t) ==
  /\ Dumping(t, "startup") /\ core.startup
  /\ Goto(t, "psinfo") /\ UNCHANGED <<info, files, heap, out, pos>> /\ Group

\* Mutant: the note segment is not counted.
SegsWithoutNotes == Len(case)

Segs == Len(case) + 1

Psinfo(t) ==
  /\ Dumping(t, "psinfo")
  /\ \/ /\ info' = [info EXCEPT !.phdrs = Segs, !.e_phnum = Min({Segs, PN_XNUM}),
                               !.psinfo = TRUE, !.ct = t]
        /\ heap' = heap \cup {"psinfo"} /\ Goto(t, "threads") /\ UNCHANGED <<files, out, pos>>
     \/ EndCoredump(t)
  /\ Group

\* A structure for each thread of the list; the dumping one stays at the head.
AllocThread(t) ==
  LET ct == info.ct
      list == info.thread
  IN /\ Dumping(t, "threads") /\ ct # Null
     /\ \/ /\ info' = [info EXCEPT
                         !.thread = IF ct = t \/ list = <<>> THEN <<ct>> \o list
                                    ELSE <<list[1], ct>> \o Tail(list),
                         !.ct = IF ct = t THEN core.list ELSE next[ct]]
           /\ heap' = heap \cup {ct} /\ UNCHANGED <<pc, files, out, pos>>
        \/ EndCoredump(t)
     /\ Group

\* fill_thread_core_info() of the next thread, from its registers.
FillThread(t) ==
  /\ Dumping(t, "threads") /\ info.ct = Null /\ info.filled < Len(info.thread)
  /\ LET u == info.thread[info.filled + 1]
     IN info' = [info EXCEPT !.filled = @ + 1,
                            !.size = @ + Total([j \in DOMAIN Regsets[u] |-> NoteLen(Regsets[u][j])])]
  /\ UNCHANGED <<pc, files, heap, out, pos>> /\ Group

\* The notes of the process, and the estimated size of the one of its files.
FillProcess(t) ==
  /\ Dumping(t, "threads") /\ info.ct = Null /\ info.filled = Len(info.thread)
  /\ info' = [info EXCEPT !.size = @ + Total([j \in DOMAIN InfoSizes |-> NoteLen(InfoSizes[j])])]
  /\ files' = [NoFiles EXCEPT !.size = Len(case) * PerVma] /\ Goto(t, "files")
  /\ UNCHANGED <<heap, out, pos>> /\ Group

\* fill_files_note(): memory for the note, or no note.
NoFilesNote(t) == Goto(t, "headers") /\ files' = NoFiles /\ UNCHANGED <<info, heap, out, pos>>

FilesAlloc(t) ==
  LET size == RoundUp(files.size, PAGE_SIZE)
  IN /\ Dumping(t, "files") /\ "files" \notin heap
     /\ \/ /\ files.size < MAX_FILE_NOTE_SIZE /\ size > 0
           /\ heap' = heap \cup {"files"}
           /\ files' = [size |-> size, k |-> 1, names |-> <<>>,
                        remaining |-> size - (2 + 3 * Len(case)) * Long]
           /\ UNCHANGED <<pc, info, out, pos>>
        \/ NoFilesNote(t)
     /\ Group

\* file_path() of the next area: no file, an error, a name, or one too long.
FilesName(t) ==
  LET n == case[files.k].name
  IN /\ Dumping(t, "files") /\ "files" \in heap /\ files.k <= Len(case)
     /\ \/ /\ n <= files.remaining \/ n = 0
           /\ files' = IF n = 0 THEN [files EXCEPT !.k = @ + 1]
                      ELSE [files EXCEPT !.k = @ + 1, !.names = Append(@, n), !.remaining = @ - n]
           /\ UNCHANGED heap
        \/ /\ n > 0 /\ files' = [files EXCEPT !.k = @ + 1] /\ UNCHANGED heap
        \/ /\ n > files.remaining /\ heap' = heap \ {"files"}
           /\ files' = [NoFiles EXCEPT !.size = (files.size * 5) \div 4]
     /\ UNCHANGED <<pc, info, out, pos>> /\ Group

\* The names move down to the entries that there are.
FilesDone(t) ==
  LET curpos == (2 + 3 * Len(case)) * Long + Total(files.names)
      size == curpos - 3 * (Len(case) - Len(files.names)) * Long
  IN /\ Dumping(t, "files") /\ "files" \in heap /\ files.k > Len(case)
     /\ files' = [files EXCEPT !.size = size]
     /\ info' = [info EXCEPT !.has_files = TRUE, !.size = @ + NoteLen(size)]
     /\ Goto(t, "headers") /\ UNCHANGED <<heap, out, pos>> /\ Group

-----------------------------------------------------------------------------
(* The headers, with the offsets of what has not been written yet.           *)

DumpSizes == [k \in DOMAIN case |-> case[k].dump_size]

Ehdr == [what |-> "ehdr", size |-> EhdrSize]
Phdr(k, offset, filesz) ==
  [what |-> "phdr", size |-> PhdrSize, of |-> k, p_offset |-> offset, p_filesz |-> filesz]
Phdr4Note(sz, offset) == Phdr(0, offset, sz)
Note(datasz) == [what |-> "note", size |-> datasz]
Shdr4Extnum(offset) == [e_shoff |-> offset, sh_info |-> info.phdrs]

Headers(t) ==
  LET offset == EhdrSize + info.phdrs * PhdrSize
      dataoff == RoundUp(offset + info.size, ELF_EXEC_PAGESIZE)
      extended == info.e_phnum = PN_XNUM
      note == Phdr4Note(info.size, offset)
      plan ==
        <<Ehdr, note>>
        \o [k \in DOMAIN case |-> Phdr(k, dataoff + Total(SubSeq(DumpSizes, 1, k - 1)), DumpSizes[k])]
        \o [k \in DOMAIN Notes |-> Note(Notes[k])]
        \o <<[what |-> "skip", to |-> dataoff]>>
        \o [k \in DOMAIN case |-> [what |-> "data", size |-> DumpSizes[k], of |-> k]]
        \o (IF extended THEN <<[what |-> "shdr", size |-> ShdrSize]>> ELSE <<>>)
  IN /\ Dumping(t, "headers")
     /\ \/ \* kmalloc() of both headers
           /\ info' = [info EXCEPT
                         !.phdr4note = note, !.dataoff = dataoff, !.plan = plan,
                         !.ext = IF extended THEN Shdr4Extnum(dataoff + Total(DumpSizes))
                                 ELSE Null]
           /\ heap' = heap \cup {"phdr4note"} \cup (IF extended THEN {"shdr4extnum"} ELSE {})
           /\ Goto(t, "write") /\ UNCHANGED <<files, out, pos>>
        \/ \E got \in {{}, {"phdr4note"}} :
             /\ got = {} \/ extended
             /\ heap' = heap \cup got /\ Goto(t, "free") /\ UNCHANGED <<info, files, out, pos>>
     /\ Group

\* dump_emit(), writenote(), dump_skip_to() or dump_user_range(): the limit, a full
\* disk or SIGKILL ends the dump.
Behind(item) ==
  CASE item.what = "note" -> RoundUp(RoundUp(pos + NoteSize + NameSize, 4) + item.size, 4)
    [] item.what = "skip" -> Max({pos, item.to})
    [] OTHER -> pos + item.size

Write(t) ==
  /\ Dumping(t, "write")
  /\ \/ /\ info.plan # <<>>
        /\ out' = Append(out, [item |-> info.plan[1], at |-> pos]) /\ pos' = Behind(info.plan[1])
        /\ info' = [info EXCEPT !.plan = Tail(@)] /\ UNCHANGED <<pc, files, heap>>
     \/ info.plan # <<>> /\ EndCoredump(t)
     \/ /\ info.plan = <<>> /\ info' = [info EXCEPT !.complete = TRUE]
        /\ Goto(t, "free") /\ UNCHANGED <<files, heap, out, pos>>
  /\ Group

\* free_note_info(), and the headers.
Free(t) ==
  /\ Dumping(t, "free")
  /\ heap' = heap \ ({"phdr4note", "shdr4extnum"} \cup Range(info.thread)
                     \cup (IF info.psinfo THEN {"psinfo"} ELSE {})
                     \cup (IF info.has_files THEN {"files"} ELSE {}))
  /\ Goto(t, "finish") /\ UNCHANGED <<info, files, out, pos>> /\ Group

\* coredump_finish(): the threads of the list are let go, the next one read before.
Finish(t) ==
  /\ Dumping(t, "finish")
  /\ info' = [info EXCEPT !.ct = core.list] /\ core' = Null
  /\ Goto(t, "wake")
  /\ UNCHANGED <<post, signaled, group_exit, next, parked, old, case, files, heap, out, pos>>

Wake(t) ==
  /\ At(t, "wake")
  /\ IF info.ct = Null THEN Goto(t, "exit") /\ UNCHANGED <<info, parked>>
     ELSE /\ info' = [info EXCEPT !.ct = next[info.ct]] /\ parked' = parked \ {info.ct}
          /\ UNCHANGED pc
  /\ UNCHANGED <<post, signaled, group_exit, core, next, old, case, files, heap, out, pos>>

-----------------------------------------------------------------------------
ElfCoreDump(t) ==
  \/ Startup(t) \/ Psinfo(t) \/ AllocThread(t) \/ FillThread(t) \/ FillProcess(t)
  \/ FilesAlloc(t) \/ FilesName(t) \/ FilesDone(t) \/ Headers(t) \/ Write(t) \/ Free(t)
  \/ Finish(t) \/ Wake(t)

Step(t) ==
  \/ Killed(t) \/ ZapThreads(t) \/ CoredumpTaskExit(t) \/ Xchg(t) \/ SetNext(t)
  \/ DecAndTest(t) \/ Unpark(t) \/ ElfCoreDump(t)

Next == \E t \in Threads : Crash(t) \/ Exit(t) \/ Step(t)

Spec == Init /\ [][Next]_vars
FairSpec == Spec /\ \A t \in Threads : WF_vars(Step(t))

-----------------------------------------------------------------------------
Filling(t) == core # Null /\ core.of = t /\ pc[t] \in {"psinfo", "threads"}
Dumped == Range(info.thread)

\* A thread whose list entry or registers the dump reads stays parked until it is
\* let go; and the core_state, which is on the stack of the dumping thread, outlives
\* every thread that counts itself in it (coredump_task_exit, fill_note_info).
ThreadsStay ==
  /\ \A t \in Threads : pc[t] \in {"xchg", "next", "dec"} => core # Null
  /\ \A t \in Threads :
       Filling(t) =>
         /\ \A u \in (Dumped \cup {info.ct}) \ {t, Null} : At(u, "park") /\ u \in parked
         /\ \A u \in Threads \ {t} : At(u, "gone") => u \notin Dumped
  /\ \A t \in Threads : At(t, "wake") /\ info.ct # Null => At(info.ct, "park")

\* A file that is complete says of itself what it is: each header's offset is where
\* its segment has been written, with that size, the notes fill theirs, the number of
\* segments can be read even if it does not fit the header; and it has each thread
\* that was parked once, the one that crashed first (elf_core_dump, fill_note_info,
\* notesize, fill_files_note, fill_extnum_info).
FileExact ==
  \A t \in Threads :
    Dumping(t, "free") /\ info.complete =>
      LET all == {out[k] : k \in DOMAIN out}
          Of(what) == {w \in all : w.item.what = what}
          notes == Of("note")
          headers == Of("phdr")
      IN /\ \A h \in headers :
              h.item.of # 0 =>
                \E w \in Of("data") : w.item.of = h.item.of /\ w.at = h.item.p_offset
                                      /\ w.item.size = h.item.p_filesz
         /\ \A h \in headers :
              h.item.of = 0 =>
                /\ h.item.p_offset = Min({w.at : w \in notes})
                /\ h.item.p_filesz = Max({w.at + NoteLen(w.item.size) : w \in notes}) - h.item.p_offset
         /\ Cardinality(headers) = (IF info.e_phnum = PN_XNUM THEN info.ext.sh_info ELSE info.e_phnum)
         /\ info.e_phnum = PN_XNUM => \E w \in Of("shdr") : w.at = info.ext.e_shoff
         /\ info.thread[1] = t /\ Dumped = parked \cup {t}
         /\ Cardinality(Dumped) = Len(info.thread)

\* Nothing the dump has allocated is left when it has ended, whatever has failed.
DumpFreed == \A t \in Threads : At(t, "wake") \/ Dumping(t, "finish") => heap = {}

\* Every thread of a group that has crashed comes to its end.
Busy(t) == group_exit /\ pc[t] # "gone"
=============================================================================
