------------------------------ MODULE FileTable ------------------------------
(***************************************************************************)
(* The table of open files of fs/file.c, shared by tasks that open, close, *)
(* duplicate, use and look at descriptors, close a range of them, copy the *)
(* table (close_range(), exec) and exit.  A critical section of file_lock  *)
(* is a step, cut where expand_files() lets the lock go; an access to the  *)
(* table without the lock is a step of its own.                            *)
(***************************************************************************)
EXTENDS Integers, Sequences, FiniteSets, FiniteSetsExt, SequencesExt

CONSTANTS
  Tasks,
  Structs,           \* the files_structs
  Files,             \* the open files
  Null,
  BITS_PER_LONG,     \* and NR_OPEN_DEFAULT
  Chunk,             \* the least size of an allocated array, in descriptors
  NrOpens,           \* the values of sysctl_nr_open
  Nofile,            \* RLIMIT_NOFILE
  Fds, Ranges,       \* descriptors and ranges that system calls name
  Tables,            \* the first tables: their size, and where each file is
  Scripts            \* the system calls that each task makes, in order

NR_OPEN_DEFAULT == BITS_PER_LONG
NoLimit == 100    \* NR_OPEN_MAX

ConstantsOK ==
  /\ {BITS_PER_LONG, Chunk, Nofile} \subseteq Nat \ {0} /\ Chunk % BITS_PER_LONG = 0
  /\ \A n \in NrOpens : n \in Nat /\ n >= BITS_PER_LONG
  /\ Ranges \subseteq Nat \X Nat
  /\ \A f \in Scripts : \A t \in Tasks : \A i \in DOMAIN f[t] :
       f[t][i] \in {"open", "close", "flag", "fdget", "dup2", "range", "exec", "exit"}

VARIABLES
  files,     \* the files_struct of each task; Null after exit_files()
  fs,        \* of each: count, the tables fdt has pointed to, next_fd,
             \* resize_in_progress, the owner of file_lock, and
             \* whether dup_fd() cut the table to a limit
  ref,       \* f_count of each file
  nr_open,
  pc, lv,    \* the step of each task and its local variables
  readers,   \* the readers a task's synchronize_rcu() still waits for
  todo,      \* the system calls still to make
  bug        \* a BUG_ON() has been reached

vars == <<files, fs, ref, nr_open, pc, lv, readers, todo, bug>>

-----------------------------------------------------------------------------
(* An fdtable: its size, the file pointers and the three bitmaps. *)

Words(n) == n \div BITS_PER_LONG
WordBits(w) == (w * BITS_PER_LONG) .. ((w + 1) * BITS_PER_LONG - 1)
RoundUp(n) == ((n + BITS_PER_LONG - 1) \div BITS_PER_LONG) * BITS_PER_LONG

EmptyTable(n) ==
  [max_fds |-> n, fd |-> [i \in 0 .. (n - 1) |-> Null],
   open_fds |-> {}, close_on_exec |-> {}, full_fds_bits |-> {}]

SetOpenFd(fdt, fd) ==
  LET open == fdt.open_fds \cup {fd}
      w == Words(fd)
  IN [fdt EXCEPT !.open_fds = open,
                 !.full_fds_bits = IF WordBits(w) \subseteq open THEN @ \cup {w} ELSE @]

ClearOpenFd(fdt, fd) ==
  [fdt EXCEPT !.open_fds = @ \ {fd}, !.full_fds_bits = @ \ {Words(fd)}]

SetCloseOnExec(fdt, fd, flag) ==
  [fdt EXCEPT !.close_on_exec = IF flag THEN @ \cup {fd} ELSE @ \ {fd}]

\* full_fds_bits is copied in whole longs (BITBIT_SIZE).
CopyBitmaps(new, old, count) ==
  [new EXCEPT !.open_fds = {fd \in old.open_fds : fd < count},
              !.close_on_exec = {fd \in old.close_on_exec : fd < count},
              !.full_fds_bits = {w \in old.full_fds_bits : w < RoundUp(Words(count))}]

CopyTable(new, old) ==
  [CopyBitmaps(new, old, old.max_fds) EXCEPT
     !.fd = [i \in DOMAIN new.fd |-> IF i < old.max_fds THEN old.fd[i] ELSE Null]]

\* The size of the table alloc_fdtable() makes for a request.
AllocSize(nr) ==
  LET chunks == Min({p \in {1, 2, 4, 8, 16} : p >= (nr \div Chunk) + 1})
  IN IF chunks * Chunk > nr_open THEN RoundUp(nr_open) ELSE chunks * Chunk

\* Up to the last word with an open descriptor, or to the limit.
SaneSize(fdt, limit) ==
  LET used == {w \in 0 .. (Words(fdt.max_fds) - 1) : WordBits(w) \cap fdt.open_fds # {}}
      count == (Max(used \cup {0}) + 1) * BITS_PER_LONG
  IN RoundUp(Min({count, Max({limit, NR_OPEN_DEFAULT})}))

FindNextFd(fdt, start) ==
  LET words == {w \in Words(start) .. (Words(fdt.max_fds) - 1) : w \notin fdt.full_fds_bits}
      first == IF words = {} THEN fdt.max_fds
               ELSE Max({start, Min(words) * BITS_PER_LONG})
  IN Min({fd \in first .. (fdt.max_fds - 1) : fd \notin fdt.open_fds} \cup {fdt.max_fds})

-----------------------------------------------------------------------------
Fdt(s) == Last(fs[s].fdt)
WithFdt(s, fdt) == [s EXCEPT !.fdt[Len(s.fdt)] = fdt]
LookupFd(fdt, fd) == IF fd < fdt.max_fds THEN fdt.fd[fd] ELSE Null

\* from is where alloc_fd() starts, the oldfd of dup2() or the limit of dup_fd();
\* max is the last descriptor of a range or the request of expand_files().
Local == [fd |-> 0, max |-> 0, from |-> 0, file |-> Null, tbl |-> 0, new |-> Null,
          copy |-> Null, cloexec |-> FALSE, back |-> "idle"]

\* The first table holds some files, one of them with close-on-exec.
FirstTable(n, at) ==
  LET open == {fd \in DOMAIN at : at[fd] # Null}
  IN [max_fds |-> n, fd |-> [fd \in 0 .. (n - 1) |-> at[fd]],
      open_fds |-> open, close_on_exec |-> open \cap {1},
      full_fds_bits |-> {w \in 0 .. (Words(n) - 1) : WordBits(w) \subseteq open}]
Slots(fdt, f) == Cardinality({fd \in DOMAIN fdt.fd : fdt.fd[fd] = f})
NoStruct == [count |-> 0, fdt |-> <<>>, next_fd |-> 0, resizing |-> FALSE, lock |-> Null,
             cut |-> FALSE]

Init ==
  LET s == CHOOSE i \in Structs : TRUE
  IN \E first \in Tables :
       LET fdt == FirstTable(first.max_fds, first.fd)
       IN /\ files = [t \in Tasks |-> s]
          /\ fs = [i \in Structs |->
                     IF i = s THEN [NoStruct EXCEPT !.count = Cardinality(Tasks),
                                                    !.fdt = <<fdt>>]
                     ELSE NoStruct]
          /\ ref = [f \in Files |-> Slots(fdt, f)]
          /\ nr_open \in NrOpens
          /\ pc = [t \in Tasks |-> "idle"] /\ lv = [t \in Tasks |-> Local]
          /\ readers = [t \in Tasks |-> {}] /\ todo \in Scripts
          /\ bug = FALSE

\* The files_struct a task works on: close_range() prefers its copy.
Mine(t) == IF pc[t] = "range" /\ lv[t].copy # Null THEN lv[t].copy ELSE files[t]
Free(t) == fs[Mine(t)].lock \in {Null, t}

Goto(t, l) == pc' = [pc EXCEPT ![t] = l]
Keep(t, r) == lv' = [lv EXCEPT ![t] = r]
End(t) == Goto(t, "idle") /\ Keep(t, Local)
Update(t, s) == fs' = [fs EXCEPT ![Mine(t)] = s]
Begin(t, call) ==
  /\ pc[t] = "idle" /\ files[t] # Null
  /\ todo[t] # <<>> /\ Head(todo[t]) = call
  /\ todo' = [todo EXCEPT ![t] = Tail(@)]
Quiet == UNCHANGED <<files, nr_open, todo, bug>>

\* Mutant: synchronize_rcu() waits for nobody.
NotReading(t) == FALSE

\* The tasks in a read-side critical section of RCU.
Reading(t) == pc[t] \in {"install_deref", "install_write", "fget_table", "fget_entry",
                         "fget_ref", "fget_check"}
Leave(t) == readers' = [u \in Tasks |-> readers[u] \ {t}]

\* filp_close() and fput(): one reference less.
Fput(t) ==
  /\ pc[t] = "fput"
  /\ ref' = [ref EXCEPT ![lv[t].file] = @ - 1]
  /\ Goto(t, lv[t].back)
  /\ Keep(t, IF lv[t].back = "idle" THEN Local ELSE [lv[t] EXCEPT !.file = Null])
  /\ UNCHANGED <<fs, readers>> /\ Quiet

-----------------------------------------------------------------------------
(* expand_files(), with file_lock held.  Who succeeds goes on at back, with  *)
(* the lock.                                                                  *)

Fails(t) ==
  IF lv[t].file = Null THEN End(t)
  ELSE Goto(t, "fput") /\ Keep(t, [lv[t] EXCEPT !.back = "idle"])

Expand(t, nr, back) ==
  LET s == fs[files[t]]
  IN IF nr >= nr_open
     THEN Fails(t) /\ Update(t, [s EXCEPT !.lock = Null])
     ELSE /\ Update(t, [s EXCEPT !.lock = Null, !.resizing = TRUE])
          /\ Goto(t, IF s.resizing THEN "expand_wait" ELSE "expand_alloc")
          /\ Keep(t, [lv[t] EXCEPT !.max = nr, !.back = back])

ExpandWake(t) ==
  /\ pc[t] = "expand_wait" /\ Free(t) /\ ~fs[files[t]].resizing
  /\ IF lv[t].max < Fdt(files[t]).max_fds
     THEN /\ Update(t, [fs[files[t]] EXCEPT !.lock = t])
          /\ Goto(t, lv[t].back) /\ UNCHANGED lv
     ELSE Expand(t, lv[t].max, lv[t].back)
  /\ UNCHANGED <<ref, readers>> /\ Quiet

\* alloc_fdtable() may fail; then synchronize_rcu() begins.
ExpandAlloc(t) ==
  /\ pc[t] = "expand_alloc"
  /\ \E new \in {Null, EmptyTable(AllocSize(lv[t].max))} :
       Keep(t, [lv[t] EXCEPT !.new = new])
  /\ readers' = [readers EXCEPT ![t] =
       IF fs[files[t]].count > 1 THEN {u \in Tasks : Reading(u)} ELSE {}]
  /\ Goto(t, "expand_publish")
  /\ UNCHANGED <<fs, ref>> /\ Quiet

ExpandPublish(t) ==
  LET s == fs[files[t]]
      new == lv[t].new
      old == Fdt(files[t])
  IN /\ pc[t] = "expand_publish" /\ readers[t] = {} /\ Free(t)
     /\ IF new = Null \/ (new # Null => new.max_fds <= lv[t].max)
        THEN /\ Update(t, [s EXCEPT !.resizing = FALSE])
             /\ Fails(t) /\ UNCHANGED bug
        ELSE /\ bug' = (bug \/ lv[t].max < old.max_fds \/ new.max_fds < old.max_fds)
             /\ Update(t, [s EXCEPT !.resizing = FALSE, !.lock = t,
                                    !.fdt = Append(@, CopyTable(new, old))])
             /\ Goto(t, lv[t].back) /\ Keep(t, [lv[t] EXCEPT !.new = Null])
     /\ UNCHANGED <<files, ref, nr_open, readers, todo>>

-----------------------------------------------------------------------------
(* alloc_fd(), put_unused_fd() and fd_install(): open() and dup(). *)

OpenBegin(t) ==
  /\ Begin(t, "open")
  /\ \E flag \in BOOLEAN : Keep(t, [Local EXCEPT !.cloexec = flag])
  /\ Goto(t, "alloc")
  /\ UNCHANGED <<files, fs, ref, nr_open, readers, bug>>

AllocFd(t) ==
  LET s == fs[files[t]]
      fdt == Fdt(files[t])
      low == Max({lv[t].from, s.next_fd})
      fd == IF low < fdt.max_fds THEN FindNextFd(fdt, low) ELSE low
  IN /\ pc[t] = "alloc" /\ Free(t)
     /\ \/ fd >= Nofile /\ Fails(t) /\ Update(t, [s EXCEPT !.lock = Null])
        \/ fd < Nofile /\ fd >= fdt.max_fds /\ Expand(t, fd, "alloc")
        \/ /\ fd < Nofile /\ fd < fdt.max_fds
           /\ Update(t, WithFdt([s EXCEPT !.lock = Null,
                                          !.next_fd = IF lv[t].from <= @ THEN fd + 1 ELSE @],
                                SetCloseOnExec(SetOpenFd(fdt, fd), fd, lv[t].cloexec)))
           /\ Goto(t, IF lv[t].file = Null THEN "opening" ELSE "install")
           /\ Keep(t, [lv[t] EXCEPT !.fd = fd])
     /\ UNCHANGED <<ref, readers>> /\ Quiet

PutUnusedFd(s, fd) ==
  LET fdt == ClearOpenFd(Last(s.fdt), fd)
  IN [WithFdt(s, fdt) EXCEPT !.next_fd = Min({@, fd})]

\* The file is opened, or opening it fails.  A file that somebody still looks
\* at is not allocated again.
Opened(t) ==
  /\ pc[t] = "opening"
  /\ \/ /\ \E f \in Files :
             /\ ref[f] = 0 /\ \A u \in Tasks : lv[u].file # f
             /\ ref' = [ref EXCEPT ![f] = 1]
             /\ Keep(t, [lv[t] EXCEPT !.file = f])
        /\ Goto(t, "install") /\ UNCHANGED fs
     \/ /\ Free(t)
        /\ Update(t, PutUnusedFd(fs[files[t]], lv[t].fd))
        /\ End(t) /\ UNCHANGED ref
  /\ UNCHANGED readers /\ Quiet

\* fd_install() tests resize_in_progress, reads fdt and stores the file.
Install(t) ==
  /\ pc[t] = "install"
  /\ Goto(t, IF fs[files[t]].resizing THEN "install_locked" ELSE "install_deref")
  /\ UNCHANGED <<fs, ref, lv, readers>> /\ Quiet

InstallDeref(t) ==
  /\ pc[t] = "install_deref"
  /\ Keep(t, [lv[t] EXCEPT !.tbl = Len(fs[files[t]].fdt)])
  /\ Goto(t, "install_write")
  /\ UNCHANGED <<fs, ref, readers>> /\ Quiet

InstallWrite(t) ==
  LET s == fs[files[t]]
      tbl == IF pc[t] = "install_locked" THEN Len(s.fdt) ELSE lv[t].tbl
  IN /\ pc[t] = "install_write" \/ (pc[t] = "install_locked" /\ Free(t))
     /\ bug' = (bug \/ s.fdt[tbl].fd[lv[t].fd] # Null)
     /\ Update(t, [s EXCEPT !.fdt[tbl].fd[lv[t].fd] = lv[t].file])
     /\ Leave(t) /\ End(t)
     /\ UNCHANGED <<files, ref, nr_open, todo>>

-----------------------------------------------------------------------------
(* close() and set_close_on_exec() *)

\* pick_file()
Picked(s, fd) ==
  IF LookupFd(Last(s.fdt), fd) = Null THEN s
  ELSE PutUnusedFd([s EXCEPT !.fdt[Len(s.fdt)].fd[fd] = Null], fd)

CloseFd(t) ==
  /\ Begin(t, "close") /\ Free(t)
  /\ \E fd \in Fds :
       LET file == LookupFd(Fdt(files[t]), fd)
       IN /\ file # Null
          /\ Update(t, Picked(fs[files[t]], fd))
          /\ Keep(t, [Local EXCEPT !.file = file]) /\ Goto(t, "fput")
  /\ UNCHANGED <<files, ref, nr_open, readers, bug>>

\* fcntl() has found that fd was open.
SetFdFlag(t) ==
  /\ Begin(t, "flag") /\ Free(t)
  /\ \E fd \in Fds, flag \in BOOLEAN :
       /\ LookupFd(Fdt(files[t]), fd) # Null
       /\ Update(t, WithFdt(fs[files[t]], SetCloseOnExec(Fdt(files[t]), fd, flag)))
  /\ UNCHANGED <<files, ref, nr_open, pc, lv, readers, bug>>

-----------------------------------------------------------------------------
(* fget(), __fget_light() and fput() *)

\* With a files_struct of one task there is no reference to take.
Fdget(t) ==
  /\ Begin(t, "fdget")
  /\ \E fd \in Fds :
       IF fs[files[t]].count = 1
       THEN /\ LookupFd(Fdt(files[t]), fd) # Null
            /\ Keep(t, [Local EXCEPT !.file = LookupFd(Fdt(files[t]), fd)])
            /\ Goto(t, "light")
       ELSE Keep(t, [Local EXCEPT !.fd = fd]) /\ Goto(t, "fget_table")
  /\ UNCHANGED <<files, fs, ref, nr_open, readers, bug>>

FputLight(t) ==
  /\ pc[t] = "light" /\ End(t)
  /\ UNCHANGED <<fs, ref, readers>> /\ Quiet

FgetTable(t) ==
  /\ pc[t] = "fget_table"
  /\ Keep(t, [lv[t] EXCEPT !.tbl = Len(fs[files[t]].fdt), !.file = Null])
  /\ Goto(t, "fget_entry")
  /\ UNCHANGED <<fs, ref, readers>> /\ Quiet

Entry(t) == LookupFd(fs[files[t]].fdt[lv[t].tbl], lv[t].fd)

FgetEntry(t) ==
  /\ pc[t] = "fget_entry"
  /\ IF Entry(t) = Null THEN End(t) /\ Leave(t)
     ELSE /\ Keep(t, [lv[t] EXCEPT !.file = Entry(t)])
          /\ Goto(t, "fget_ref") /\ UNCHANGED readers
  /\ UNCHANGED <<fs, ref>> /\ Quiet

\* get_file_rcu() fails when the last reference has gone.
FgetRef(t) ==
  /\ pc[t] = "fget_ref"
  /\ IF ref[lv[t].file] = 0 THEN Goto(t, "fget_table") /\ UNCHANGED ref
     ELSE Goto(t, "fget_check") /\ ref' = [ref EXCEPT ![lv[t].file] = @ + 1]
  /\ UNCHANGED <<fs, lv, readers>> /\ Quiet

Verified(t) == lv[t].tbl = Len(fs[files[t]].fdt) /\ Entry(t) = lv[t].file

FgetCheck(t) ==
  /\ pc[t] = "fget_check"
  /\ IF Verified(t) THEN Goto(t, "use") /\ Leave(t) /\ UNCHANGED ref
     ELSE /\ Goto(t, "fget_table") /\ ref' = [ref EXCEPT ![lv[t].file] = @ - 1]
          /\ UNCHANGED readers
  /\ UNCHANGED <<fs, lv>> /\ Quiet

\* The reference is put; or it is for dup() and f_dupfd().
Used(t) ==
  /\ pc[t] = "use"
  /\ \/ Goto(t, "fput") /\ UNCHANGED lv
     \/ /\ Goto(t, "alloc")
        /\ \E from \in {0} \cup {fd \in Fds : fd < Nofile} :
             Keep(t, [lv[t] EXCEPT !.from = from])
  /\ UNCHANGED <<fs, ref, readers>> /\ Quiet

-----------------------------------------------------------------------------
(* dup2(): ksys_dup3() and do_dup2() *)

Dup2Begin(t) ==
  /\ Begin(t, "dup2") /\ Free(t)
  /\ \E oldfd, newfd \in Fds :
       LET l == [Local EXCEPT !.from = oldfd, !.fd = newfd, !.max = newfd,
                              !.back = "dup2"]
       IN /\ oldfd # newfd /\ newfd < Nofile
          /\ \/ /\ newfd < Fdt(files[t]).max_fds
                /\ Keep(t, l) /\ Goto(t, "dup2")
                /\ Update(t, [fs[files[t]] EXCEPT !.lock = t])
             \/ /\ Fdt(files[t]).max_fds <= newfd /\ newfd < nr_open
                /\ Keep(t, l)
                /\ Goto(t, IF fs[files[t]].resizing THEN "expand_wait" ELSE "expand_alloc")
                /\ Update(t, [fs[files[t]] EXCEPT !.resizing = TRUE])
  /\ UNCHANGED <<files, ref, nr_open, readers, bug>>

\* EBADF and EBUSY leave the table as it is.
Dup2(t) ==
  LET s == fs[files[t]]
      fdt == Fdt(files[t])
      fd == lv[t].fd
      file == LookupFd(fdt, lv[t].from)
      tofree == fdt.fd[fd]
  IN /\ pc[t] = "dup2" /\ s.lock = t
     /\ IF file = Null \/ (tofree = Null /\ fd \in fdt.open_fds)
        THEN Update(t, [s EXCEPT !.lock = Null]) /\ End(t) /\ UNCHANGED ref
        ELSE /\ ref' = [ref EXCEPT ![file] = @ + 1]
             /\ Update(t, WithFdt([s EXCEPT !.lock = Null],
                  SetCloseOnExec(SetOpenFd([fdt EXCEPT !.fd[fd] = file], fd), fd, FALSE)))
             /\ IF tofree = Null THEN End(t)
                ELSE Goto(t, "fput") /\ Keep(t, [Local EXCEPT !.file = tofree])
     /\ UNCHANGED readers /\ Quiet

-----------------------------------------------------------------------------
(* dup_fd(), close_range() and the close-on-exec of an exec *)

CloseRangeBegin(t) ==
  /\ Begin(t, "range")
  /\ \E r \in Ranges, unshare, cloexec \in BOOLEAN :
       LET last == Fdt(files[t]).max_fds - 1
           limit == IF ~cloexec /\ r[2] >= last THEN r[1] ELSE NoLimit
       IN /\ Keep(t, [Local EXCEPT !.fd = r[1], !.max = r[2], !.cloexec = cloexec,
                                   !.from = limit, !.new = EmptyTable(NR_OPEN_DEFAULT),
                                   !.back = "range"])
          /\ Goto(t, IF unshare /\ fs[files[t]].count > 1 THEN "dup_fd" ELSE "range")
  /\ UNCHANGED <<files, fs, ref, nr_open, readers, bug>>

\* begin_new_exec(): unshare_files(), and later do_close_on_exec().
ExecBegin(t) ==
  /\ Begin(t, "exec")
  /\ Keep(t, [Local EXCEPT !.from = NoLimit, !.new = EmptyTable(NR_OPEN_DEFAULT),
                           !.back = "replace"])
  /\ Goto(t, IF fs[files[t]].count > 1 THEN "dup_fd" ELSE "exec")
  /\ UNCHANGED <<files, fs, ref, nr_open, readers, bug>>

\* A table that is too small is allocated without the lock; then all is
\* looked at again.
DupAlloc(t) ==
  /\ pc[t] = "dup_fd" /\ Free(t)
  /\ LET open_files == SaneSize(Fdt(files[t]), lv[t].from)
         n == AllocSize(open_files - 1)
     IN /\ open_files > lv[t].new.max_fds
        /\ \/ End(t)    \* ENOMEM, EMFILE
           \/ /\ n >= open_files
              /\ Keep(t, [lv[t] EXCEPT !.new = EmptyTable(n)]) /\ UNCHANGED pc
  /\ UNCHANGED <<fs, ref, readers>> /\ Quiet

\* Mutant: a descriptor without a file stays claimed in the copy.
DuplicateAll(new, old, n) ==
  [CopyBitmaps(new, old, n) EXCEPT
     !.fd = [fd \in DOMAIN new.fd |-> IF fd < n THEN old.fd[fd] ELSE Null]]

\* What is claimed but not yet installed is free in the copy.
Duplicate(new, old, n) ==
  LET bits == CopyBitmaps(new, old, n)
      claimed == {fd \in 0 .. (n - 1) : old.fd[fd] = Null}
  IN [bits EXCEPT
        !.fd = [fd \in DOMAIN new.fd |-> IF fd < n THEN old.fd[fd] ELSE Null],
        !.open_fds = @ \ claimed,
        !.full_fds_bits = @ \ {Words(fd) : fd \in claimed}]

DupCopy(t) ==
  LET open_files == SaneSize(Fdt(files[t]), lv[t].from)
      fdt == Duplicate(lv[t].new, Fdt(files[t]), open_files)
  IN /\ pc[t] = "dup_fd" /\ Free(t)
     /\ open_files <= lv[t].new.max_fds
     /\ \E s \in Structs :
          /\ fs[s].count = 0
          /\ fs' = [fs EXCEPT ![s] = [NoStruct EXCEPT
               !.count = 1, !.fdt = <<fdt>>,
               !.cut = fs[files[t]].cut \/ open_files < SaneSize(Fdt(files[t]), NoLimit)]]
          /\ Keep(t, [lv[t] EXCEPT !.copy = s, !.new = Null])
     /\ ref' = [f \in Files |-> ref[f] + Slots(fdt, f)]
     /\ Goto(t, lv[t].back)
     /\ UNCHANGED readers /\ Quiet

\* __range_close() reads the last descriptor first, then picks one by one.
RangeClose(t) ==
  LET s == fs[Mine(t)]
      fdt == Last(s.fdt)
      last == Min({lv[t].max, fdt.max_fds - 1})
      more == lv[t].fd <= last
      next == [lv[t] EXCEPT !.fd = @ + 1, !.max = last]
  IN /\ pc[t] = "range" /\ Free(t)
     /\ \/ /\ more /\ ~lv[t].cloexec
           /\ Update(t, Picked(s, lv[t].fd))
           /\ IF LookupFd(fdt, lv[t].fd) = Null THEN Keep(t, next) /\ UNCHANGED pc
              ELSE /\ Keep(t, [next EXCEPT !.file = LookupFd(fdt, lv[t].fd), !.back = "range"])
                   /\ Goto(t, "fput")
        \/ /\ ~more \/ lv[t].cloexec
           /\ Update(t, IF more
                        THEN WithFdt(s, [fdt EXCEPT !.close_on_exec = @ \cup (lv[t].fd .. last)])
                        ELSE s)
           /\ IF lv[t].copy = Null THEN End(t) ELSE Goto(t, "replace") /\ UNCHANGED lv
     /\ UNCHANGED <<ref, readers>> /\ Quiet

\* put_files_struct(): who drops the last reference closes the files.
PutFilesStruct(s) ==
  /\ fs' = [fs EXCEPT ![s] = IF @.count = 1 THEN NoStruct ELSE [@ EXCEPT !.count = @ - 1]]
  /\ ref' = IF fs[s].count > 1 THEN ref
            ELSE [f \in Files |-> ref[f] - Slots(Fdt(s), f)]

\* The copy takes the place of the shared table.
Replace(t) ==
  /\ pc[t] = "replace"
  /\ files' = [files EXCEPT ![t] = lv[t].copy]
  /\ PutFilesStruct(files[t])
  /\ IF lv[t].back = "range" THEN End(t)
     ELSE Goto(t, "exec") /\ Keep(t, Local)
  /\ UNCHANGED <<nr_open, readers, todo, bug>>

\* do_close_on_exec(): a long of close_on_exec is taken at once, and the lock
\* is let go for each file that is closed.
DoCloseOnExec(t) ==
  LET s == fs[files[t]]
      fdt == Fdt(files[t])
      marked == {fd \in fdt.close_on_exec : fdt.fd[fd] # Null}
  IN /\ pc[t] = "exec" /\ Free(t)
     /\ IF marked = {}
        THEN End(t) /\ Update(t, WithFdt(s, [fdt EXCEPT !.close_on_exec = {}]))
        ELSE /\ Update(t, WithFdt(Picked(s, Min(marked)),
                  [Last(Picked(s, Min(marked)).fdt) EXCEPT !.close_on_exec = @ \ {Min(marked)}]))
             /\ Keep(t, [Local EXCEPT !.file = fdt.fd[Min(marked)], !.back = "exec"])
             /\ Goto(t, "fput")
     /\ UNCHANGED <<ref, readers>> /\ Quiet

ExitFiles(t) ==
  /\ Begin(t, "exit")
  /\ files' = [files EXCEPT ![t] = Null]
  /\ PutFilesStruct(files[t])
  /\ UNCHANGED <<nr_open, pc, lv, readers, bug>>

\* The limit is lowered; that it may be raised again is left out.
SetNrOpen ==
  /\ nr_open' \in NrOpens /\ nr_open' < nr_open
  /\ UNCHANGED <<files, fs, ref, pc, lv, readers, todo, bug>>

-----------------------------------------------------------------------------
\* The steps of a system call that has begun.
Step(t) ==
  \/ Fput(t) \/ ExpandWake(t) \/ ExpandAlloc(t) \/ ExpandPublish(t)
  \/ AllocFd(t) \/ Opened(t) \/ Install(t) \/ InstallDeref(t) \/ InstallWrite(t)
  \/ FputLight(t) \/ FgetTable(t) \/ FgetEntry(t) \/ FgetRef(t) \/ FgetCheck(t)
  \/ Used(t) \/ Dup2(t) \/ DupAlloc(t) \/ DupCopy(t) \/ RangeClose(t) \/ Replace(t)
  \/ DoCloseOnExec(t)

Call(t) ==
  \/ OpenBegin(t) \/ CloseFd(t) \/ SetFdFlag(t) \/ Fdget(t) \/ Dup2Begin(t)
  \/ CloseRangeBegin(t) \/ ExecBegin(t) \/ ExitFiles(t)

Next == SetNrOpen \/ \E t \in Tasks : Step(t) \/ Call(t)

\* A task that has begun a system call is scheduled and gets the lock.
Spec == Init /\ [][Next]_vars
FairSpec == Spec /\ \A t \in Tasks : SF_vars(Step(t))

-----------------------------------------------------------------------------
Live == {s \in Structs : fs[s].count > 0}

\* A task that holds a reference of its own to lv.file.
Holds(t, f) ==
  lv[t].file = f /\ pc[t] \notin {"fget_table", "fget_entry", "fget_ref", "light"}

\* The reference count of a file is the number of descriptors of the live
\* tables that name it and of the tasks that hold it: no store into a table is
\* lost in a resize, and nothing is closed twice.  A file that is used without
\* a reference is open, and no BUG_ON() is reached (fd_install, __fget_light,
\* dup_fd, put_files_struct).
RefsExact ==
  /\ \A f \in Files :
       ref[f] = MapThenSumSet(LAMBDA s : Slots(Fdt(s), f), Live)
                  + Cardinality({t \in Tasks : Holds(t, f)})
  /\ \A t \in Tasks : pc[t] = "light" => ref[lv[t].file] > 0
  /\ ~bug

\* What a task has claimed and not yet installed.
Claimed(s, fd) ==
  \E t \in Tasks :
    /\ files[t] = s /\ lv[t].fd = fd
    /\ pc[t] \in {"opening", "install", "install_locked", "install_deref", "install_write"}

\* Descriptors with a file are open in the bitmap; the others that are open are
\* being opened; all below next_fd are open; and a word is marked full when it
\* is, but for a table that close_range() has cut.  So open() returns the
\* lowest descriptor and never one in use (alloc_fd, pick_file, dup_fd).
BitmapsExact ==
  \A s \in Live :
    LET fdt == Fdt(s)
    IN /\ \A fd \in DOMAIN fdt.fd :
            fd \in fdt.open_fds <=> fdt.fd[fd] # Null \/ Claimed(s, fd)
       /\ fs[s].cut \/
            /\ 0 .. (fs[s].next_fd - 1) \subseteq fdt.open_fds
            /\ fdt.full_fds_bits =
                 {w \in 0 .. (Words(fdt.max_fds) - 1) : WordBits(w) \subseteq fdt.open_fds}

\* The comment of copy_fd_bitmaps: the extra space of the copy is cleared.
CopyIsClear ==
  \A s \in Live :
    \A w \in Fdt(s).full_fds_bits : WordBits(w) \cap DOMAIN Fdt(s).fd # {}

\* A system call that has begun comes to its end; who waits for a resize is
\* woken up (expand_files).
Busy(t) == pc[t] # "idle"
CallsEnd == \A t \in Tasks : Busy(t) ~> ~Busy(t)
=============================================================================
