--------------------------- MODULE ExecLoadProofs ---------------------------
(***************************************************************************)
(* The loading of a program, for every set of files, programs and readers: *)
(* LoadInv is inductive, and implies FilesExact and LoadSound.             *)
(*                                                                         *)
(* The argument.  FilesExact relates the counts of a file to the fields of *)
(* the linux_binprm, and so needs to know which of these are set at each   *)
(* step (BprmExact): what a failure label puts is what was taken on the    *)
(* way to it.  MemoryExact does the same for what is allocated.  Behind    *)
(* the point of no return a failure sets fatal before it returns           *)
(* (FailureExact), so that the only error seen by the program is one from  *)
(* before exec_mmap(), when its memory and credentials are still b.old     *)
(* (ProgramExact).  Between exec_mmap() and commit_creds() they are those  *)
(* of two programs, and exec_update_lock is held (UpdateExact): a reader   *)
(* inside finds both unchanged since it came in (SeenExact).               *)
(***************************************************************************)
EXTENDS ExecLoad, TLAPS

\* The steps, by what has been done: before bprm->file is open, the search for a
\* handler, load_elf_binary() before begin_new_exec(), under exec_update_lock,
\* with the new memory, with the new credentials, and the failure labels.

EarlyPcs == {"alloc", "args", "creds", "open"}
FindPcs == {"search", "rewrite", "elf_interp"}
CheckPcs == {"elf_headers", "elf_check", "begin"}
UpdatePcs == {"mmap", "sighand", "commit", "execfd", "setup"}
NewMmPcs == {"sighand", "commit", "execfd", "setup", "map", "map_done", "tables", "done"}
NewCredPcs == {"execfd", "setup", "map", "map_done", "tables", "done"}
OutPcs == {"out_free_dentry", "out_free_ph", "out"}
EndPcs == {"free", "ret"}
\* Nothing has failed.
GoPcs == EarlyPcs \cup FindPcs \cup CheckPcs \cup NewMmPcs
           \cup {"de_thread", "exe_file", "update_lock", "mmap"}
Pcs == GoPcs \cup OutPcs \cup EndPcs \cup {"user", "dead"}

OrNull == Files \cup {Null}
MemNames == {"bprm", "mm", "fdpath", "cred", "interp", "elf_phdata", "interp_elf_ex",
             "interp_elf_phdata"}

Bprm == [file : OrNull, executable : OrNull, interpreter : OrNull, elf : OrNull,
         exe : OrNull, mm : BOOLEAN, cred : BOOLEAN, execfd : BOOLEAN, depth : Nat,
         point_of_no_return : BOOLEAN, failed : BOOLEAN, old : Nat \X Nat]

\* The type of each variable.
LoadTypes ==
  /\ pc \in Pcs /\ b \in Bprm
  /\ mem \subseteq MemNames
  /\ mm \in [exec : Nat, exe : Files] /\ cred \in Nat
  /\ fref \in [Files -> Int] /\ wcount \in [Files -> Int]
  /\ fds \subseteq Files /\ writers \subseteq Files
  /\ guard \in BOOLEAN /\ update \in BOOLEAN /\ fatal \in BOOLEAN /\ execs \in Nat
  /\ rpc \in [Readers -> {"idle", "locked", "got", "checked"}]
  /\ seen \in [Readers -> Nat \X Nat]

\* Which files the exec has, at each of its steps.
BprmExact ==
  /\ pc \in {"user", "dead"} => b = NoBprm
  /\ pc \in EarlyPcs =>
       b.interpreter # Null /\ b.file = Null /\ b.executable = Null /\ ~b.execfd
  /\ pc = "rewrite" => b.interpreter # Null /\ (b.executable # Null => b.execfd)
  /\ pc \in GoPcs \ EarlyPcs => b.file # Null
  /\ pc \in EarlyPcs \cup FindPcs => b.elf = Null
  /\ pc \in GoPcs \ {"update_lock", "mmap"} => b.exe = Null
  /\ pc \in {"update_lock", "mmap"} => b.exe = b.file
  /\ pc \in (GoPcs \ EarlyPcs) \ ({"rewrite"} \cup NewCredPcs)
       => (b.execfd <=> b.executable # Null)
  /\ pc = "execfd" => b.executable # Null

\* Which memory can be allocated, at each of its steps.
MemoryExact ==
  /\ pc \in {"ret", "user", "dead"} => mem = {}
  /\ "mm" \in mem => b.mm
  /\ "cred" \in mem => b.cred
  /\ "elf_phdata" \in mem => pc \in ElfPcs \cup {"elf_interp", "out_free_ph"}
  /\ "interp_elf_ex" \in mem => pc \in ElfPcs
  /\ "interp_elf_phdata" \in mem => pc \in ElfPcs

\* exec_update_lock is held over the change of the memory and the credentials.
UpdateExact ==
  /\ update <=> pc \in UpdatePcs
  /\ \A r \in Readers : rpc[r] # "idle" => pc \notin UpdatePcs

\* What has failed, and which failures kill the task.
FailureExact ==
  /\ pc \in GoPcs => ~b.failed
  /\ pc \in OutPcs => b.failed
  /\ pc \in {"de_thread", "exe_file", "update_lock", "mmap"} \cup NewMmPcs
       => b.point_of_no_return
  /\ pc \in EarlyPcs \cup FindPcs \cup CheckPcs => ~b.point_of_no_return
  /\ pc \in EndPcs /\ b.failed /\ b.point_of_no_return => fatal

\* Whose memory and credentials the task has.
ProgramExact ==
  /\ pc \notin {"user", "dead"} /\ ~b.point_of_no_return => b.old = <<mm.exec, cred>>
  /\ pc \in NewMmPcs \/ (pc \in EndPcs /\ ~b.failed)
       => mm = [exec |-> execs, exe |-> b.file]
  /\ pc \in NewCredPcs \/ (pc \in EndPcs /\ ~b.failed) => cred = execs
  /\ \/ mm.exec = cred \/ pc \in UpdatePcs \/ pc = "dead"
     \/ b.failed /\ b.point_of_no_return

\* What a reader has seen is what the task has.
SeenExact ==
  \A r \in Readers :
    /\ rpc[r] \in {"got", "checked"} => seen[r][1] = mm.exec
    /\ rpc[r] = "checked" => seen[r][2] = cred

LoadInv ==
  /\ LoadTypes /\ BprmExact /\ MemoryExact /\ UpdateExact /\ FailureExact /\ ProgramExact
  /\ SeenExact /\ FilesExact

-----------------------------------------------------------------------------
(* The linux_binprm and the counts keep their types.                         *)

\* A count that Plus() changes is still a count.
LEMMA PlusType ==
  ASSUME NEW F \in [Files -> Int], NEW g \in OrNull, NEW n \in Int
  PROVE  Plus(F, g, n) \in [Files -> Int]
  BY DEF Plus, OrNull

\* The assignments to flags and of NULL, and those to files, keep the type.
LEMMA BprmUpdates ==
  ASSUME NEW x \in Bprm
  PROVE  /\ [x EXCEPT !.failed = TRUE] \in Bprm
         /\ [x EXCEPT !.mm = TRUE] \in Bprm
         /\ [x EXCEPT !.cred = TRUE] \in Bprm
         /\ [x EXCEPT !.cred = FALSE] \in Bprm
         /\ [x EXCEPT !.point_of_no_return = TRUE] \in Bprm
         /\ [x EXCEPT !.mm = FALSE, !.exe = Null] \in Bprm
         /\ [x EXCEPT !.executable = Null] \in Bprm
<1>1. [x EXCEPT !.failed = TRUE] \in Bprm
  BY DEF Bprm
<1>2. [x EXCEPT !.mm = TRUE] \in Bprm
  BY DEF Bprm
<1>3. [x EXCEPT !.cred = TRUE] \in Bprm /\ [x EXCEPT !.cred = FALSE] \in Bprm
  BY DEF Bprm
<1>4. [x EXCEPT !.point_of_no_return = TRUE] \in Bprm
  BY DEF Bprm
<1>5. [x EXCEPT !.mm = FALSE, !.exe = Null] \in Bprm
  BY DEF Bprm, OrNull
<1>6. [x EXCEPT !.executable = Null] \in Bprm
  BY DEF Bprm, OrNull
<1> QED BY <1>1, <1>2, <1>3, <1>4, <1>5, <1>6

LEMMA BprmFiles ==
  ASSUME NEW x \in Bprm, NEW f \in OrNull, NEW g \in OrNull, NEW z \in BOOLEAN
  PROVE  /\ [x EXCEPT !.file = f, !.interpreter = Null] \in Bprm
         /\ [x EXCEPT !.interpreter = f, !.execfd = z] \in Bprm
         /\ [x EXCEPT !.file = f, !.interpreter = Null, !.depth = @ + 1,
                      !.executable = g, !.failed = z] \in Bprm
         /\ [x EXCEPT !.elf = f] \in Bprm
         /\ [x EXCEPT !.elf = f, !.failed = TRUE] \in Bprm
         /\ [x EXCEPT !.exe = f] \in Bprm
<1>1. [x EXCEPT !.file = f, !.interpreter = Null] \in Bprm
  BY DEF Bprm, OrNull
<1>2. [x EXCEPT !.interpreter = f, !.execfd = z] \in Bprm
  BY DEF Bprm, OrNull
<1>3. [x EXCEPT !.file = f, !.interpreter = Null, !.depth = @ + 1,
                !.executable = g, !.failed = z] \in Bprm
  <2> DEFINE d == x.depth + 1
  <2>1. d \in Nat
    BY DEF Bprm
  <2> HIDE DEF d
  <2>2. [x EXCEPT !.file = f, !.interpreter = Null, !.depth = d,
                  !.executable = g, !.failed = z] \in Bprm
    BY <2>1 DEF Bprm, OrNull
  <2> QED BY <2>2 DEF d
<1>4. [x EXCEPT !.elf = f] \in Bprm
  BY DEF Bprm
<1>5. [x EXCEPT !.elf = f, !.failed = TRUE] \in Bprm
  BY DEF Bprm
<1>6. [x EXCEPT !.exe = f] \in Bprm
  BY DEF Bprm
<1> QED BY <1>1, <1>2, <1>3, <1>4, <1>5, <1>6

\* Every step keeps the type of the linux_binprm.
LEMMA BprmTypeStep == ASSUME ConstantsOK, LoadInv, Next PROVE b' \in Bprm
<1>0. /\ b \in Bprm
      /\ b.file \in OrNull
      /\ b.interpreter \in OrNull
      /\ b.executable \in OrNull
      /\ b.execfd \in BOOLEAN /\ Null \in OrNull
  BY DEF LoadInv, LoadTypes, Bprm, OrNull
<1>s. CASE UNCHANGED b
  BY <1>0, <1>s
<1>f. CASE b' = [b EXCEPT !.failed = TRUE]
  BY <1>0, <1>f, BprmUpdates
<1>a. CASE AllocBprm \/ PrepareBprmCreds \/ BprmCredsFromFile \/ CommitCreds
  BY <1>0, <1>s, <1>f, <1>a, BprmUpdates DEF AllocBprm, PrepareBprmCreds,
       BprmCredsFromFile, CommitCreds, At, Goto, NoFiles, NoLocks, Same, Others, Plus,
       CanOpen, OpenExec, CloseExec, Tries, Fails
<1>b. CASE Open
  BY <1>0, <1>s, <1>f, <1>b, BprmFiles, ZenonT(30) DEF Open, At, Goto, NoFiles, NoLocks, Same, Others,
       Plus, CanOpen, OpenExec, CloseExec, Tries, Fails
<1>c. CASE LoadScript
  <2>1. Programs[b.file].interp \in OrNull /\ (Programs[b.file].kind = "misc") \in BOOLEAN
    BY <1>c, <1>0 DEF LoadScript, LoadInv, LoadTypes, BprmExact, GoPcs, EarlyPcs, FindPcs,
         At, OrNull, ConstantsOK
  <2>2. b' = [b EXCEPT !.interpreter = Programs[b.file].interp,
                       !.execfd = b.execfd \/ Programs[b.file].kind = "misc"]
    BY <1>c DEF LoadScript
  <2>3. (b.execfd \/ Programs[b.file].kind = "misc") \in BOOLEAN
    OBVIOUS
  <2> QED BY <1>0, <2>1, <2>2, <2>3, BprmFiles
<1>d. CASE Rewrite
  <2> DEFINE k == b.execfd /\ b.executable = Null
             g == IF k THEN b.file ELSE b.executable
             z == b.execfd /\ ~k
  <2>1. b' = [b EXCEPT !.file = b.interpreter, !.interpreter = Null, !.depth = @ + 1,
                       !.executable = g, !.failed = z]
    BY <1>d DEF Rewrite
  <2>2. g \in OrNull /\ z \in BOOLEAN
    BY <1>0
  <2> HIDE DEF g, z
  <2> QED BY <1>0, <2>1, <2>2, BprmFiles
<1>e. CASE ElfInterp
  <2>1. Programs[b.file].interp \in OrNull
    BY <1>e, <1>0 DEF ElfInterp, LoadInv, LoadTypes, BprmExact, GoPcs, EarlyPcs, FindPcs,
         At, OrNull, ConstantsOK
  <2> QED BY <1>0, <1>f, <1>e, <2>1, BprmFiles DEF ElfInterp, Fails
<1>g. CASE SetMmExeFile
  BY <1>0, <1>g, BprmFiles DEF SetMmExeFile
<1>h. CASE ExecMmap \/ ExecFd
  BY <1>0, <1>f, <1>h, BprmUpdates DEF ExecMmap, ExecFd, Fails
<1>i. ASSUME NEW f \in Files, Exec(f) PROVE b' \in Bprm
  BY <1>0, <1>i DEF Exec, NoBprm, Bprm, OrNull, LoadInv, LoadTypes
<1>j. CASE Return
  BY <1>j DEF Return, NoBprm, Bprm, OrNull
<1>k. CASE CopyStrings \/ NoHandler \/ ElfHeaders \/ ElfCheck \/ DeThread \/
     ExecUpdateLock \/ UnshareSighand \/ ElfMap \/ CreateElfTables
  BY <1>s, <1>f, <1>k DEF CopyStrings, NoHandler, ElfHeaders, ElfCheck, DeThread,
       ExecUpdateLock,
       UnshareSighand, ElfMap, CreateElfTables, Tries, Fails
<1>l. CASE ElfPhdrs \/ SetupNewExec \/ ElfMapped \/ OutFreeDentry \/ OutFreePh \/ Out \/
     FreeBprm \/ Kill
  BY <1>s, <1>l DEF ElfPhdrs, SetupNewExec, ElfMapped, OutFreeDentry, OutFreePh, Out,
       FreeBprm, Kill
<1>m. ASSUME NEW f \in Files, Write(f) PROVE b' \in Bprm
  BY <1>s, <1>m DEF Write
<1>n. ASSUME NEW r \in Readers, MmAccess(r) \/ Read(r) PROVE b' \in Bprm
  BY <1>s, <1>n DEF MmAccess, Read, GetTaskMm, PtraceMayAccess, UpRead, Reader
<1> QED
  BY <1>a, <1>b, <1>c, <1>d, <1>e, <1>g, <1>h, <1>i, <1>j, <1>k, <1>l, <1>m, <1>n DEF
       Next, Step

-----------------------------------------------------------------------------
(* Every step keeps each part of the invariant.                              *)

\* Every step keeps the types.
LEMMA LoadTypesStep == ASSUME ConstantsOK, LoadInv, Next PROVE LoadTypes'
<1> USE DEF LoadInv, LoadTypes, ConstantsOK, MemNames, BprmExact, At, Goto, NoFiles,
     NoLocks, Same, Others, CanOpen, OpenExec, CloseExec, Tries, Fails, EarlyPcs, FindPcs,
     CheckPcs, UpdatePcs, NewMmPcs, NewCredPcs, OutPcs, EndPcs, GoPcs, Pcs, ElfPcs
<1>0. b' \in Bprm
  BY BprmTypeStep
<1>a. /\ b.file \in OrNull
      /\ b.elf \in OrNull
      /\ mm.exe \in OrNull
      /\ b.interpreter \in OrNull
      /\ b.executable \in OrNull /\ Files \subseteq OrNull
      /\ 1 \in Int /\ -1 \in Int /\ 0 \in Int
  BY DEF Bprm, OrNull
<1>b. \A g \in OrNull :
        /\ Plus(fref, g, 1) \in [Files -> Int] /\ Plus(fref, g, -1) \in [Files -> Int]
        /\ Plus(wcount, g, 1) \in [Files -> Int] /\ Plus(wcount, g, -1) \in [Files -> Int]
        /\ Plus(fref, g, 0) \in [Files -> Int]
  BY <1>a, PlusType
<1>1. CASE AllocBprm BY <1>0, <1>a, <1>b, <1>1 DEF AllocBprm
<1>2. CASE CopyStrings BY <1>0, <1>a, <1>b, <1>2 DEF CopyStrings
<1>3. CASE PrepareBprmCreds BY <1>0, <1>a, <1>b, <1>3 DEF PrepareBprmCreds
<1>4. CASE Open
  <2>1. CASE pc' = "search"
    BY <1>0, <1>a, <1>b, <1>4, <2>1 DEF Open
  <2>2. CASE pc' = "free"
    BY <1>0, <1>a, <1>b, <1>4, <2>2 DEF Open
  <2> QED BY <1>4, <2>1, <2>2 DEF Open
<1>5. CASE LoadScript
  <2>1. Programs[b.file].interp \in OrNull
    BY <1>5, <1>a DEF LoadScript, OrNull
  <2> QED BY <1>0, <1>a, <1>b, <1>5, <2>1 DEF LoadScript
<1>6. CASE NoHandler BY <1>0, <1>a, <1>b, <1>6 DEF NoHandler
<1>7. CASE Rewrite BY <1>0, <1>a, <1>b, <1>7 DEF Rewrite
<1>8. CASE ElfPhdrs BY <1>0, <1>a, <1>b, <1>8 DEF ElfPhdrs
<1>9. CASE ElfInterp
  <2>1. Programs[b.file].interp \in OrNull
    BY <1>9, <1>a DEF ElfInterp, OrNull
  <2>2. CASE pc' = "elf_headers"
    BY <1>0, <1>a, <1>b, <1>9, <2>1, <2>2 DEF ElfInterp
  <2>3. CASE pc' = "out_free_dentry"
    BY <1>0, <1>a, <1>b, <1>9, <2>1, <2>3 DEF ElfInterp
  <2>4. CASE pc' = "out_free_ph"
    BY <1>0, <1>a, <1>b, <1>9, <2>1, <2>4 DEF ElfInterp
  <2> QED BY <1>9, <2>2, <2>3, <2>4 DEF ElfInterp
<1>10. CASE ElfHeaders BY <1>0, <1>a, <1>b, <1>10 DEF ElfHeaders
<1>11. CASE ElfCheck BY <1>0, <1>a, <1>b, <1>11 DEF ElfCheck
<1>12. CASE BprmCredsFromFile BY <1>0, <1>a, <1>b, <1>12 DEF BprmCredsFromFile
<1>13. CASE DeThread BY <1>0, <1>a, <1>b, <1>13 DEF DeThread
<1>14. CASE SetMmExeFile BY <1>0, <1>a, <1>b, <1>14 DEF SetMmExeFile
<1>15. CASE ExecUpdateLock BY <1>0, <1>a, <1>b, <1>15 DEF ExecUpdateLock
<1>16. CASE ExecMmap
  <2>1. b.exe \in Files
    BY <1>16 DEF ExecMmap, Bprm, OrNull
  <2>2. CASE pc' = "sighand"
    BY <1>0, <1>a, <1>b, <1>16, <2>1, <2>2 DEF ExecMmap
  <2>3. CASE pc' = "out_free_dentry"
    BY <1>0, <1>a, <1>b, <1>16, <2>1, <2>3 DEF ExecMmap
  <2> QED BY <1>16, <2>2, <2>3 DEF ExecMmap
<1>17. CASE UnshareSighand BY <1>0, <1>a, <1>b, <1>17 DEF UnshareSighand, KeepsLock
<1>18. CASE CommitCreds BY <1>0, <1>a, <1>b, <1>18 DEF CommitCreds
<1>19. CASE ExecFd
  <2>1. b.executable \in Files
    BY <1>19 DEF ExecFd, Bprm, OrNull
  <2>2. CASE pc' = "setup"
    BY <1>0, <1>a, <1>b, <1>19, <2>1, <2>2 DEF ExecFd
  <2>3. CASE pc' = "out_free_dentry"
    BY <1>0, <1>19, <2>3 DEF ExecFd
  <2> QED BY <1>19, <2>2, <2>3 DEF ExecFd
<1>20. CASE SetupNewExec BY <1>0, <1>a, <1>b, <1>20 DEF SetupNewExec
<1>21. CASE ElfMap BY <1>0, <1>a, <1>b, <1>21 DEF ElfMap
<1>22. CASE ElfMapped BY <1>0, <1>a, <1>b, <1>22 DEF ElfMapped, ElfMem
<1>23. CASE CreateElfTables BY <1>0, <1>a, <1>b, <1>23 DEF CreateElfTables, LastLabel
<1>24. CASE OutFreeDentry BY <1>0, <1>a, <1>b, <1>24 DEF OutFreeDentry
<1>25. CASE OutFreePh BY <1>0, <1>a, <1>b, <1>25 DEF OutFreePh
<1>26. CASE Out BY <1>0, <1>a, <1>b, <1>26 DEF Out, Doomed
<1>27. CASE FreeBprm
  <2>1. \A f \in Files : fref[f] \in Int /\ wcount[f] \in Int
    OBVIOUS
  <2>2. \A x, y : Is(x, y) \in Int
    BY DEF Is
  <2>3. fref' \in [Files -> Int] /\ wcount' \in [Files -> Int]
    BY <1>27, <2>1, <2>2 DEF FreeBprm
  <2> QED BY <1>0, <1>27, <2>3 DEF FreeBprm
<1>28. CASE Return
  <2>1. CASE fatal
    BY <1>0, <1>a, <1>b, <1>28, <2>1 DEF Return
  <2>2. CASE ~fatal
    BY <1>0, <1>a, <1>b, <1>28, <2>2 DEF Return
  <2> QED BY <1>28, <2>1, <2>2 DEF Return
<1>29. CASE Kill BY <1>0, <1>a, <1>b, <1>29 DEF Kill
<1>30. ASSUME NEW f \in Files, Exec(f) PROVE LoadTypes'
  BY <1>0, <1>a, <1>b, <1>30 DEF Exec
<1>31. ASSUME NEW f \in Files, Write(f) PROVE LoadTypes'
  <2>1. f \in OrNull
    BY <1>a
  <2>2. wcount' \in [Files -> Int]
    BY <1>b, <1>31, <2>1 DEF Write
  <2> QED BY <1>0, <1>31, <2>2 DEF Write
<1>32. ASSUME NEW r \in Readers, MmAccess(r) PROVE LoadTypes'
  BY <1>0, <1>a, <1>b, <1>32 DEF MmAccess, Reader
<1>33. ASSUME NEW r \in Readers, GetTaskMm(r) PROVE LoadTypes'
  BY <1>0, <1>a, <1>b, <1>33 DEF GetTaskMm, Reader
<1>34. ASSUME NEW r \in Readers, PtraceMayAccess(r) PROVE LoadTypes'
  <2>1. seen[r] \in Nat \X Nat
    OBVIOUS
  <2>2. [seen[r] EXCEPT ![2] = cred] \in Nat \X Nat
    BY <2>1
  <2>3. seen' = [seen EXCEPT ![r] = [seen[r] EXCEPT ![2] = cred]]
    BY <1>34 DEF PtraceMayAccess
  <2>4. seen' \in [Readers -> Nat \X Nat]
    BY <2>2, <2>3
  <2> QED BY <1>0, <1>34, <2>4 DEF PtraceMayAccess, Reader
<1>35. ASSUME NEW r \in Readers, UpRead(r) PROVE LoadTypes'
  BY <1>0, <1>a, <1>b, <1>35 DEF UpRead, Reader
<1> QED
  BY <1>1, <1>2, <1>3, <1>4, <1>5, <1>6, <1>7, <1>8, <1>9, <1>10, <1>11, <1>12,
     <1>13, <1>14, <1>15, <1>16, <1>17, <1>18, <1>19, <1>20, <1>21, <1>22, <1>23, <1>24,
     <1>25, <1>26, <1>27, <1>28, <1>29, <1>30, <1>31, <1>32, <1>33, <1>34, <1>35
  DEF Next, Step, Read

\* What is set in the linux_binprm: only the steps that assign to it matter, and
\* those that go on where a field must be set.
LEMMA BprmExactStep == ASSUME ConstantsOK, LoadInv, Next PROVE BprmExact'
<1> USE DEF LoadInv, LoadTypes, Bprm, BprmExact, ConstantsOK, NoBprm, OrNull, At, Goto,
     NoFiles, NoLocks, Same, Others, Plus, CanOpen, OpenExec, CloseExec, Tries, Fails,
     EarlyPcs, FindPcs, CheckPcs, UpdatePcs, NewMmPcs, NewCredPcs, OutPcs, EndPcs, GoPcs,
     Pcs, ElfPcs
<1>1. CASE AllocBprm BY <1>1 DEF AllocBprm
<1>2. CASE CopyStrings BY <1>2 DEF CopyStrings
<1>3. CASE PrepareBprmCreds BY <1>3 DEF PrepareBprmCreds
<1>4. CASE Open BY <1>4 DEF Open
<1>5. CASE LoadScript BY <1>5 DEF LoadScript
<1>6. CASE NoHandler BY <1>6 DEF NoHandler
<1>7. CASE Rewrite
  <2>1. /\ pc' \in {"out", "search"}
        /\ b'.file = b.interpreter
        /\ b'.elf = b.elf
        /\ b'.exe = b.exe
        /\ b'.execfd = b.execfd
    BY <1>7 DEF Rewrite
  <2>2. b'.executable = IF b.execfd /\ b.executable = Null THEN b.file ELSE b.executable
    BY <1>7 DEF Rewrite
  <2>3. pc' = "search" => ~b.execfd \/ b.executable = Null
    BY <1>7 DEF Rewrite
  <2>4. pc = "rewrite"
    BY <1>7 DEF Rewrite
  <2>5. /\ b.file # Null
        /\ b.interpreter # Null
        /\ b.elf = Null
        /\ b.exe = Null
        /\ (b.executable # Null => b.execfd)
    BY <2>4
  <2> QED BY <2>1, <2>2, <2>3, <2>5
<1>8. CASE ElfPhdrs BY <1>8 DEF ElfPhdrs
<1>9. CASE ElfInterp BY <1>9 DEF ElfInterp
<1>10. CASE ElfHeaders BY <1>10 DEF ElfHeaders
<1>11. CASE ElfCheck BY <1>11 DEF ElfCheck
<1>12. CASE BprmCredsFromFile BY <1>12 DEF BprmCredsFromFile
<1>13. CASE DeThread BY <1>13 DEF DeThread
<1>14. CASE SetMmExeFile BY <1>14 DEF SetMmExeFile
<1>15. CASE ExecUpdateLock BY <1>15 DEF ExecUpdateLock
<1>16. CASE ExecMmap BY <1>16, ZenonT(30) DEF ExecMmap
<1>17. CASE UnshareSighand BY <1>17 DEF UnshareSighand, KeepsLock
<1>18. CASE CommitCreds BY <1>18 DEF CommitCreds
<1>19. CASE ExecFd BY <1>19 DEF ExecFd
<1>20. CASE SetupNewExec BY <1>20 DEF SetupNewExec
<1>21. CASE ElfMap BY <1>21 DEF ElfMap
<1>22. CASE ElfMapped BY <1>22 DEF ElfMapped, ElfMem
<1>23. CASE CreateElfTables BY <1>23 DEF CreateElfTables, LastLabel
<1>24. CASE OutFreeDentry BY <1>24 DEF OutFreeDentry
<1>25. CASE OutFreePh BY <1>25 DEF OutFreePh
<1>26. CASE Out BY <1>26 DEF Out, Doomed
<1>27. CASE FreeBprm BY <1>27 DEF FreeBprm, Is
<1>28. CASE Return BY <1>28 DEF Return
<1>29. CASE Kill BY <1>29 DEF Kill
<1>30. ASSUME NEW f \in Files, Exec(f) PROVE BprmExact' BY <1>30 DEF Exec
<1>31. ASSUME NEW f \in Files, Write(f) PROVE BprmExact' BY <1>31 DEF Write
<1>32. ASSUME NEW r \in Readers, MmAccess(r) PROVE BprmExact'
  BY <1>32 DEF MmAccess, Reader
<1>33. ASSUME NEW r \in Readers, GetTaskMm(r) PROVE BprmExact'
  BY <1>33 DEF GetTaskMm, Reader
<1>34. ASSUME NEW r \in Readers, PtraceMayAccess(r) PROVE BprmExact'
  BY <1>34 DEF PtraceMayAccess, Reader
<1>35. ASSUME NEW r \in Readers, UpRead(r) PROVE BprmExact' BY <1>35 DEF UpRead, Reader
<1> QED
  BY <1>1, <1>2, <1>3, <1>4, <1>5, <1>6, <1>7, <1>8, <1>9, <1>10, <1>11, <1>12,
     <1>13, <1>14, <1>15, <1>16, <1>17, <1>18, <1>19, <1>20, <1>21, <1>22, <1>23, <1>24,
     <1>25, <1>26, <1>27, <1>28, <1>29, <1>30, <1>31, <1>32, <1>33, <1>34, <1>35
  DEF Next, Step, Read

\* A failure label frees what has been allocated on the way to it.
LEMMA MemoryExactStep == ASSUME ConstantsOK, LoadInv, Next PROVE MemoryExact'
<1> USE DEF LoadInv, LoadTypes, Bprm, MemoryExact, MemNames, NoBprm, At, Goto, NoFiles,
     NoLocks, Same, Others, Plus, CanOpen, OpenExec, CloseExec, Tries, Fails, EarlyPcs,
     FindPcs, CheckPcs, UpdatePcs, NewMmPcs, NewCredPcs, OutPcs, EndPcs, GoPcs, Pcs,
     ElfPcs
<1>1. CASE AllocBprm BY <1>1 DEF AllocBprm
<1>2. CASE CopyStrings BY <1>2 DEF CopyStrings
<1>3. CASE PrepareBprmCreds BY <1>3 DEF PrepareBprmCreds
<1>4. CASE Open BY <1>4 DEF Open
<1>5. CASE LoadScript BY <1>5 DEF LoadScript
<1>6. CASE NoHandler BY <1>6 DEF NoHandler
<1>7. CASE Rewrite BY <1>7 DEF Rewrite
<1>8. CASE ElfPhdrs BY <1>8 DEF ElfPhdrs
<1>9. CASE ElfInterp BY <1>9 DEF ElfInterp
<1>10. CASE ElfHeaders BY <1>10 DEF ElfHeaders
<1>11. CASE ElfCheck BY <1>11 DEF ElfCheck
<1>12. CASE BprmCredsFromFile BY <1>12 DEF BprmCredsFromFile
<1>13. CASE DeThread BY <1>13 DEF DeThread
<1>14. CASE SetMmExeFile BY <1>14 DEF SetMmExeFile
<1>15. CASE ExecUpdateLock BY <1>15 DEF ExecUpdateLock
<1>16. CASE ExecMmap BY <1>16 DEF ExecMmap
<1>17. CASE UnshareSighand BY <1>17 DEF UnshareSighand, KeepsLock
<1>18. CASE CommitCreds BY <1>18 DEF CommitCreds
<1>19. CASE ExecFd BY <1>19 DEF ExecFd
<1>20. CASE SetupNewExec BY <1>20 DEF SetupNewExec
<1>21. CASE ElfMap BY <1>21 DEF ElfMap
<1>22. CASE ElfMapped BY <1>22 DEF ElfMapped, ElfMem
<1>23. CASE CreateElfTables BY <1>23 DEF CreateElfTables, LastLabel
<1>24. CASE OutFreeDentry BY <1>24 DEF OutFreeDentry
<1>25. CASE OutFreePh BY <1>25 DEF OutFreePh
<1>26. CASE Out BY <1>26 DEF Out, Doomed
<1>27. CASE FreeBprm BY <1>27 DEF FreeBprm, Is
<1>28. CASE Return BY <1>28 DEF Return
<1>29. CASE Kill BY <1>29 DEF Kill
<1>30. ASSUME NEW f \in Files, Exec(f) PROVE MemoryExact' BY <1>30 DEF Exec
<1>31. ASSUME NEW f \in Files, Write(f) PROVE MemoryExact' BY <1>31 DEF Write
<1>32. ASSUME NEW r \in Readers, MmAccess(r) PROVE MemoryExact'
  BY <1>32 DEF MmAccess, Reader
<1>33. ASSUME NEW r \in Readers, GetTaskMm(r) PROVE MemoryExact'
  BY <1>33 DEF GetTaskMm, Reader
<1>34. ASSUME NEW r \in Readers, PtraceMayAccess(r) PROVE MemoryExact'
  BY <1>34 DEF PtraceMayAccess, Reader
<1>35. ASSUME NEW r \in Readers, UpRead(r) PROVE MemoryExact' BY <1>35 DEF UpRead, Reader
<1> QED
  BY <1>1, <1>2, <1>3, <1>4, <1>5, <1>6, <1>7, <1>8, <1>9, <1>10, <1>11, <1>12,
     <1>13, <1>14, <1>15, <1>16, <1>17, <1>18, <1>19, <1>20, <1>21, <1>22, <1>23, <1>24,
     <1>25, <1>26, <1>27, <1>28, <1>29, <1>30, <1>31, <1>32, <1>33, <1>34, <1>35
  DEF Next, Step, Read

\* The lock is let go by setup_new_exec(), or by the failure that leaves before.
LEMMA UpdateExactStep == ASSUME ConstantsOK, LoadInv, Next PROVE UpdateExact'
<1> USE DEF LoadInv, LoadTypes, Bprm, UpdateExact, At, Goto, NoFiles, NoLocks, Same,
     Others, Plus, CanOpen, OpenExec, CloseExec, Tries, Fails, EarlyPcs, FindPcs,
     CheckPcs, UpdatePcs, NewMmPcs, NewCredPcs, OutPcs, EndPcs, GoPcs, Pcs, ElfPcs
<1>1. CASE AllocBprm BY <1>1 DEF AllocBprm
<1>2. CASE CopyStrings BY <1>2 DEF CopyStrings
<1>3. CASE PrepareBprmCreds BY <1>3 DEF PrepareBprmCreds
<1>4. CASE Open BY <1>4 DEF Open
<1>5. CASE LoadScript BY <1>5 DEF LoadScript
<1>6. CASE NoHandler BY <1>6 DEF NoHandler
<1>7. CASE Rewrite BY <1>7 DEF Rewrite
<1>8. CASE ElfPhdrs BY <1>8 DEF ElfPhdrs
<1>9. CASE ElfInterp BY <1>9 DEF ElfInterp
<1>10. CASE ElfHeaders BY <1>10 DEF ElfHeaders
<1>11. CASE ElfCheck BY <1>11 DEF ElfCheck
<1>12. CASE BprmCredsFromFile BY <1>12 DEF BprmCredsFromFile
<1>13. CASE DeThread BY <1>13 DEF DeThread
<1>14. CASE SetMmExeFile BY <1>14 DEF SetMmExeFile
<1>15. CASE ExecUpdateLock BY <1>15 DEF ExecUpdateLock
<1>16. CASE ExecMmap BY <1>16 DEF ExecMmap
<1>17. CASE UnshareSighand BY <1>17 DEF UnshareSighand, KeepsLock
<1>18. CASE CommitCreds BY <1>18 DEF CommitCreds
<1>19. CASE ExecFd BY <1>19 DEF ExecFd
<1>20. CASE SetupNewExec BY <1>20 DEF SetupNewExec
<1>21. CASE ElfMap BY <1>21 DEF ElfMap
<1>22. CASE ElfMapped BY <1>22 DEF ElfMapped, ElfMem
<1>23. CASE CreateElfTables BY <1>23 DEF CreateElfTables, LastLabel
<1>24. CASE OutFreeDentry BY <1>24 DEF OutFreeDentry
<1>25. CASE OutFreePh BY <1>25 DEF OutFreePh
<1>26. CASE Out BY <1>26 DEF Out, Doomed
<1>27. CASE FreeBprm BY <1>27 DEF FreeBprm, Is
<1>28. CASE Return BY <1>28 DEF Return
<1>29. CASE Kill BY <1>29 DEF Kill
<1>30. ASSUME NEW f \in Files, Exec(f) PROVE UpdateExact' BY <1>30 DEF Exec
<1>31. ASSUME NEW f \in Files, Write(f) PROVE UpdateExact' BY <1>31 DEF Write
<1>32. ASSUME NEW r \in Readers, MmAccess(r) PROVE UpdateExact'
  BY <1>32 DEF MmAccess, Reader
<1>33. ASSUME NEW r \in Readers, GetTaskMm(r) PROVE UpdateExact'
  BY <1>33 DEF GetTaskMm, Reader
<1>34. ASSUME NEW r \in Readers, PtraceMayAccess(r) PROVE UpdateExact'
  BY <1>34 DEF PtraceMayAccess, Reader
<1>35. ASSUME NEW r \in Readers, UpRead(r) PROVE UpdateExact' BY <1>35 DEF UpRead, Reader
<1> QED
  BY <1>1, <1>2, <1>3, <1>4, <1>5, <1>6, <1>7, <1>8, <1>9, <1>10, <1>11, <1>12,
     <1>13, <1>14, <1>15, <1>16, <1>17, <1>18, <1>19, <1>20, <1>21, <1>22, <1>23, <1>24,
     <1>25, <1>26, <1>27, <1>28, <1>29, <1>30, <1>31, <1>32, <1>33, <1>34, <1>35
  DEF Next, Step, Read

\* Only Out leaves a failure behind the point of no return, and it kills.
LEMMA FailureExactStep == ASSUME ConstantsOK, LoadInv, Next PROVE FailureExact'
<1> USE DEF LoadInv, LoadTypes, Bprm, BprmExact, FailureExact, NoBprm, OrNull, At, Goto,
     NoFiles, NoLocks, Same, Others, Plus, CanOpen, OpenExec, CloseExec, Tries, Fails,
     EarlyPcs, FindPcs, CheckPcs, UpdatePcs, NewMmPcs, NewCredPcs, OutPcs, EndPcs, GoPcs,
     Pcs, ElfPcs
<1>1. CASE AllocBprm BY <1>1 DEF AllocBprm
<1>2. CASE CopyStrings BY <1>2 DEF CopyStrings
<1>3. CASE PrepareBprmCreds BY <1>3 DEF PrepareBprmCreds
<1>4. CASE Open BY <1>4 DEF Open
<1>5. CASE LoadScript BY <1>5 DEF LoadScript
<1>6. CASE NoHandler BY <1>6 DEF NoHandler
<1>7. CASE Rewrite BY <1>7 DEF Rewrite
<1>8. CASE ElfPhdrs BY <1>8 DEF ElfPhdrs
<1>9. CASE ElfInterp BY <1>9, ZenonT(30) DEF ElfInterp
<1>10. CASE ElfHeaders BY <1>10 DEF ElfHeaders
<1>11. CASE ElfCheck BY <1>11 DEF ElfCheck
<1>12. CASE BprmCredsFromFile BY <1>12 DEF BprmCredsFromFile
<1>13. CASE DeThread BY <1>13 DEF DeThread
<1>14. CASE SetMmExeFile BY <1>14 DEF SetMmExeFile
<1>15. CASE ExecUpdateLock BY <1>15 DEF ExecUpdateLock
<1>16. CASE ExecMmap
  <2>1. CASE pc' = "sighand" /\ b' = [b EXCEPT !.mm = FALSE, !.exe = Null] /\ fatal' = fatal
    BY <1>16, <2>1 DEF ExecMmap
  <2>2. CASE Fails("out_free_dentry") /\ fatal' = fatal
    BY <1>16, <2>2 DEF ExecMmap
  <2> QED BY <1>16, <2>1, <2>2 DEF ExecMmap
<1>17. CASE UnshareSighand BY <1>17 DEF UnshareSighand, KeepsLock
<1>18. CASE CommitCreds BY <1>18 DEF CommitCreds
<1>19. CASE ExecFd BY <1>19 DEF ExecFd
<1>20. CASE SetupNewExec BY <1>20 DEF SetupNewExec
<1>21. CASE ElfMap BY <1>21 DEF ElfMap
<1>22. CASE ElfMapped BY <1>22 DEF ElfMapped, ElfMem
<1>23. CASE CreateElfTables BY <1>23 DEF CreateElfTables, LastLabel
<1>24. CASE OutFreeDentry BY <1>24 DEF OutFreeDentry
<1>25. CASE OutFreePh BY <1>25 DEF OutFreePh
<1>26. CASE Out BY <1>26 DEF Out, Doomed
<1>27. CASE FreeBprm BY <1>27 DEF FreeBprm, Is
<1>28. CASE Return BY <1>28 DEF Return
<1>29. CASE Kill BY <1>29 DEF Kill
<1>30. ASSUME NEW f \in Files, Exec(f) PROVE FailureExact' BY <1>30 DEF Exec
<1>31. ASSUME NEW f \in Files, Write(f) PROVE FailureExact' BY <1>31 DEF Write
<1>32. ASSUME NEW r \in Readers, MmAccess(r) PROVE FailureExact'
  BY <1>32 DEF MmAccess, Reader
<1>33. ASSUME NEW r \in Readers, GetTaskMm(r) PROVE FailureExact'
  BY <1>33 DEF GetTaskMm, Reader
<1>34. ASSUME NEW r \in Readers, PtraceMayAccess(r) PROVE FailureExact'
  BY <1>34 DEF PtraceMayAccess, Reader
<1>35. ASSUME NEW r \in Readers, UpRead(r) PROVE FailureExact' BY <1>35 DEF UpRead, Reader
<1> QED
  BY <1>1, <1>2, <1>3, <1>4, <1>5, <1>6, <1>7, <1>8, <1>9, <1>10, <1>11, <1>12,
     <1>13, <1>14, <1>15, <1>16, <1>17, <1>18, <1>19, <1>20, <1>21, <1>22, <1>23, <1>24,
     <1>25, <1>26, <1>27, <1>28, <1>29, <1>30, <1>31, <1>32, <1>33, <1>34, <1>35
  DEF Next, Step, Read

\* The memory changes in ExecMmap and the credentials in CommitCreds, both
\* behind the point of no return.
LEMMA ProgramExactStep == ASSUME ConstantsOK, LoadInv, Next PROVE ProgramExact'
<1> USE DEF LoadInv, LoadTypes, Bprm, BprmExact, FailureExact, ProgramExact, NoBprm, At,
     Goto, NoFiles, NoLocks, Same, Others, Plus, CanOpen, OpenExec, CloseExec, Tries,
     Fails, EarlyPcs, FindPcs, CheckPcs, UpdatePcs, NewMmPcs, NewCredPcs, OutPcs, EndPcs,
     GoPcs, Pcs, ElfPcs
<1>1. CASE AllocBprm BY <1>1 DEF AllocBprm
<1>2. CASE CopyStrings BY <1>2 DEF CopyStrings
<1>3. CASE PrepareBprmCreds BY <1>3 DEF PrepareBprmCreds
<1>4. CASE Open BY <1>4 DEF Open
<1>5. CASE LoadScript BY <1>5 DEF LoadScript
<1>6. CASE NoHandler BY <1>6 DEF NoHandler
<1>7. CASE Rewrite BY <1>7 DEF Rewrite
<1>8. CASE ElfPhdrs BY <1>8 DEF ElfPhdrs
<1>9. CASE ElfInterp BY <1>9 DEF ElfInterp
<1>10. CASE ElfHeaders BY <1>10 DEF ElfHeaders
<1>11. CASE ElfCheck BY <1>11 DEF ElfCheck
<1>12. CASE BprmCredsFromFile BY <1>12 DEF BprmCredsFromFile
<1>13. CASE DeThread BY <1>13 DEF DeThread
<1>14. CASE SetMmExeFile BY <1>14 DEF SetMmExeFile
<1>15. CASE ExecUpdateLock BY <1>15 DEF ExecUpdateLock
<1>16. CASE ExecMmap BY <1>16, ZenonT(30) DEF ExecMmap
<1>17. CASE UnshareSighand BY <1>17 DEF UnshareSighand, KeepsLock
<1>18. CASE CommitCreds BY <1>18 DEF CommitCreds
<1>19. CASE ExecFd BY <1>19 DEF ExecFd
<1>20. CASE SetupNewExec BY <1>20 DEF SetupNewExec
<1>21. CASE ElfMap BY <1>21 DEF ElfMap
<1>22. CASE ElfMapped BY <1>22 DEF ElfMapped, ElfMem
<1>23. CASE CreateElfTables BY <1>23 DEF CreateElfTables, LastLabel
<1>24. CASE OutFreeDentry BY <1>24 DEF OutFreeDentry
<1>25. CASE OutFreePh BY <1>25 DEF OutFreePh
<1>26. CASE Out BY <1>26 DEF Out, Doomed
<1>27. CASE FreeBprm BY <1>27 DEF FreeBprm, Is
<1>28. CASE Return BY <1>28 DEF Return
<1>29. CASE Kill BY <1>29 DEF Kill
<1>30. ASSUME NEW f \in Files, Exec(f) PROVE ProgramExact' BY <1>30 DEF Exec
<1>31. ASSUME NEW f \in Files, Write(f) PROVE ProgramExact' BY <1>31 DEF Write
<1>32. ASSUME NEW r \in Readers, MmAccess(r) PROVE ProgramExact'
  BY <1>32 DEF MmAccess, Reader
<1>33. ASSUME NEW r \in Readers, GetTaskMm(r) PROVE ProgramExact'
  BY <1>33 DEF GetTaskMm, Reader
<1>34. ASSUME NEW r \in Readers, PtraceMayAccess(r) PROVE ProgramExact'
  BY <1>34 DEF PtraceMayAccess, Reader
<1>35. ASSUME NEW r \in Readers, UpRead(r) PROVE ProgramExact' BY <1>35 DEF UpRead, Reader
<1> QED
  BY <1>1, <1>2, <1>3, <1>4, <1>5, <1>6, <1>7, <1>8, <1>9, <1>10, <1>11, <1>12,
     <1>13, <1>14, <1>15, <1>16, <1>17, <1>18, <1>19, <1>20, <1>21, <1>22, <1>23, <1>24,
     <1>25, <1>26, <1>27, <1>28, <1>29, <1>30, <1>31, <1>32, <1>33, <1>34, <1>35
  DEF Next, Step, Read

\* ExecMmap and CommitCreds find every reader idle.
LEMMA SeenExactStep == ASSUME ConstantsOK, LoadInv, Next PROVE SeenExact'
<1> USE DEF LoadInv, LoadTypes, Bprm, UpdateExact, SeenExact, At, Goto, NoFiles, NoLocks,
     Same, Others, Plus, CanOpen, OpenExec, CloseExec, Tries, Fails, EarlyPcs, FindPcs,
     CheckPcs, UpdatePcs, NewMmPcs, NewCredPcs, OutPcs, EndPcs, GoPcs, Pcs, ElfPcs
<1>1. CASE AllocBprm BY <1>1 DEF AllocBprm
<1>2. CASE CopyStrings BY <1>2 DEF CopyStrings
<1>3. CASE PrepareBprmCreds BY <1>3 DEF PrepareBprmCreds
<1>4. CASE Open BY <1>4 DEF Open
<1>5. CASE LoadScript BY <1>5 DEF LoadScript
<1>6. CASE NoHandler BY <1>6 DEF NoHandler
<1>7. CASE Rewrite BY <1>7 DEF Rewrite
<1>8. CASE ElfPhdrs BY <1>8 DEF ElfPhdrs
<1>9. CASE ElfInterp BY <1>9 DEF ElfInterp
<1>10. CASE ElfHeaders BY <1>10 DEF ElfHeaders
<1>11. CASE ElfCheck BY <1>11 DEF ElfCheck
<1>12. CASE BprmCredsFromFile BY <1>12 DEF BprmCredsFromFile
<1>13. CASE DeThread BY <1>13 DEF DeThread
<1>14. CASE SetMmExeFile BY <1>14 DEF SetMmExeFile
<1>15. CASE ExecUpdateLock BY <1>15 DEF ExecUpdateLock
<1>16. CASE ExecMmap BY <1>16 DEF ExecMmap
<1>17. CASE UnshareSighand BY <1>17 DEF UnshareSighand, KeepsLock
<1>18. CASE CommitCreds BY <1>18 DEF CommitCreds
<1>19. CASE ExecFd BY <1>19 DEF ExecFd
<1>20. CASE SetupNewExec BY <1>20 DEF SetupNewExec
<1>21. CASE ElfMap BY <1>21 DEF ElfMap
<1>22. CASE ElfMapped BY <1>22 DEF ElfMapped, ElfMem
<1>23. CASE CreateElfTables BY <1>23 DEF CreateElfTables, LastLabel
<1>24. CASE OutFreeDentry BY <1>24 DEF OutFreeDentry
<1>25. CASE OutFreePh BY <1>25 DEF OutFreePh
<1>26. CASE Out BY <1>26 DEF Out, Doomed
<1>27. CASE FreeBprm BY <1>27 DEF FreeBprm, Is
<1>28. CASE Return BY <1>28 DEF Return
<1>29. CASE Kill BY <1>29 DEF Kill
<1>30. ASSUME NEW f \in Files, Exec(f) PROVE SeenExact' BY <1>30 DEF Exec
<1>31. ASSUME NEW f \in Files, Write(f) PROVE SeenExact' BY <1>31 DEF Write
<1>32. ASSUME NEW r \in Readers, MmAccess(r) PROVE SeenExact'
  BY <1>32 DEF MmAccess, Reader
<1>33. ASSUME NEW r \in Readers, GetTaskMm(r) PROVE SeenExact'
  BY <1>33 DEF GetTaskMm, Reader
<1>34. ASSUME NEW r \in Readers, PtraceMayAccess(r) PROVE SeenExact'
  BY <1>34 DEF PtraceMayAccess, Reader
<1>35. ASSUME NEW r \in Readers, UpRead(r) PROVE SeenExact' BY <1>35 DEF UpRead, Reader
<1> QED
  BY <1>1, <1>2, <1>3, <1>4, <1>5, <1>6, <1>7, <1>8, <1>9, <1>10, <1>11, <1>12,
     <1>13, <1>14, <1>15, <1>16, <1>17, <1>18, <1>19, <1>20, <1>21, <1>22, <1>23, <1>24,
     <1>25, <1>26, <1>27, <1>28, <1>29, <1>30, <1>31, <1>32, <1>33, <1>34, <1>35
  DEF Next, Step, Read

\* What a step takes or puts is what it sets or leaves in the linux_binprm.
LEMMA FilesExactStep == ASSUME ConstantsOK, LoadInv, Next PROVE FilesExact'
<1> USE DEF LoadInv, LoadTypes, Bprm, BprmExact, MemoryExact, UpdateExact, FilesExact,
     Denials, Kept, Is, NoBprm, ConstantsOK, OrNull, At, Goto, NoFiles, NoLocks, Same,
     Others, Plus, CanOpen, OpenExec, CloseExec, Tries, Fails, EarlyPcs, FindPcs,
     CheckPcs, UpdatePcs, NewMmPcs, NewCredPcs, OutPcs, EndPcs, GoPcs, Pcs, ElfPcs
<1>1. CASE AllocBprm BY <1>1 DEF AllocBprm
<1>2. CASE CopyStrings BY <1>2 DEF CopyStrings
<1>3. CASE PrepareBprmCreds BY <1>3 DEF PrepareBprmCreds
<1>4. CASE Open
  <2>1. CASE pc' = "search"
    <3>1. ASSUME NEW f \in Files
          PROVE  /\ wcount'[f] = (IF f \in writers' THEN 1 ELSE -Denials(f)')
                 /\ fref'[f] = Denials(f)' + Kept(f)'
                 /\ f \in writers' => Denials(f)' = 0
      <4>0. /\ pc = "open" /\ pc' = "search" /\ b'.file = b.interpreter /\ b.file = Null
            /\ b'.exe = b.exe /\ b'.executable = b.executable /\ b'.elf = b.elf /\ mm' = mm
            /\ b.elf = Null /\ fds' = fds
        BY <1>4, <2>1, ZenonT(30) DEF Open
      <4>1. Denials(f)' = Denials(f) + Is(b.interpreter, f) /\ Kept(f)' = Kept(f)
        BY <4>0, <3>1 DEF Denials, Kept, Is
      <4>2. /\ wcount'[f] = wcount[f] - Is(b.interpreter, f)
            /\ fref'[f] = fref[f] + Is(b.interpreter, f)
            /\ writers' = writers
        BY <1>4, <2>1, <3>1 DEF Open
      <4>3. f \in writers => Is(b.interpreter, f) = 0
        BY <1>4, <2>1, <3>1 DEF Open
      <4>4. Denials(f) \in Int /\ Kept(f) \in Int /\ Is(b.interpreter, f) \in Int
        BY DEF Denials, Kept, Is
      <4> HIDE DEF Denials, Kept, Is, Plus
      <4> QED BY <4>1, <4>2, <4>3, <4>4, <3>1 DEF FilesExact
    <3>2. (pc \in {"user", "dead"} => mem = {} /\ ~update)'
      BY <1>4, <2>1 DEF Open
    <3> QED BY <3>1, <3>2 DEF FilesExact
  <2>2. CASE pc' = "free"
    <3>1. ASSUME NEW f \in Files
          PROVE  /\ wcount'[f] = (IF f \in writers' THEN 1 ELSE -Denials(f)')
                 /\ fref'[f] = Denials(f)' + Kept(f)'
                 /\ f \in writers' => Denials(f)' = 0
      BY <1>4, <2>2, <3>1 DEF Open
    <3>2. (pc \in {"user", "dead"} => mem = {} /\ ~update)'
      BY <1>4, <2>2 DEF Open
    <3> QED BY <3>1, <3>2 DEF FilesExact
  <2> QED BY <1>4, <2>1, <2>2 DEF Open
<1>5. CASE LoadScript BY <1>5 DEF LoadScript
<1>6. CASE NoHandler BY <1>6 DEF NoHandler
<1>7. CASE Rewrite BY <1>7 DEF Rewrite
<1>8. CASE ElfPhdrs BY <1>8 DEF ElfPhdrs
<1>9. CASE ElfInterp
  <2>1. CASE pc' = "elf_headers"
    <3>1. ASSUME NEW f \in Files
          PROVE  /\ wcount'[f] = (IF f \in writers' THEN 1 ELSE -Denials(f)')
                 /\ fref'[f] = Denials(f)' + Kept(f)'
                 /\ f \in writers' => Denials(f)' = 0
      <4>0. /\ pc = "elf_interp" /\ pc' = "elf_headers"
            /\ b'.file = b.file /\ b'.exe = b.exe /\ b'.executable = b.executable /\ mm' =
                 mm
            /\ b'.elf = Programs[b.file].interp /\ b.elf = Null /\ fds' = fds
        BY <1>9, <2>1 DEF ElfInterp
      <4>1. Denials(f)' = Denials(f) + Is(Programs[b.file].interp, f) /\ Kept(f)' = Kept(f)
        BY <4>0, <3>1 DEF Denials, Kept, Is
      <4>2. /\ wcount'[f] = wcount[f] - Is(Programs[b.file].interp, f)
            /\ fref'[f] = fref[f] + Is(Programs[b.file].interp, f)
            /\ writers' = writers
        BY <1>9, <2>1, <3>1 DEF ElfInterp
      <4>3. f \in writers => Is(Programs[b.file].interp, f) = 0
        BY <1>9, <2>1, <3>1 DEF ElfInterp
      <4>4. Denials(f) \in Int /\ Kept(f) \in Int /\ Is(Programs[b.file].interp, f) \in Int
        BY DEF Denials, Kept, Is
      <4> HIDE DEF Denials, Kept, Is, Plus
      <4> QED BY <4>1, <4>2, <4>3, <4>4, <3>1 DEF FilesExact
    <3>2. (pc \in {"user", "dead"} => mem = {} /\ ~update)'
      BY <1>9, <2>1 DEF ElfInterp
    <3> QED BY <3>1, <3>2 DEF FilesExact
  <2>2. CASE pc' = "out_free_dentry"
    <3>1. ASSUME NEW f \in Files
          PROVE  /\ wcount'[f] = (IF f \in writers' THEN 1 ELSE -Denials(f)')
                 /\ fref'[f] = Denials(f)' + Kept(f)'
                 /\ f \in writers' => Denials(f)' = 0
      <4>b. b' = [b EXCEPT !.elf = Programs[b.file].interp, !.failed = TRUE]
        BY <1>9, <2>2 DEF ElfInterp
      <4>0. /\ pc = "elf_interp" /\ pc' = "out_free_dentry"
            /\ b'.file = b.file /\ b'.exe = b.exe /\ b'.executable = b.executable /\ mm' =
                 mm
            /\ b'.elf = Programs[b.file].interp /\ b.elf = Null /\ fds' = fds
        BY <4>b, <1>9, <2>2 DEF ElfInterp
      <4>1. Denials(f)' = Denials(f) + Is(Programs[b.file].interp, f) /\ Kept(f)' = Kept(f)
        BY <4>0, <3>1 DEF Denials, Kept, Is
      <4>2. /\ wcount'[f] = wcount[f] - Is(Programs[b.file].interp, f)
            /\ fref'[f] = fref[f] + Is(Programs[b.file].interp, f)
            /\ writers' = writers
        BY <1>9, <2>2, <3>1 DEF ElfInterp
      <4>3. f \in writers => Is(Programs[b.file].interp, f) = 0
        BY <1>9, <2>2, <3>1 DEF ElfInterp
      <4>4. Denials(f) \in Int /\ Kept(f) \in Int /\ Is(Programs[b.file].interp, f) \in Int
        BY DEF Denials, Kept, Is
      <4> HIDE DEF Denials, Kept, Is, Plus
      <4> QED BY <4>1, <4>2, <4>3, <4>4, <3>1 DEF FilesExact
    <3>2. (pc \in {"user", "dead"} => mem = {} /\ ~update)'
      BY <1>9, <2>2 DEF ElfInterp
    <3> QED BY <3>1, <3>2 DEF FilesExact
  <2>3. CASE pc' = "out_free_ph"
    <3>1. ASSUME NEW f \in Files
          PROVE  /\ wcount'[f] = (IF f \in writers' THEN 1 ELSE -Denials(f)')
                 /\ fref'[f] = Denials(f)' + Kept(f)'
                 /\ f \in writers' => Denials(f)' = 0
      BY <1>9, <2>3, <3>1 DEF ElfInterp
    <3>2. (pc \in {"user", "dead"} => mem = {} /\ ~update)'
      BY <1>9, <2>3 DEF ElfInterp
    <3> QED BY <3>1, <3>2 DEF FilesExact
  <2> QED BY <1>9, <2>1, <2>2, <2>3 DEF ElfInterp
<1>10. CASE ElfHeaders BY <1>10 DEF ElfHeaders
<1>11. CASE ElfCheck BY <1>11 DEF ElfCheck
<1>12. CASE BprmCredsFromFile BY <1>12 DEF BprmCredsFromFile
<1>13. CASE DeThread BY <1>13 DEF DeThread
<1>14. CASE SetMmExeFile BY <1>14 DEF SetMmExeFile
<1>15. CASE ExecUpdateLock BY <1>15 DEF ExecUpdateLock
<1>16. CASE ExecMmap
  <2>1. CASE pc' = "sighand"
    <3>1. ASSUME NEW f \in Files
          PROVE  /\ wcount'[f] = (IF f \in writers' THEN 1 ELSE -Denials(f)')
                 /\ fref'[f] = Denials(f)' + Kept(f)'
                 /\ f \in writers' => Denials(f)' = 0
      <4>b. /\ b' = [b EXCEPT !.mm = FALSE, !.exe = Null]
            /\ mm' = [exec |-> execs, exe |-> b.exe]
        BY <1>16, <2>1 DEF ExecMmap
      <4>0. /\ pc = "mmap"
            /\ pc' = "sighand"
            /\ mm'.exe = b.exe
            /\ b'.exe = Null
            /\ b.exe # Null
            /\ b'.file = b.file /\ b'.executable = b.executable /\ b'.elf = b.elf /\ fds'
                 = fds
        BY <4>b, <1>16, <2>1 DEF ExecMmap
      <4>1. Denials(f)' = Denials(f) - Is(mm.exe, f) /\ Kept(f)' = Kept(f)
        BY <4>0, <3>1 DEF Denials, Kept, Is
      <4>2. /\ wcount'[f] = wcount[f] + Is(mm.exe, f)
            /\ fref'[f] = fref[f] - Is(mm.exe, f)
            /\ writers' = writers
        BY <1>16, <2>1, <3>1 DEF ExecMmap
      <4>3. f \in writers => Is(mm.exe, f) = 0
        BY <1>16, <2>1, <3>1 DEF ExecMmap
      <4>4. Denials(f) \in Int /\ Kept(f) \in Int /\ Is(mm.exe, f) \in Int
        BY DEF Denials, Kept, Is
      <4> HIDE DEF Denials, Kept, Is, Plus
      <4> QED BY <4>1, <4>2, <4>3, <4>4, <3>1 DEF FilesExact
    <3>2. (pc \in {"user", "dead"} => mem = {} /\ ~update)'
      BY <1>16, <2>1 DEF ExecMmap
    <3> QED BY <3>1, <3>2 DEF FilesExact
  <2>2. CASE pc' = "out_free_dentry"
    <3>1. ASSUME NEW f \in Files
          PROVE  /\ wcount'[f] = (IF f \in writers' THEN 1 ELSE -Denials(f)')
                 /\ fref'[f] = Denials(f)' + Kept(f)'
                 /\ f \in writers' => Denials(f)' = 0
      BY <1>16, <2>2, <3>1 DEF ExecMmap
    <3>2. (pc \in {"user", "dead"} => mem = {} /\ ~update)'
      BY <1>16, <2>2 DEF ExecMmap
    <3> QED BY <3>1, <3>2 DEF FilesExact
  <2> QED BY <1>16, <2>1, <2>2 DEF ExecMmap
<1>17. CASE UnshareSighand
  <2>1. CASE pc' = "commit"
    <3>1. ASSUME NEW f \in Files
          PROVE  /\ wcount'[f] = (IF f \in writers' THEN 1 ELSE -Denials(f)')
                 /\ fref'[f] = Denials(f)' + Kept(f)'
                 /\ f \in writers' => Denials(f)' = 0
      BY <1>17, <2>1, <3>1 DEF UnshareSighand, KeepsLock
    <3>2. (pc \in {"user", "dead"} => mem = {} /\ ~update)'
      BY <1>17, <2>1 DEF UnshareSighand, KeepsLock
    <3> QED BY <3>1, <3>2 DEF FilesExact
  <2>2. CASE pc' = "out_free_dentry"
    <3>1. ASSUME NEW f \in Files
          PROVE  /\ wcount'[f] = (IF f \in writers' THEN 1 ELSE -Denials(f)')
                 /\ fref'[f] = Denials(f)' + Kept(f)'
                 /\ f \in writers' => Denials(f)' = 0
      BY <1>17, <2>2, <3>1 DEF UnshareSighand, KeepsLock
    <3>2. (pc \in {"user", "dead"} => mem = {} /\ ~update)'
      BY <1>17, <2>2 DEF UnshareSighand, KeepsLock
    <3> QED BY <3>1, <3>2 DEF FilesExact
  <2> QED BY <1>17, <2>1, <2>2 DEF UnshareSighand, KeepsLock
<1>18. CASE CommitCreds BY <1>18 DEF CommitCreds
<1>19. CASE ExecFd
  <2>1. CASE pc' = "setup"
    <3>1. ASSUME NEW f \in Files
          PROVE  /\ wcount'[f] = (IF f \in writers' THEN 1 ELSE -Denials(f)')
                 /\ fref'[f] = Denials(f)' + Kept(f)'
                 /\ f \in writers' => Denials(f)' = 0
      BY <1>19, <2>1, <3>1 DEF ExecFd
    <3>2. (pc \in {"user", "dead"} => mem = {} /\ ~update)'
      BY <1>19, <2>1 DEF ExecFd
    <3> QED BY <3>1, <3>2 DEF FilesExact
  <2>2. CASE pc' = "out_free_dentry"
    <3>1. ASSUME NEW f \in Files
          PROVE  /\ wcount'[f] = (IF f \in writers' THEN 1 ELSE -Denials(f)')
                 /\ fref'[f] = Denials(f)' + Kept(f)'
                 /\ f \in writers' => Denials(f)' = 0
      BY <1>19, <2>2, <3>1 DEF ExecFd
    <3>2. (pc \in {"user", "dead"} => mem = {} /\ ~update)'
      BY <1>19, <2>2 DEF ExecFd
    <3> QED BY <3>1, <3>2 DEF FilesExact
  <2> QED BY <1>19, <2>1, <2>2 DEF ExecFd
<1>20. CASE SetupNewExec BY <1>20 DEF SetupNewExec
<1>21. CASE ElfMap BY <1>21 DEF ElfMap
<1>22. CASE ElfMapped BY <1>22 DEF ElfMapped, ElfMem
<1>23. CASE CreateElfTables BY <1>23 DEF CreateElfTables, LastLabel
<1>24. CASE OutFreeDentry BY <1>24 DEF OutFreeDentry
<1>25. CASE OutFreePh BY <1>25 DEF OutFreePh
<1>26. CASE Out BY <1>26 DEF Out, Doomed
<1>27. CASE FreeBprm
  <2>1. ASSUME NEW f \in Files
        PROVE  /\ wcount'[f] = (IF f \in writers' THEN 1 ELSE -Denials(f)')
               /\ fref'[f] = Denials(f)' + Kept(f)'
               /\ f \in writers' => Denials(f)' = 0
    <3>1. wcount'[f] = (IF f \in writers' THEN 1 ELSE -Denials(f)')
      BY <1>27, <2>1 DEF FreeBprm, Is
    <3>2. fref'[f] = Denials(f)' + Kept(f)'
      BY <1>27, <2>1 DEF FreeBprm, Is
    <3>3. f \in writers' => Denials(f)' = 0
      BY <1>27, <2>1 DEF FreeBprm, Is
    <3> QED BY <3>1, <3>2, <3>3
  <2>2. (pc \in {"user", "dead"} => mem = {} /\ ~update)'
    BY <1>27 DEF FreeBprm, Is
  <2> QED BY <2>1, <2>2 DEF FilesExact
<1>28. CASE Return BY <1>28 DEF Return
<1>29. CASE Kill BY <1>29 DEF Kill
<1>30. ASSUME NEW f \in Files, Exec(f) PROVE FilesExact' BY <1>30 DEF Exec
<1>31. ASSUME NEW f \in Files, Write(f) PROVE FilesExact' BY <1>31 DEF Write
<1>32. ASSUME NEW r \in Readers, MmAccess(r) PROVE FilesExact'
  BY <1>32 DEF MmAccess, Reader
<1>33. ASSUME NEW r \in Readers, GetTaskMm(r) PROVE FilesExact'
  BY <1>33 DEF GetTaskMm, Reader
<1>34. ASSUME NEW r \in Readers, PtraceMayAccess(r) PROVE FilesExact'
  BY <1>34 DEF PtraceMayAccess, Reader
<1>35. ASSUME NEW r \in Readers, UpRead(r) PROVE FilesExact' BY <1>35 DEF UpRead, Reader
<1> QED
  BY <1>1, <1>2, <1>3, <1>4, <1>5, <1>6, <1>7, <1>8, <1>9, <1>10, <1>11, <1>12,
     <1>13, <1>14, <1>15, <1>16, <1>17, <1>18, <1>19, <1>20, <1>21, <1>22, <1>23, <1>24,
     <1>25, <1>26, <1>27, <1>28, <1>29, <1>30, <1>31, <1>32, <1>33, <1>34, <1>35
  DEF Next, Step, Read

\* Nothing changes when the variables do not.
LEMMA LoadStutter == ASSUME LoadInv, UNCHANGED vars PROVE LoadInv'
  BY DEF vars, LoadInv, LoadTypes, BprmExact, MemoryExact, UpdateExact, FailureExact,
         ProgramExact, SeenExact, FilesExact, Denials, Kept

\* The task runs its first program.
LEMMA LoadInit == ASSUME ConstantsOK, Init PROVE LoadInv
<1> USE DEF ConstantsOK, Init, NoBprm
<1>0. b \in Bprm
  BY DEF Bprm, OrNull
<1>c. mm \in [exec : Nat, exe : Files] /\ mem \subseteq MemNames /\ pc \in Pcs
  BY DEF Pcs
<1>s. seen \in [Readers -> Nat \X Nat]
  OBVIOUS
<1>w. fref \in [Files -> Int] /\ wcount \in [Files -> Int]
  OBVIOUS
<1>1. LoadTypes
  BY <1>0, <1>c, <1>s, <1>w DEF LoadTypes
<1>2. BprmExact
  BY DEF BprmExact, EarlyPcs, FindPcs, CheckPcs, NewMmPcs, NewCredPcs, GoPcs
<1>3. MemoryExact
  BY DEF MemoryExact
<1>4. UpdateExact /\ SeenExact
  BY DEF UpdateExact, UpdatePcs, SeenExact
<1>5. FailureExact /\ ProgramExact
  BY DEF FailureExact, ProgramExact, EarlyPcs, FindPcs, CheckPcs, NewMmPcs, NewCredPcs,
         UpdatePcs, OutPcs, EndPcs, GoPcs
<1>6. FilesExact
  BY DEF FilesExact, Denials, Kept, Is, ElfPcs
<1> QED BY <1>1, <1>2, <1>3, <1>4, <1>5, <1>6 DEF LoadInv

\* LoadInv is inductive (do_execveat_common, load_elf_binary, begin_new_exec,
\* free_bprm, mm_access).
THEOREM LoadInvariant == ASSUME ConstantsOK PROVE Spec => []LoadInv
<1>1. Init => LoadInv
  BY LoadInit
<1>2. LoadInv /\ [Next]_vars => LoadInv'
  <2>1. ASSUME LoadInv, Next PROVE LoadInv'
    BY <2>1, LoadTypesStep, BprmExactStep, MemoryExactStep, UpdateExactStep,
       FailureExactStep, ProgramExactStep, SeenExactStep, FilesExactStep DEF LoadInv
  <2> QED BY <2>1, LoadStutter
<1> QED BY <1>1, <1>2, PTL DEF Spec

\* Whatever the programs, and whatever fails, every reference to a file and every
\* denial of writing is that of the exec or of the running program, and a call
\* that has ended leaves nothing behind (free_bprm, exec_binprm, load_elf_binary,
\* set_mm_exe_file).
THEOREM LoadFilesExact == ASSUME ConstantsOK PROVE Spec => []FilesExact
<1>1. LoadInv => FilesExact
  BY DEF LoadInv
<1> QED BY <1>1, LoadInvariant, PTL

\* An exec that returns an error has changed neither the memory nor the
\* credentials, and no reader sees those of two programs (bprm_execve, exec_mmap,
\* setup_new_exec, mm_access).
THEOREM LoadIsSound == ASSUME ConstantsOK PROVE Spec => []LoadSound
<1>1. LoadInv => ErrorLeavesOld
  BY DEF LoadInv, FailureExact, ProgramExact, EndPcs, ErrorLeavesOld
<1>2. LoadInv => CredsMatchMm
  BY DEF LoadInv, LoadTypes, UpdateExact, ProgramExact, SeenExact, CredsMatchMm
<1>3. LoadInv => LoadSound
  BY <1>1, <1>2 DEF LoadSound
<1> QED BY <1>3, LoadInvariant, PTL
=============================================================================
