-------------------------- MODULE CopyProcessProofs --------------------------
(***************************************************************************)
(* What tasks share is sound, for every set of tasks, of first parts and   *)
(* of system calls: ForkInv is inductive, and implies SharingSound.        *)
(*                                                                         *)
(* The argument.  A count changes in one place and by one task, so that    *)
(* the sets counted differ in that task only; what has to be known is that *)
(* the task was, or was not, in the set.  For a task that exits it is the  *)
(* label (TaskShape); for a call of unshare() that holds new structures,   *)
(* its step (MadeShape); for a new task, what the ladder has taken, which  *)
(* is what the stages before this one take (CopyShape) and what the labels *)
(* from this one on undo (UndoShape).  The two agree because of the order  *)
(* of the labels (LadderExact).  A parent finds its child (ParentsShape)   *)
(* because a task_struct is not reused while it is used (UsageExact).  An  *)
(* exec that found its fs_struct unshared has counted its users, all of    *)
(* which are in its group (ExecShape).                                     *)
(***************************************************************************)
EXTENDS CopyProcess, FiniteSetTheorems, WellFoundedInduction, TLAPS

\* The steps of a parent that has a new task, and of unshare().
ParentPcs == {"copy", "undo", "wake", "vfork", "vfork_killed"}
VforkPcs == {"vfork", "vfork_killed"}
MadeFsPcs == {"unshare_fd", "unshare_ns", "unshare_swap", "cleanup"}
MadeFilesPcs == {"unshare_ns", "unshare_swap", "cleanup"}
UnsharePcs == {"unshare_fs"} \cup MadeFsPcs
Pcs == {"user"} \cup ParentPcs \cup UnsharePcs \cup ExecPcs \cup ExitPcs

Takes == {Undos[j] : j \in 1 .. 19}
OrNone == Ids \cup {None}
Locals == [p : Tasks \cup {None}, flags : SUBSET Sharing, i : Nat, unsafe : BOOLEAN,
           new : [Kinds -> OrNone]]

\* The type of each variable.
ForkTypes ==
  /\ state \in [Tasks -> {"free", "new", "visible", "live"}]
  /\ parts \in [Tasks -> [Kinds -> OrNone]]
  /\ users \in [Kinds -> [Ids -> Int]]
  /\ live \in [Ids -> Int] /\ nr_threads \in Int
  /\ in_exec \in [Ids -> BOOLEAN]
  /\ own \in [Tasks -> SUBSET Takes]
  /\ usage \in [Tasks -> Int]
  /\ vfork_done \in [Tasks -> Tasks \cup {None}]
  /\ done \in [Tasks -> BOOLEAN]
  /\ killed \subseteq Tasks
  /\ step \in [Tasks -> Pcs]
  /\ lv \in [Tasks -> Locals]
  /\ todo \in [Tasks -> Seq(Calls)]

\* What a task has given away at each step of its exit.
Gone(l) ==
  CASE l = "exit_files" -> {"mm"}
    [] l = "exit_fs" -> {"mm", "files"}
    [] l = "exit_notify" -> {"mm", "files", "fs"}
    [] OTHER -> {}

\* A task has all its parts, but for those that its exit has given away; and only
\* a task that runs is in the kernel.
TaskShape ==
  \A k \in Tasks :
    /\ step[k] = "user" => lv[k] = Local
    /\ step[k] # "user" => state[k] = "live"
    /\ state[k] # "new" => own[k] = {}
    /\ state[k] = "free" => parts[k] = NoParts
    /\ state[k] # "free" =>
         \A kind \in Kinds : parts[k][kind] = None <=> kind \in Gone(step[k])

\* The structures that unshare() has made, at each of its steps.
MadeShape ==
  \A k \in Tasks : \A kind \in Kinds : lv[k].new[kind] # None =>
    \/ kind = "fs" /\ step[k] \in MadeFsPcs
    \/ kind = "files" /\ step[k] \in MadeFilesPcs

\* A parent has a child, and no other parent has it.
ParentsShape ==
  /\ \A t \in Tasks :
       /\ step[t] \in ParentPcs => lv[t].p \in Tasks
       /\ step[t] \notin ParentPcs => lv[t].p = None
       /\ step[t] \in {"copy", "undo"} => state[lv[t].p] = "new"
       /\ step[t] = "wake" => state[lv[t].p] = "visible"
  /\ \A t, u \in Tasks : lv[t].p # None /\ lv[t].p = lv[u].p => t = u

\* A task_struct is used by its task and by the parent that waits for it in vfork().
Awaited(k) == \E t \in Tasks : step[t] \in VforkPcs /\ lv[t].p = k
UsageExact ==
  \A k \in Tasks :
    usage[k] = (IF state[k] = "free" THEN 0 ELSE 1) + (IF Awaited(k) THEN 1 ELSE 0)

\* A completion that is done has been taken away from the child.
DoneShape ==
  \A t \in Tasks : done[t] =>
    step[t] \in VforkPcs /\ \A k \in Tasks : vfork_done[k] # t

\* What the stages before i take, and what the labels from i on undo.
Taken(i) == {"task"} \cup {Stages[j][1] : j \in 1 .. (i - 1)}
NotOwned == {"limits", "put_user"}
UndoneFrom(i) == {Undos[j] : j \in i .. 19}

\* At each stage of the copy, what is taken; what is not copied yet, or shared
\* with the threads of the group, is that of the parent.
CopyAt(t) ==
  step[t] = "copy" =>
    /\ lv[t].i \in 1 .. 21
    /\ own[lv[t].p] = {s \in Taken(lv[t].i) \ NotOwned : Has(t, s)}
    /\ \A kind \in Kinds :
         kind \notin Taken(lv[t].i) \/ ~Has(t, kind)
         => parts[lv[t].p][kind] = parts[t][kind]
CopyShape == \A t \in Tasks : CopyAt(t)

UndoAt(t) ==
  step[t] = "undo" =>
    /\ lv[t].i \in 1 .. 19
    /\ own[lv[t].p] = {s \in UndoneFrom(lv[t].i) : Has(t, s)}
UndoShape == \A t \in Tasks : UndoAt(t)

\* The signal_struct of a new process is nobody else's.
SignalShape ==
  \A k, u \in Tasks :
    state[k] = "new" /\ "signal" \in own[k] /\ u # k /\ Counted(u, "signal")
    => parts[u].signal # parts[k].signal

\* One thread of a group execs.  If its fs_struct was not shared, it is marked, and
\* all who have it are in the group.
ExecShape ==
  /\ \A t, u \in Tasks :
       step[t] \in ExecPcs /\ step[u] \in ExecPcs /\ parts[t].signal = parts[u].signal
       => t = u
  /\ \A t \in Tasks : step[t] \in ExecPcs /\ ~lv[t].unsafe =>
       /\ in_exec[parts[t].fs]
       /\ \A k \in Tasks :
            /\ lv[k].new.fs # parts[t].fs
            /\ parts[k].fs = parts[t].fs /\ Counted(k, "fs") =>
                 parts[k].signal = parts[t].signal /\ state[k] # "new"

\* The sets that the counts count.
Having(kind, id) == {k \in Tasks : parts[k][kind] = id /\ Counted(k, kind)}
Making(kind, id) == {k \in Tasks : lv[k].new[kind] = id}
LiveIn(id) == {k \in Tasks : parts[k].signal = id /\ Counted(k, "signal") /\ step[k] \notin ExitPcs}
Threads == {k \in Tasks : state[k] \in {"visible", "live"}}

UsersExact ==
  \A kind \in Kinds : \A id \in Ids :
    users[kind][id] = Cardinality(Having(kind, id)) + Cardinality(Making(kind, id))
LiveExact == \A id \in Ids : live[id] = Cardinality(LiveIn(id))
ThreadsExact == nr_threads = Cardinality(Threads)

Shape ==
  /\ TaskShape /\ MadeShape /\ ParentsShape /\ UsageExact /\ VforkValid /\ DoneShape
  /\ CopyShape /\ UndoShape /\ SignalShape /\ ExecShape

\* The inductive invariant.
ForkInv == ForkTypes /\ Shape /\ UsersExact /\ LiveExact /\ ThreadsExact /\ bug = FALSE

-----------------------------------------------------------------------------
(* The kinds of parts, the ladder, and counting.                             *)

LEMMA KindsAre == Kinds = {"files", "fs", "sighand", "signal", "mm"}
BY DEF Kinds, Flag

LEMMA LocalType ==
  ASSUME ForkConstantsOK
  PROVE  /\ NoParts \in [Kinds -> OrNone] /\ Local \in Locals
         /\ \A kind \in Kinds : NoParts[kind] = None
         /\ Local.p = None /\ Local.new = NoParts /\ Local.unsafe = FALSE /\ Local.i = 0
BY DEF NoParts, OrNone, Local, Locals

LEMMA LadderDomains == DOMAIN Ladder = 1 .. 21 /\ DOMAIN Undos = 1 .. 19
BY DEF Ladder, Stages, Undos

\* What each label undoes, and that no two undo the same.
LEMMA UndosAre ==
  /\ Undos[1] = "cgroup" /\ Undos[2] = "pidfd" /\ Undos[3] = "pid"
  /\ Undos[4] = "thread" /\ Undos[5] = "io" /\ Undos[6] = "namespaces"
  /\ Undos[7] = "mm" /\ Undos[8] = "signal" /\ Undos[9] = "sighand"
  /\ Undos[10] = "fs" /\ Undos[11] = "files" /\ Undos[12] = "semundo"
  /\ Undos[13] = "security" /\ Undos[14] = "audit" /\ Undos[15] = "perf"
  /\ Undos[16] = "policy" /\ Undos[17] = "delayacct" /\ Undos[18] = "creds"
  /\ Undos[19] = "task"
BY DEF Undos

LEMMA UndosDistinct == \A i, j \in 1 .. 19 : Undos[i] = Undos[j] => i = j
BY UndosAre

LEMMA PositionIs ==
  ASSUME NEW j \in 1 .. 19
  PROVE  Position(Undos[j]) = j
BY UndosDistinct, LadderDomains DEF Position

LEMMA UndoneNext ==
  ASSUME NEW i \in 1 .. 18
  PROVE  UndoneFrom(i) = {Undos[i]} \cup UndoneFrom(i + 1) /\ Undos[i] \notin UndoneFrom(i + 1)
BY UndosDistinct DEF UndoneFrom

LEMMA UndoneLast == UndoneFrom(19) = {"task"}
BY UndosAre DEF UndoneFrom

LEMMA TakenNext ==
  ASSUME NEW i \in 1 .. 21
  PROVE  Taken(i + 1) = Taken(i) \cup {Stages[i][1]}
<1>1. 1 .. ((i + 1) - 1) = (1 .. (i - 1)) \cup {i}
  OBVIOUS
<1> QED
  BY <1>1 DEF Taken

LEMMA StagesAre ==
  /\ Stages[1] = <<"creds", "task">> /\ Stages[2] = <<"limits", "creds">>
  /\ Stages[3] = <<"delayacct", "none">> /\ Stages[4] = <<"policy", "delayacct">>
  /\ Stages[5] = <<"perf", "policy">> /\ Stages[6] = <<"audit", "perf">>
  /\ Stages[7] = <<"security", "audit">> /\ Stages[8] = <<"semundo", "security">>
  /\ Stages[9] = <<"files", "semundo">> /\ Stages[10] = <<"fs", "files">>
  /\ Stages[11] = <<"sighand", "fs">> /\ Stages[12] = <<"signal", "sighand">>
  /\ Stages[13] = <<"mm", "signal">> /\ Stages[14] = <<"namespaces", "mm">>
  /\ Stages[15] = <<"io", "namespaces">> /\ Stages[16] = <<"thread", "io">>
  /\ Stages[17] = <<"pid", "thread">> /\ Stages[18] = <<"pidfd", "pid">>
  /\ Stages[19] = <<"put_user", "pidfd">> /\ Stages[20] = <<"cgroup", "pidfd">>
  /\ Stages[21] = <<"publish", "cgroup">>
BY DEF Stages

\* The labels undo, from the one that a stage jumps to, what the stages before it
\* have taken.
LEMMA LadderExact ==
  ASSUME NEW i \in 1 .. 21, Stages[i][2] # "none"
  PROVE  LET j == Position(Stages[i][2])
         IN j \in 1 .. 19 /\ Taken(i) \ NotOwned = UndoneFrom(j)
<1> DEFINE Same(k, j) == Taken(k) \ NotOwned = UndoneFrom(j)
<1> USE DEF NotOwned
<1>1. Same(1, 19)
  BY UndoneLast DEF Taken
<1>2. Same(2, 18)
  BY <1>1, TakenNext, UndoneNext, StagesAre, UndosAre
<1>3. Same(3, 18)
  BY <1>2, TakenNext, StagesAre
<1>4. Same(4, 17)
  BY <1>3, TakenNext, UndoneNext, StagesAre, UndosAre
<1>5. Same(5, 16)
  BY <1>4, TakenNext, UndoneNext, StagesAre, UndosAre
<1>6. Same(6, 15)
  BY <1>5, TakenNext, UndoneNext, StagesAre, UndosAre
<1>7. Same(7, 14)
  BY <1>6, TakenNext, UndoneNext, StagesAre, UndosAre
<1>8. Same(8, 13)
  BY <1>7, TakenNext, UndoneNext, StagesAre, UndosAre
<1>9. Same(9, 12)
  BY <1>8, TakenNext, UndoneNext, StagesAre, UndosAre
<1>10. Same(10, 11)
  BY <1>9, TakenNext, UndoneNext, StagesAre, UndosAre
<1>11. Same(11, 10)
  BY <1>10, TakenNext, UndoneNext, StagesAre, UndosAre
<1>12. Same(12, 9)
  BY <1>11, TakenNext, UndoneNext, StagesAre, UndosAre
<1>13. Same(13, 8)
  BY <1>12, TakenNext, UndoneNext, StagesAre, UndosAre
<1>14. Same(14, 7)
  BY <1>13, TakenNext, UndoneNext, StagesAre, UndosAre
<1>15. Same(15, 6)
  BY <1>14, TakenNext, UndoneNext, StagesAre, UndosAre
<1>16. Same(16, 5)
  BY <1>15, TakenNext, UndoneNext, StagesAre, UndosAre
<1>17. Same(17, 4)
  BY <1>16, TakenNext, UndoneNext, StagesAre, UndosAre
<1>18. Same(18, 3)
  BY <1>17, TakenNext, UndoneNext, StagesAre, UndosAre
<1>19. Same(19, 2)
  BY <1>18, TakenNext, UndoneNext, StagesAre, UndosAre
<1>20. Same(20, 2)
  BY <1>19, TakenNext, StagesAre
<1>21. Same(21, 1)
  BY <1>20, TakenNext, UndoneNext, StagesAre, UndosAre
<1> HIDE DEF Same
<1>22. CASE i = 1
  <2>1. Position(Stages[1][2]) = 19
    BY PositionIs, StagesAre, UndosAre
  <2> QED
    BY <1>1, <1>22, <2>1 DEF Same
<1>23. CASE i = 2
  <2>1. Position(Stages[2][2]) = 18
    BY PositionIs, StagesAre, UndosAre
  <2> QED
    BY <1>2, <1>23, <2>1 DEF Same
<1>25. CASE i = 4
  <2>1. Position(Stages[4][2]) = 17
    BY PositionIs, StagesAre, UndosAre
  <2> QED
    BY <1>4, <1>25, <2>1 DEF Same
<1>26. CASE i = 5
  <2>1. Position(Stages[5][2]) = 16
    BY PositionIs, StagesAre, UndosAre
  <2> QED
    BY <1>5, <1>26, <2>1 DEF Same
<1>27. CASE i = 6
  <2>1. Position(Stages[6][2]) = 15
    BY PositionIs, StagesAre, UndosAre
  <2> QED
    BY <1>6, <1>27, <2>1 DEF Same
<1>28. CASE i = 7
  <2>1. Position(Stages[7][2]) = 14
    BY PositionIs, StagesAre, UndosAre
  <2> QED
    BY <1>7, <1>28, <2>1 DEF Same
<1>29. CASE i = 8
  <2>1. Position(Stages[8][2]) = 13
    BY PositionIs, StagesAre, UndosAre
  <2> QED
    BY <1>8, <1>29, <2>1 DEF Same
<1>30. CASE i = 9
  <2>1. Position(Stages[9][2]) = 12
    BY PositionIs, StagesAre, UndosAre
  <2> QED
    BY <1>9, <1>30, <2>1 DEF Same
<1>31. CASE i = 10
  <2>1. Position(Stages[10][2]) = 11
    BY PositionIs, StagesAre, UndosAre
  <2> QED
    BY <1>10, <1>31, <2>1 DEF Same
<1>32. CASE i = 11
  <2>1. Position(Stages[11][2]) = 10
    BY PositionIs, StagesAre, UndosAre
  <2> QED
    BY <1>11, <1>32, <2>1 DEF Same
<1>33. CASE i = 12
  <2>1. Position(Stages[12][2]) = 9
    BY PositionIs, StagesAre, UndosAre
  <2> QED
    BY <1>12, <1>33, <2>1 DEF Same
<1>34. CASE i = 13
  <2>1. Position(Stages[13][2]) = 8
    BY PositionIs, StagesAre, UndosAre
  <2> QED
    BY <1>13, <1>34, <2>1 DEF Same
<1>35. CASE i = 14
  <2>1. Position(Stages[14][2]) = 7
    BY PositionIs, StagesAre, UndosAre
  <2> QED
    BY <1>14, <1>35, <2>1 DEF Same
<1>36. CASE i = 15
  <2>1. Position(Stages[15][2]) = 6
    BY PositionIs, StagesAre, UndosAre
  <2> QED
    BY <1>15, <1>36, <2>1 DEF Same
<1>37. CASE i = 16
  <2>1. Position(Stages[16][2]) = 5
    BY PositionIs, StagesAre, UndosAre
  <2> QED
    BY <1>16, <1>37, <2>1 DEF Same
<1>38. CASE i = 17
  <2>1. Position(Stages[17][2]) = 4
    BY PositionIs, StagesAre, UndosAre
  <2> QED
    BY <1>17, <1>38, <2>1 DEF Same
<1>39. CASE i = 18
  <2>1. Position(Stages[18][2]) = 3
    BY PositionIs, StagesAre, UndosAre
  <2> QED
    BY <1>18, <1>39, <2>1 DEF Same
<1>40. CASE i = 19
  <2>1. Position(Stages[19][2]) = 2
    BY PositionIs, StagesAre, UndosAre
  <2> QED
    BY <1>19, <1>40, <2>1 DEF Same
<1>41. CASE i = 20
  <2>1. Position(Stages[20][2]) = 2
    BY PositionIs, StagesAre, UndosAre
  <2> QED
    BY <1>20, <1>41, <2>1 DEF Same
<1>42. CASE i = 21
  <2>1. Position(Stages[21][2]) = 1
    BY PositionIs, StagesAre, UndosAre
  <2> QED
    BY <1>21, <1>42, <2>1 DEF Same
<1>43. CASE i = 3
  BY <1>43, StagesAre
<1> QED
  BY <1>22, <1>23, <1>25, <1>26, <1>27, <1>28, <1>29, <1>30, <1>31, <1>32, <1>33, <1>34, <1>35, <1>36, <1>37, <1>38, <1>39, <1>40, <1>41, <1>42, <1>43

LEMMA StageIs ==
  ASSUME NEW i \in 1 .. 21
  PROVE  /\ Stages[i][1] = "publish" <=> i = 21
         /\ Stages[i][1] \in Kinds => Stages[i][1] \notin Taken(i)
         /\ Stages[i][1] \in Kinds => Stages[i][1] \in Takes
         /\ Stages[i][1] \notin NotOwned \cup {"publish"} => Stages[i][1] \in Takes
         /\ Kinds \subseteq Taken(21) \ NotOwned
<1>1. /\ Stages[i][1] = "publish" <=> i = 21
      /\ Stages[i][1] \notin NotOwned \cup {"publish"} => Stages[i][1] \in Takes
  BY StagesAre, UndosAre DEF NotOwned, Takes
<1>2. Stages[i][1] \in Kinds => i \in 9 .. 13
  BY StagesAre, KindsAre
<1>3. ASSUME i \in 9 .. 13 PROVE Stages[i][1] \notin Taken(i)
  <2>1. \A j \in 1 .. 12 : j < i => Stages[j][1] # Stages[i][1] /\ "task" # Stages[i][1]
    BY <1>3, StagesAre
  <2> QED
    BY <1>3, <2>1 DEF Taken
<1>4. Kinds \subseteq Taken(21) \ NotOwned
  BY StagesAre, KindsAre DEF Taken, NotOwned
<1>5. Stages[i][1] \in Kinds => Stages[i][1] \notin NotOwned \cup {"publish"}
  BY KindsAre DEF NotOwned
<1> QED
  BY <1>1, <1>2, <1>3, <1>4, <1>5

One(P) == IF P THEN 1 ELSE 0

\* Two sets that differ at x only.
LEMMA CardDiff ==
  ASSUME NEW S, IsFiniteSet(S), NEW A \in SUBSET S, NEW B \in SUBSET S, NEW x,
         \A y \in S : y # x => (y \in A <=> y \in B)
  PROVE  /\ Cardinality(A) \in Nat /\ Cardinality(B) \in Nat
         /\ Cardinality(B) = Cardinality(A) - One(x \in A) + One(x \in B)
<1>1. IsFiniteSet(A) /\ IsFiniteSet(B)
  BY FS_Subset
<1>2. Cardinality(A) \in Nat /\ Cardinality(B) \in Nat
  BY <1>1, FS_CardinalityType
<1>3. A \ {x} = B \ {x}
  OBVIOUS
<1>4. ASSUME NEW C, IsFiniteSet(C), Cardinality(C) \in Nat
      PROVE  Cardinality(C \ {x}) = Cardinality(C) - One(x \in C)
  <2>1. CASE x \in C
    BY <1>4, <2>1, FS_RemoveElement DEF One
  <2>2. CASE x \notin C
    <3>1. C \ {x} = C
      BY <2>2
    <3> QED
      BY <1>4, <2>2, <3>1, SMTT(20) DEF One
  <2> QED
    BY <2>1, <2>2
<1>5. Cardinality(A) - One(x \in A) = Cardinality(B) - One(x \in B)
  BY <1>1, <1>2, <1>3, <1>4
<1> QED
  BY <1>2, <1>5 DEF One

-----------------------------------------------------------------------------
(* What the counts say, and which number a new structure has.                *)

LEMMA HavingFinite ==
  ASSUME ForkConstantsOK
  PROVE  /\ IsFiniteSet(Tasks)
         /\ \A kind, id : /\ IsFiniteSet(Having(kind, id)) /\ IsFiniteSet(Making(kind, id))
                          /\ Cardinality(Having(kind, id)) \in Nat
                          /\ Cardinality(Making(kind, id)) \in Nat
         /\ \A id : IsFiniteSet(LiveIn(id)) /\ Cardinality(LiveIn(id)) \in Nat
<1>1. \A S \in SUBSET Tasks : IsFiniteSet(S) /\ Cardinality(S) \in Nat
  BY FS_Subset, FS_CardinalityType DEF ForkConstantsOK
<1>2. \A kind, id : Having(kind, id) \in SUBSET Tasks /\ Making(kind, id) \in SUBSET Tasks
  BY DEF Having, Making
<1>3. \A id : LiveIn(id) \in SUBSET Tasks
  BY DEF LiveIn
<1> QED
  BY <1>1, <1>2, <1>3 DEF ForkConstantsOK

LEMMA NotEmpty ==
  ASSUME NEW S, IsFiniteSet(S), NEW x \in S
  PROVE  Cardinality(S) \in Nat /\ Cardinality(S) >= 1
BY FS_CardinalityType, FS_EmptySet

\* Who has a structure, or has made it, is counted.
LEMMA HolderCounted ==
  ASSUME ForkConstantsOK, UsersExact, NEW kind \in Kinds, NEW id \in Ids, NEW k \in Tasks,
         (parts[k][kind] = id /\ Counted(k, kind)) \/ lv[k].new[kind] = id
  PROVE  users[kind][id] \in Nat /\ users[kind][id] >= 1
<1>1. k \in Having(kind, id) \/ k \in Making(kind, id)
  BY DEF Having, Making
<1>2. Cardinality(Having(kind, id)) >= 1 \/ Cardinality(Making(kind, id)) >= 1
  BY <1>1, HavingFinite, NotEmpty
<1> QED
  BY <1>2, HavingFinite DEF UsersExact

\* The least of a set of numbers.
LEMMA NatLess ==
  \E R : IsWellFoundedOn(R, Nat) /\ \A i, j \in Nat : i < j => <<i, j>> \in R
<1>1. IsWellFoundedOn(OpToRel(<, Nat), Nat)
  BY NatLessThanWellFounded
<1>2. \A i, j \in Nat : i < j => <<i, j>> \in OpToRel(<, Nat)
  BY DEF OpToRel
<1> QED
  BY <1>1, <1>2, Zenon

LEMMA MinIs ==
  ASSUME NEW S, S \subseteq Nat, S # {}
  PROVE  Min(S) \in S /\ \A j \in S : Min(S) <= j
<1>1. PICK R : IsWellFoundedOn(R, Nat) /\ \A i, j \in Nat : i < j => <<i, j>> \in R
  BY NatLess
<1>2. PICK m \in S : \A j \in S : <<j, m>> \notin R
  BY <1>1, WFMin, ZenonT(30)
<1>3. ASSUME NEW j \in S PROVE m <= j
  <2>1. j \in Nat /\ m \in Nat /\ <<j, m>> \notin R
    BY <1>2
  <2>2. ~(j < m)
    BY <1>1, <2>1, Zenon
  <2> QED
    BY <2>1, <2>2
<1> QED
  BY <1>3 DEF Min

\* A new structure was nobody's.
LEMMA FreshIs ==
  ASSUME ForkConstantsOK, ForkTypes, UsersExact, NEW kind \in Kinds, Unused(kind) # {}
  PROVE  /\ Fresh(kind) \in Ids /\ Fresh(kind) # None /\ users[kind][Fresh(kind)] = 0
         /\ \A k \in Tasks : /\ ~(parts[k][kind] = Fresh(kind) /\ Counted(k, kind))
                             /\ lv[k].new[kind] # Fresh(kind)
<1>1. Unused(kind) \subseteq Nat
  BY DEF Unused, ForkConstantsOK
<1>3. Fresh(kind) \in Unused(kind)
  BY <1>1, MinIs DEF Fresh
<1>4. Fresh(kind) \in Ids /\ users[kind][Fresh(kind)] = 0
  BY <1>3 DEF Unused
<1>5. ASSUME NEW k \in Tasks,
             (parts[k][kind] = Fresh(kind) /\ Counted(k, kind)) \/ lv[k].new[kind] = Fresh(kind)
      PROVE  FALSE
  <2>1. users[kind][Fresh(kind)] >= 1
    BY <1>4, <1>5, HolderCounted
  <2> QED
    BY <1>4, <2>1
<1> QED
  BY <1>4, <1>5 DEF ForkConstantsOK

-----------------------------------------------------------------------------
(* A step that changes the parts of one task x, and what one task y has made. *)

Others(x) == \A k \in Tasks \ {x} :
               parts'[k] = parts[k] /\ state'[k] = state[k] /\ own'[k] = own[k]

LEMMA UsersKept ==
  ASSUME ForkConstantsOK, UsersExact, NEW x \in Tasks, NEW y \in Tasks, Others(x),
         \A k \in Tasks \ {y} : lv'[k].new = lv[k].new,
         \A kind \in Kinds : \A id \in Ids :
           users'[kind][id] = users[kind][id]
             - One(x \in Having(kind, id)) + One(x \in Having(kind, id)')
             - One(y \in Making(kind, id)) + One(y \in Making(kind, id)')
  PROVE  UsersExact'
<1> SUFFICES ASSUME NEW kind \in Kinds, NEW id \in Ids
             PROVE  users'[kind][id] = Cardinality(Having(kind, id)') + Cardinality(Making(kind, id)')
  BY DEF UsersExact
<1>1. \A k \in Tasks : k # x => (k \in Having(kind, id) <=> k \in Having(kind, id)')
  BY DEF Having, Counted, Others
<1>2. \A k \in Tasks : k # y => (k \in Making(kind, id) <=> k \in Making(kind, id)')
  BY DEF Making
<1>3. /\ Having(kind, id) \in SUBSET Tasks /\ Having(kind, id)' \in SUBSET Tasks
      /\ Making(kind, id) \in SUBSET Tasks /\ Making(kind, id)' \in SUBSET Tasks
  BY DEF Having, Making
<1>4. /\ Cardinality(Having(kind, id)) \in Nat /\ Cardinality(Having(kind, id)') \in Nat
      /\ Cardinality(Having(kind, id)')
           = Cardinality(Having(kind, id)) - One(x \in Having(kind, id)) + One(x \in Having(kind, id)')
  BY <1>1, <1>3, CardDiff DEF ForkConstantsOK
<1>5. /\ Cardinality(Making(kind, id)) \in Nat /\ Cardinality(Making(kind, id)') \in Nat
      /\ Cardinality(Making(kind, id)')
           = Cardinality(Making(kind, id)) - One(y \in Making(kind, id)) + One(y \in Making(kind, id)')
  <2> DEFINE A == Making(kind, id)
             B == Making(kind, id)'
  <2>1. A \in SUBSET Tasks /\ B \in SUBSET Tasks
    BY <1>3
  <2>2. \A k \in Tasks : k # y => (k \in A <=> k \in B)
    BY <1>2
  <2>3. IsFiniteSet(Tasks)
    BY DEF ForkConstantsOK
  <2> HIDE DEF A, B
  <2>4. /\ Cardinality(A) \in Nat /\ Cardinality(B) \in Nat
        /\ Cardinality(B) = Cardinality(A) - One(y \in A) + One(y \in B)
    BY <2>1, <2>2, <2>3, CardDiff
  <2> QED
    BY <2>4 DEF A, B
<1>6. users[kind][id] = Cardinality(Having(kind, id)) + Cardinality(Making(kind, id))
  BY DEF UsersExact
<1> QED
  BY <1>4, <1>5, <1>6 DEF One

LEMMA LiveKept ==
  ASSUME ForkConstantsOK, LiveExact, NEW x \in Tasks, Others(x),
         \A k \in Tasks \ {x} : step'[k] \in ExitPcs <=> step[k] \in ExitPcs,
         \A id \in Ids : live'[id] = live[id] - One(x \in LiveIn(id)) + One(x \in LiveIn(id)')
  PROVE  LiveExact'
<1> SUFFICES ASSUME NEW id \in Ids
             PROVE  live'[id] = Cardinality(LiveIn(id)')
  BY DEF LiveExact
<1>1. \A k \in Tasks : k # x => (k \in LiveIn(id) <=> k \in LiveIn(id)')
  BY DEF LiveIn, Counted, Others
<1>2. LiveIn(id) \in SUBSET Tasks /\ LiveIn(id)' \in SUBSET Tasks
  BY DEF LiveIn
<1>3. Cardinality(LiveIn(id)')
        = Cardinality(LiveIn(id)) - One(x \in LiveIn(id)) + One(x \in LiveIn(id)')
  BY <1>1, <1>2, CardDiff DEF ForkConstantsOK
<1>4. live[id] = Cardinality(LiveIn(id))
  BY DEF LiveExact
<1> QED
  BY <1>3, <1>4

LEMMA ThreadsKept ==
  ASSUME ForkConstantsOK, ThreadsExact, NEW x \in Tasks, Others(x),
         nr_threads' = nr_threads - One(x \in Threads) + One(x \in Threads')
  PROVE  ThreadsExact'
<1>1. \A k \in Tasks : k # x => (k \in Threads <=> k \in Threads')
  BY DEF Threads, Others
<1>2. Threads \in SUBSET Tasks /\ Threads' \in SUBSET Tasks
  BY DEF Threads
<1>3. Cardinality(Threads') = Cardinality(Threads) - One(x \in Threads) + One(x \in Threads')
  BY <1>1, <1>2, CardDiff DEF ForkConstantsOK
<1> QED
  BY <1>3 DEF ThreadsExact

Counts == UsersExact /\ LiveExact /\ ThreadsExact

LEMMA CountsSame ==
  ASSUME Counts,
         UNCHANGED <<state, parts, users, live, nr_threads, own>>,
         \A k \in Tasks : lv'[k].new = lv[k].new /\ (step'[k] \in ExitPcs <=> step[k] \in ExitPcs)
  PROVE  Counts'
<1>1. \A kind, id : Having(kind, id)' = Having(kind, id) /\ Making(kind, id)' = Making(kind, id)
  BY DEF Having, Making, Counted
<1>2. \A id : LiveIn(id)' = LiveIn(id)
  BY DEF LiveIn, Counted
<1>3. Threads' = Threads
  BY DEF Threads
<1> QED
  BY <1>1, <1>2, <1>3 DEF Counts, UsersExact, LiveExact, ThreadsExact

-----------------------------------------------------------------------------
(* What a step of t leaves alone.                                            *)

\* t is not a parent, before or after.
NotParent(t) ==
  /\ \A k \in Tasks \ {t} : step'[k] = step[k] /\ lv'[k] = lv[k] /\ parts'[k] = parts[k]
  /\ step[t] \notin ParentPcs /\ step'[t] \notin ParentPcs /\ lv'[t].p = None
  /\ state[t] = "live" /\ UNCHANGED own

LEMMA ParentsKeptFor ==
  ASSUME ForkConstantsOK, ForkTypes, Shape, NEW t \in Tasks, NotParent(t),
         \A k \in Tasks \ {t} : state'[k] = state[k] /\ usage'[k] = usage[k],
         usage'[t] = usage[t] - One(state'[t] = "free")
  PROVE  ParentsShape' /\ UsageExact' /\ CopyShape' /\ UndoShape'
<1>1. \A u \in Tasks : step'[u] \in ParentPcs => u # t /\ lv'[u] = lv[u] /\ step'[u] = step[u]
  BY DEF NotParent
<1>2. \A u \in Tasks : step'[u] \in {"copy", "undo", "wake"} =>
        step'[u] \in ParentPcs /\ lv[u].p \in Tasks /\ lv[u].p # t
  BY <1>1 DEF ParentPcs, NotParent, Shape, ParentsShape
<1>3. ParentsShape'
  <2>1. \A u \in Tasks : lv'[u].p # None => u # t /\ lv'[u] = lv[u] /\ step'[u] = step[u]
    BY DEF NotParent
  <2>2. \A u \in Tasks : step'[u] \notin ParentPcs => lv'[u].p = None
    BY DEF NotParent, Shape, ParentsShape
  <2> QED
    BY <1>1, <1>2, <2>1, <2>2 DEF ParentsShape, Shape
<1>4. \A k \in Tasks : Awaited(k)' <=> Awaited(k)
  BY DEF Awaited, NotParent, VforkPcs, ParentPcs
<1>5. UsageExact'
  <2> SUFFICES ASSUME NEW k \in Tasks
               PROVE  usage'[k] = (IF state'[k] = "free" THEN 0 ELSE 1) + (IF Awaited(k) THEN 1 ELSE 0)
    BY <1>4 DEF UsageExact
  <2>1. usage[k] = (IF state[k] = "free" THEN 0 ELSE 1) + (IF Awaited(k) THEN 1 ELSE 0)
    BY DEF UsageExact, Shape
  <2>2. CASE k = t
    BY <2>1, <2>2 DEF NotParent, One
  <2>3. CASE k # t
    BY <2>1, <2>3
  <2> QED
    BY <2>2, <2>3
<1>6. \A u \in Tasks : step'[u] \in {"copy", "undo"} =>
        /\ u # t /\ step[u] = step'[u] /\ lv'[u] = lv[u]
        /\ parts'[lv[u].p] = parts[lv[u].p] /\ parts'[u] = parts[u]
        /\ \A s : Has(u, s)' = Has(u, s)
  BY <1>1, <1>2 DEF NotParent, Has
<1>7. CopyShape'
  BY <1>6 DEF CopyShape, CopyAt, Shape, NotParent
<1>8. UndoShape'
  BY <1>6 DEF UndoShape, UndoAt, Shape, NotParent
<1> QED
  BY <1>3, <1>5, <1>7, <1>8

LEMMA ParentsKept ==
  ASSUME ForkConstantsOK, ForkTypes, Shape, NEW t \in Tasks, NotParent(t), UNCHANGED <<state, usage>>
  PROVE  ParentsShape' /\ UsageExact' /\ CopyShape' /\ UndoShape'
<1>1. usage'[t] = usage[t] - One(state'[t] = "free")
  BY DEF One, NotParent, ForkTypes
<1> QED
  BY <1>1, ParentsKeptFor

LEMMA VforkKept ==
  ASSUME ForkTypes, Shape, NEW t \in Tasks,
         \A k \in Tasks \ {t} : step'[k] = step[k] /\ lv'[k].p = lv[k].p,
         step[t] \notin VforkPcs, step'[t] \notin VforkPcs,
         UNCHANGED <<vfork_done, done>>
  PROVE  VforkValid' /\ DoneShape'
BY DEF VforkValid, DoneShape, VforkPcs, Shape

LEMMA SignalKept ==
  ASSUME Shape, UNCHANGED own,
         \A k \in Tasks : /\ state'[k] = "new" => state[k] = "new" /\ parts'[k] = parts[k]
                          /\ Counted(k, "signal")' => Counted(k, "signal") /\ parts'[k].signal = parts[k].signal
  PROVE  SignalShape'
BY DEF SignalShape, Shape

LEMMA ExecKept ==
  ASSUME Shape, UNCHANGED in_exec,
         \A k \in Tasks :
           /\ step'[k] \in ExecPcs => /\ step[k] \in ExecPcs /\ lv'[k].unsafe = lv[k].unsafe
                                      /\ parts'[k].fs = parts[k].fs
                                      /\ parts'[k].signal = parts[k].signal
           /\ Counted(k, "fs")' => /\ Counted(k, "fs") /\ parts'[k].fs = parts[k].fs
                                   /\ parts'[k].signal = parts[k].signal
                                   /\ state'[k] = "new" => state[k] = "new"
           /\ lv'[k].new.fs \in {lv[k].new.fs, None}
  PROVE  ExecShape'
<1>1. \A t \in Tasks : step[t] \in ExecPcs => parts[t].fs # None
  BY KindsAre DEF Shape, TaskShape, ExecPcs, Gone
<1> QED
  BY <1>1 DEF ExecShape, Shape

-----------------------------------------------------------------------------
(* The steps that share nothing and give nothing away.                       *)

LEMMA Beginning ==
  ASSUME ForkTypes, NEW t \in Tasks, NEW call, Begin(t, call)
  PROVE  /\ todo' \in [Tasks -> Seq(Calls)] /\ Head(todo[t]) \in Calls
         /\ Head(todo[t]).call = call /\ state[t] = "live" /\ step[t] = "user"
         /\ t \notin killed
<1>1. todo[t] \in Seq(Calls) /\ todo[t] # <<>>
  BY DEF ForkTypes, Begin
<1>2. Head(todo[t]) \in Calls /\ Tail(todo[t]) \in Seq(Calls)
  BY <1>1
<1> QED
  BY <1>2 DEF Begin, ForkTypes, InStep

LEMMA FlagsType ==
  ASSUME NEW c \in Calls, c.call \in {"clone", "unshare"}
  PROVE  c.flags \in SUBSET Sharing
BY DEF Calls

\* t moves to step l with the local variables r.
LEMMA QuietKept ==
  ASSUME ForkConstantsOK, ForkInv, NEW t \in Tasks, NEW l \in Pcs, NEW r \in Locals,
         state[t] = "live", step[t] \notin ParentPcs \cup ExitPcs, l \notin ParentPcs \cup ExitPcs,
         step' = [step EXCEPT ![t] = l], lv' = [lv EXCEPT ![t] = r],
         r.p = None, r.new = lv[t].new, l = "user" => r = Local,
         l \in ExecPcs => step[t] \in ExecPcs /\ r.unsafe = lv[t].unsafe,
         \A kind \in Kinds : r.new[kind] # None =>
           (kind = "fs" /\ l \in MadeFsPcs) \/ (kind = "files" /\ l \in MadeFilesPcs),
         killed' \subseteq Tasks, todo' \in [Tasks -> Seq(Calls)],
         UNCHANGED <<state, parts, users, live, nr_threads, in_exec, own, usage, vfork_done, done, bug>>
  PROVE  ForkInv'
<1> USE DEF ForkInv
<1>1. ForkTypes'
  BY DEF ForkTypes
<1>2. /\ \A k \in Tasks \ {t} : step'[k] = step[k] /\ lv'[k] = lv[k]
      /\ step'[t] = l /\ lv'[t] = r
  BY DEF ForkTypes
<1>3. Counts'
  <2>1. \A k \in Tasks : lv'[k].new = lv[k].new /\ (step'[k] \in ExitPcs <=> step[k] \in ExitPcs)
    BY <1>2
  <2> QED
    BY <2>1, CountsSame DEF Counts
<1>4. NotParent(t)
  BY <1>2 DEF NotParent
<1>5. ParentsShape' /\ UsageExact' /\ CopyShape' /\ UndoShape'
  BY <1>4, ParentsKept
<1>6. VforkValid' /\ DoneShape'
  BY <1>2, VforkKept DEF VforkPcs, ParentPcs
<1>7. SignalShape'
  <2>1. \A k \in Tasks : Counted(k, "signal")' <=> Counted(k, "signal")
    BY DEF Counted
  <2> QED
    BY <2>1, SignalKept
<1>8. ExecShape'
  <2>1. \A k \in Tasks : /\ Counted(k, "fs")' <=> Counted(k, "fs")
                         /\ lv'[k].new.fs = lv[k].new.fs
    BY <1>2 DEF Counted
  <2>2. \A k \in Tasks : step'[k] \in ExecPcs => step[k] \in ExecPcs /\ lv'[k].unsafe = lv[k].unsafe
    BY <1>2
  <2> QED
    BY <2>1, <2>2, ExecKept
<1>9. TaskShape'
  <2>1. Gone(l) = Gone(step[t])
    BY DEF Gone, ExitPcs
  <2> QED
    BY <1>2, <2>1 DEF TaskShape, Shape
<1>10. MadeShape'
  BY <1>2 DEF MadeShape, Shape
<1> QED
  BY <1>1, <1>3, <1>5, <1>6, <1>7, <1>8, <1>9, <1>10 DEF Shape, Counts

LEMMA UnshareStep ==
  ASSUME ForkConstantsOK, ForkInv, NEW t \in Tasks, Unshare(t)
  PROVE  ForkInv'
<1> DEFINE r == [Local EXCEPT !.flags = Head(todo[t]).flags]
<1>1. /\ todo' \in [Tasks -> Seq(Calls)] /\ Head(todo[t]) \in Calls
      /\ Head(todo[t]).call = "unshare" /\ state[t] = "live" /\ step[t] = "user"
  BY Beginning DEF Unshare, ForkInv
<1>2. Head(todo[t]).flags \in SUBSET Sharing
  BY <1>1, FlagsType
<1>3. r \in Locals /\ r.p = None /\ r.new = NoParts
  BY <1>2, LocalType DEF Locals
<1>4. lv[t] = Local
  BY <1>1 DEF ForkInv, Shape, TaskShape
<1>5. killed' \subseteq Tasks
  BY DEF Unshare, NoLife, ForkInv, ForkTypes
<1> HIDE DEF r
<1>6. "unshare_fs" \in Pcs /\ "unshare_fs" \notin ParentPcs \cup ExitPcs \cup ExecPcs
  BY DEF Pcs, UnsharePcs, ParentPcs, ExitPcs, ExecPcs
<1>7. step[t] \notin ParentPcs \cup ExitPcs
  BY <1>1 DEF ParentPcs, ExitPcs
<1>8. step' = [step EXCEPT ![t] = "unshare_fs"] /\ lv' = [lv EXCEPT ![t] = r]
  BY DEF Unshare, Move, Keep, r
<1>9. UNCHANGED <<state, parts, users, live, nr_threads, in_exec, own, usage, vfork_done, done, bug>>
  BY DEF Unshare, NoCopying, NoLife, NoParting
<1> QED
  BY <1>1, <1>3, <1>4, <1>5, <1>6, <1>7, <1>8, <1>9, LocalType, QuietKept

\* The steps of unshare() and exec that only move on.
LEMMA MovesOn ==
  ASSUME ForkConstantsOK, ForkInv, NEW t \in Tasks, NEW l \in Pcs, state[t] = "live",
         \/ step[t] \in ExecPcs /\ l \in ExecPcs
         \/ /\ step[t] \in UnsharePcs /\ l \in MadeFsPcs
            /\ step[t] \in MadeFilesPcs => l \in MadeFilesPcs
         \/ step[t] = "user" /\ l = "user",
         step' = [step EXCEPT ![t] = l], UNCHANGED lv,
         killed' \subseteq Tasks, todo' \in [Tasks -> Seq(Calls)],
         UNCHANGED <<state, parts, users, live, nr_threads, in_exec, own, usage, vfork_done, done, bug>>
  PROVE  ForkInv'
<1>1. step[t] \notin ParentPcs \cup ExitPcs /\ l \notin ParentPcs \cup ExitPcs
  BY DEF ParentPcs, ExitPcs, ExecPcs, UnsharePcs, MadeFsPcs
<1>2. /\ l = "user" => lv[t] = Local
      /\ l \in ExecPcs => step[t] \in ExecPcs
  BY DEF ExecPcs, UnsharePcs, MadeFsPcs, ForkInv, Shape, TaskShape
<1>3. lv[t].p = None
  BY <1>1 DEF ForkInv, Shape, ParentsShape
<1>4. lv[t] \in Locals /\ lv' = [lv EXCEPT ![t] = lv[t]]
  BY DEF ForkInv, ForkTypes
<1>5. \A kind \in Kinds : lv[t].new[kind] # None =>
        (kind = "fs" /\ l \in MadeFsPcs) \/ (kind = "files" /\ l \in MadeFilesPcs)
  BY DEF ForkInv, Shape, MadeShape, UnsharePcs, MadeFsPcs, MadeFilesPcs, ExecPcs
<1> QED
  BY <1>1, <1>2, <1>3, <1>4, <1>5, QuietKept

LEMMA UnshareRestStep ==
  ASSUME ForkConstantsOK, ForkInv, NEW t \in Tasks, UnshareRest(t)
  PROVE  ForkInv'
<1>1. PICK l \in {"unshare_swap", "cleanup"} : step' = [step EXCEPT ![t] = l]
  BY DEF UnshareRest, Move
<1>2. l \in Pcs /\ l \in MadeFsPcs /\ l \in MadeFilesPcs /\ "unshare_ns" \in UnsharePcs
  BY DEF Pcs, UnsharePcs, MadeFsPcs, MadeFilesPcs
<1>3. killed' \subseteq Tasks /\ todo' \in [Tasks -> Seq(Calls)]
  BY DEF UnshareRest, NoLife, ForkInv, ForkTypes
<1>4. state[t] = "live" /\ step[t] = "unshare_ns" /\ UNCHANGED lv
  BY DEF UnshareRest, InStep
<1>5. UNCHANGED <<state, parts, users, live, nr_threads, in_exec, own, usage, vfork_done, done, bug>>
  BY DEF UnshareRest, NoCopying, NoLife, NoParting
<1> QED
  BY <1>1, <1>2, <1>3, <1>4, <1>5, MovesOn

LEMMA ExecOpenStep ==
  ASSUME ForkConstantsOK, ForkInv, NEW t \in Tasks, ExecOpen(t)
  PROVE  ForkInv'
<1>1. PICK l \in {"exec_end", "dethread"} : step' = [step EXCEPT ![t] = l]
  BY DEF ExecOpen, Move
<1>2. l \in Pcs /\ l \in ExecPcs /\ "exec" \in ExecPcs
  BY DEF Pcs, ExecPcs
<1>3. killed' \subseteq Tasks /\ todo' \in [Tasks -> Seq(Calls)]
  BY DEF ExecOpen, NoLife, ForkInv, ForkTypes
<1>4. state[t] = "live" /\ step[t] = "exec" /\ UNCHANGED lv
  BY DEF ExecOpen, InStep
<1>5. UNCHANGED <<state, parts, users, live, nr_threads, in_exec, own, usage, vfork_done, done, bug>>
  BY DEF ExecOpen, NoCopying, NoLife, NoParting
<1> QED
  BY <1>1, <1>2, <1>3, <1>4, <1>5, MovesOn

LEMMA KillOthersStep ==
  ASSUME ForkConstantsOK, ForkInv, NEW t \in Tasks, KillOthers(t)
  PROVE  ForkInv'
<1>1. state[t] = "live" /\ step[t] = "dethread" /\ UNCHANGED lv
  BY DEF KillOthers, InStep
<1>2. PICK l \in {"exec_end", "dethread", "exec_files"} : step' = [step EXCEPT ![t] = l]
  BY <1>1 DEF KillOthers, Move, ForkInv, ForkTypes
<1>3. l \in Pcs /\ l \in ExecPcs /\ "dethread" \in ExecPcs
  BY DEF Pcs, ExecPcs
<1>4. killed' \subseteq Tasks /\ todo' \in [Tasks -> Seq(Calls)]
  BY DEF KillOthers, Peers, ForkInv, ForkTypes
<1>5. UNCHANGED <<state, parts, users, live, nr_threads, in_exec, own, usage, vfork_done, done, bug>>
  BY DEF KillOthers, NoCopying, NoParting
<1> QED
  BY <1>1, <1>2, <1>3, <1>4, <1>5, MovesOn

LEMMA KillGroupStep ==
  ASSUME ForkConstantsOK, ForkInv, NEW t \in Tasks, KillGroup(t)
  PROVE  ForkInv'
<1>1. todo' \in [Tasks -> Seq(Calls)] /\ state[t] = "live" /\ step[t] = "user"
  BY Beginning DEF KillGroup, ForkInv
<1>2. step' = [step EXCEPT ![t] = "user"] /\ UNCHANGED lv
  BY <1>1 DEF KillGroup, ForkInv, ForkTypes
<1>3. "user" \in Pcs
  BY DEF Pcs
<1>4. killed' \subseteq Tasks
  BY DEF KillGroup, Peers, ForkInv, ForkTypes
<1>5. UNCHANGED <<state, parts, users, live, nr_threads, in_exec, own, usage, vfork_done, done, bug>>
  BY DEF KillGroup, NoCopying, NoParting
<1> QED
  BY <1>1, <1>2, <1>3, <1>4, <1>5, MovesOn

-----------------------------------------------------------------------------
(* The steps of exec.                                                        *)

\* A live task that does not exit has all its parts, and is counted for them.
LEMMA LiveHas ==
  ASSUME ForkConstantsOK, ForkTypes, Shape, NEW t \in Tasks, state[t] \in {"visible", "live"},
         NEW kind \in Kinds, kind \notin Gone(step[t])
  PROVE  parts[t][kind] # None /\ parts[t][kind] \in Ids /\ Counted(t, kind)
<1>1. parts[t][kind] \in OrNone /\ TaskShape
  BY DEF ForkTypes, Shape
<1>2. parts[t][kind] # None
  BY <1>1 DEF TaskShape
<1> QED
  BY <1>1, <1>2 DEF Counted, OrNone

\* complete_vfork_done() takes the completion away from the child.
LEMMA MmReleaseKept ==
  ASSUME ForkConstantsOK, ForkTypes, Shape, NEW t \in Tasks, MmRelease(t),
         \A k \in Tasks \ {t} : step'[k] = step[k] /\ lv'[k].p = lv[k].p,
         step[t] \notin VforkPcs, step'[t] \notin VforkPcs
  PROVE  /\ vfork_done' \in [Tasks -> Tasks \cup {None}] /\ done' \in [Tasks -> BOOLEAN]
         /\ VforkValid' /\ DoneShape'
<1>1. vfork_done' \in [Tasks -> Tasks \cup {None}] /\ done' \in [Tasks -> BOOLEAN]
  BY DEF MmRelease, ForkTypes
<1>2. /\ \A k \in Tasks \ {t} : vfork_done'[k] = vfork_done[k]
      /\ vfork_done'[t] = None /\ None \notin Tasks
  BY DEF MmRelease, ForkTypes, ForkConstantsOK
<1>3. \A u \in Tasks : done'[u] <=> done[u] \/ u = vfork_done[t]
  BY <1>2 DEF MmRelease, ForkTypes
<1>4. \A k, u \in Tasks : vfork_done[k] = u => /\ step[u] \in VforkPcs /\ lv[u].p = k
                                               /\ u # t
  BY DEF Shape, VforkValid, VforkPcs
<1>5. VforkValid'
  <2> SUFFICES ASSUME NEW k \in Tasks, NEW u \in Tasks
               PROVE  /\ vfork_done'[k] = u => step'[u] \in VforkPcs /\ lv'[u].p = k
                      /\ step'[u] = "vfork" /\ lv'[u].p = k => done'[u] \/ vfork_done'[k] = u
    BY DEF VforkValid, VforkPcs
  <2>1. vfork_done'[k] = u => step'[u] \in VforkPcs /\ lv'[u].p = k
    BY <1>2, <1>4
  <2>2. ASSUME step'[u] = "vfork", lv'[u].p = k PROVE done'[u] \/ vfork_done'[k] = u
    <3>1. u # t /\ step[u] = "vfork" /\ lv[u].p = k
      BY <2>2 DEF VforkPcs
    <3>2. done[u] \/ vfork_done[k] = u
      BY <3>1 DEF Shape, VforkValid
    <3> QED
      BY <1>2, <1>3, <3>2
  <2> QED
    BY <2>1, <2>2
<1>6. DoneShape'
  <2> SUFFICES ASSUME NEW u \in Tasks, done'[u]
               PROVE  step'[u] \in VforkPcs /\ \A k \in Tasks : vfork_done'[k] # u
    BY DEF DoneShape
  <2>1. CASE done[u]
    BY <1>2, <2>1 DEF DoneShape, Shape
  <2>2. CASE u = vfork_done[t]
    BY <1>2, <1>4, <2>2
  <2> QED
    BY <1>3, <2>1, <2>2
<1> QED
  BY <1>1, <1>5, <1>6

\* A part of its own for t, which execs.
LEMMA OwnPartKept ==
  ASSUME ForkConstantsOK, ForkInv, NEW t \in Tasks, NEW kind \in {"files", "mm", "sighand"},
         NEW next \in ExecPcs, step[t] \in ExecPcs, state[t] = "live", OwnPart(t, kind, next)
  PROVE  /\ parts' \in [Tasks -> [Kinds -> OrNone]] /\ users' \in [Kinds -> [Ids -> Int]]
         /\ killed' \subseteq Tasks /\ step' \in [Tasks -> Pcs]
         /\ \A k \in Tasks \ {t} : step'[k] = step[k]
         /\ step'[t] \in ExecPcs
         /\ UNCHANGED <<state, live, nr_threads, in_exec, own, usage, lv, todo, bug>>
         /\ TaskShape' /\ MadeShape' /\ ParentsShape' /\ UsageExact' /\ CopyShape' /\ UndoShape'
         /\ SignalShape' /\ ExecShape' /\ Counts'
<1> USE DEF ForkInv
<1> DEFINE old == parts[t][kind]
<1>1. kind \in Kinds /\ "fs" \in Kinds /\ "signal" \in Kinds /\ kind # "fs" /\ kind # "signal"
  BY KindsAre
<1>2. UNCHANGED <<state, live, nr_threads, in_exec, own, usage, lv, todo, bug>>
  BY DEF OwnPart
<1>3. PICK l \in ExecPcs : step' = [step EXCEPT ![t] = l]
  BY DEF OwnPart, Move, ExecPcs
<1>4. /\ step' \in [Tasks -> Pcs] /\ step'[t] = l
      /\ \A k \in Tasks \ {t} : step'[k] = step[k]
      /\ killed' \subseteq Tasks
  BY <1>3 DEF ForkTypes, Pcs, OwnPart
<1>5. Gone(step[t]) = {} /\ Gone(l) = {}
  BY DEF Gone, ExecPcs
<1>6. old # None /\ old \in Ids /\ Counted(t, kind)
  BY <1>1, <1>5, LiveHas
<1>7. \/ UNCHANGED <<parts, users>>
      \/ /\ Unused(kind) # {}
         /\ parts' = [parts EXCEPT ![t][kind] = Fresh(kind)]
         /\ users' = [users EXCEPT ![kind][Fresh(kind)] = 1, ![kind][old] = @ - 1]
  BY DEF OwnPart
<1>8. /\ parts' \in [Tasks -> [Kinds -> OrNone]] /\ users' \in [Kinds -> [Ids -> Int]]
      /\ \A k \in Tasks \ {t} : parts'[k] = parts[k]
      /\ \A m \in Kinds \ {kind} : parts'[t][m] = parts[t][m] /\ users'[m] = users[m]
      /\ parts'[t][kind] # None
      /\ \A id \in Ids : users'[kind][id] = users[kind][id]
                           - One(parts[t][kind] = id) + One(parts'[t][kind] = id)
  <2>1. CASE UNCHANGED <<parts, users>>
    BY <1>1, <1>6, <2>1 DEF ForkTypes, One
  <2>2. CASE /\ Unused(kind) # {}
             /\ parts' = [parts EXCEPT ![t][kind] = Fresh(kind)]
             /\ users' = [users EXCEPT ![kind][Fresh(kind)] = 1, ![kind][old] = @ - 1]
    <3>1. Fresh(kind) \in Ids /\ Fresh(kind) # None /\ users[kind][Fresh(kind)] = 0
      BY <1>1, <2>2, FreshIs
    <3>2. users[kind][old] >= 1
      BY <1>1, <1>6, HolderCounted
    <3>3. Fresh(kind) # old
      BY <3>1, <3>2
    <3>4. /\ parts' \in [Tasks -> [Kinds -> OrNone]] /\ parts'[t][kind] = Fresh(kind)
          /\ \A k \in Tasks \ {t} : parts'[k] = parts[k]
          /\ \A m \in Kinds \ {kind} : parts'[t][m] = parts[t][m]
      BY <1>1, <2>2, <3>1 DEF ForkTypes, OrNone
    <3>5. /\ users' \in [Kinds -> [Ids -> Int]]
          /\ \A m \in Kinds \ {kind} : users'[m] = users[m]
          /\ users'[kind][Fresh(kind)] = 1 /\ users'[kind][old] = users[kind][old] - 1
          /\ \A id \in Ids \ {old, Fresh(kind)} : users'[kind][id] = users[kind][id]
      BY <1>1, <1>6, <2>2, <3>1, <3>3 DEF ForkTypes
    <3> HIDE DEF old
    <3>6. ASSUME NEW id \in Ids
          PROVE  users'[kind][id] = users[kind][id] - One(old = id) + One(Fresh(kind) = id)
      <4>1. users[kind][id] \in Int
        BY <1>1 DEF ForkTypes
      <4> QED
        BY <3>1, <3>2, <3>3, <3>5, <4>1 DEF One
    <3> QED
      BY <3>1, <3>4, <3>5, <3>6 DEF old
  <2> QED
    BY <1>7, <2>1, <2>2
<1>9. /\ parts'[t].fs = parts[t].fs /\ parts'[t].signal = parts[t].signal
      /\ \A k \in Tasks \ {t} : \A m \in Kinds : Counted(k, m)' <=> Counted(k, m)
      /\ \A m \in Kinds : Counted(t, m)' <=> Counted(t, m)
  BY <1>1, <1>2, <1>6, <1>8 DEF Counted
<1>10. Counts'
  <2>1. Others(t)
    BY <1>2, <1>8 DEF Others
  <2>2. ASSUME NEW m \in Kinds, NEW id \in Ids
        PROVE  users'[m][id] = users[m][id] - One(t \in Having(m, id)) + One(t \in Having(m, id)')
                 - One(t \in Making(m, id)) + One(t \in Making(m, id)')
    <3>1. t \in Making(m, id) <=> t \in Making(m, id)'
      BY <1>2 DEF Making
    <3>2. users[m][id] \in Int /\ users'[m][id] \in Int
      BY <1>8 DEF ForkTypes
    <3>3. t \in Having(m, id) <=> parts[t][m] = id /\ Counted(t, m)
      BY DEF Having
    <3>4. t \in Having(m, id)' <=> parts'[t][m] = id /\ Counted(t, m)
      BY <1>9 DEF Having
    <3>5. CASE m # kind
      <4>1. users'[m] = users[m] /\ (t \in Having(m, id) <=> t \in Having(m, id)')
        BY <1>8, <3>3, <3>4, <3>5
      <4> QED
        BY <3>1, <3>2, <4>1 DEF One
    <3>6. CASE m = kind
      <4>1. t \in Having(m, id) <=> parts[t][kind] = id
        BY <1>6, <3>3, <3>6
      <4>2. t \in Having(m, id)' <=> parts'[t][kind] = id
        <5>1. Counted(t, m)
          BY <1>6, <3>6
        <5>2. parts'[t][m] = parts'[t][kind]
          BY <3>6
        <5> QED
          BY <3>4, <5>1, <5>2
      <4>3. users'[m][id] = users[m][id] - One(parts[t][kind] = id) + One(parts'[t][kind] = id)
        BY <1>8, <3>6
      <4> HIDE DEF old
      <4> QED
        BY <3>1, <3>2, <4>1, <4>2, <4>3 DEF One
    <3> QED
      BY <3>5, <3>6
  <2>3. UsersExact'
    BY <1>2, <2>1, <2>2, UsersKept
  <2>4. \A id \in Ids : t \in LiveIn(id) <=> t \in LiveIn(id)'
    BY <1>1, <1>4, <1>9 DEF LiveIn, ExecPcs, ExitPcs
  <2>5. LiveExact'
    <3>1. \A id \in Ids : live[id] \in Int
      BY DEF ForkTypes
    <3>2. \A id \in Ids : live'[id] = live[id] - One(t \in LiveIn(id)) + One(t \in LiveIn(id)')
      BY <1>2, <2>4, <3>1 DEF One
    <3> QED
      BY <1>4, <2>1, <3>2, LiveKept
  <2>6. ThreadsExact'
    BY <1>2 DEF ThreadsExact, Threads
  <2> QED
    BY <2>3, <2>5, <2>6 DEF Counts
<1>11. ParentsShape' /\ UsageExact' /\ CopyShape' /\ UndoShape'
  <2>1. lv[t].p = None /\ step[t] \notin ParentPcs /\ l \notin ParentPcs
    BY DEF Shape, ParentsShape, ExecPcs, ParentPcs
  <2>2. NotParent(t)
    BY <1>2, <1>4, <1>8, <2>1 DEF NotParent
  <2> QED
    BY <1>2, <2>2, ParentsKept
<1>12. SignalShape'
  <2>1. \A k \in Tasks : parts'[k].signal = parts[k].signal
                         /\ (state'[k] = "new" => parts'[k] = parts[k])
    BY <1>2, <1>8, <1>9
  <2> QED
    BY <1>1, <1>2, <1>9, <2>1, SignalKept
<1>13. ExecShape'
  <2>1. \A k \in Tasks : /\ parts'[k].signal = parts[k].signal /\ parts'[k].fs = parts[k].fs
                         /\ Counted(k, "fs")' <=> Counted(k, "fs")
    BY <1>1, <1>8, <1>9
  <2>2. \A k \in Tasks : step'[k] \in ExecPcs => step[k] \in ExecPcs
    BY <1>4
  <2> QED
    BY <1>2, <2>1, <2>2, ExecKept
<1>14. TaskShape'
  <2>1. \A m \in Kinds : parts'[t][m] = None <=> parts[t][m] = None
    BY <1>6, <1>8
  <2>2. l # "user" /\ step[t] # "user"
    BY DEF ExecPcs
  <2> QED
    BY <1>2, <1>4, <1>5, <1>8, <2>1, <2>2 DEF TaskShape, Shape
<1>15. MadeShape'
  <2>1. step[t] \notin MadeFsPcs \cup MadeFilesPcs
    BY DEF ExecPcs, MadeFsPcs, MadeFilesPcs
  <2> QED
    BY <1>2, <1>4, <2>1 DEF MadeShape, Shape
<1> QED
  BY <1>2, <1>4, <1>8, <1>10, <1>11, <1>12, <1>13, <1>14, <1>15

LEMMA ExecOwnStep ==
  ASSUME ForkConstantsOK, ForkInv, NEW t \in Tasks, ExecFiles(t) \/ ExecMm(t) \/ ExecSighand(t)
  PROVE  ForkInv'
<1>1. PICK kind \in {"files", "mm", "sighand"}, next \in ExecPcs :
        /\ step[t] \in ExecPcs /\ state[t] = "live" /\ OwnPart(t, kind, next)
        /\ UNCHANGED <<vfork_done, done>> \/ MmRelease(t)
  BY DEF ExecFiles, ExecMm, ExecSighand, InStep, ExecPcs
<1>2. /\ parts' \in [Tasks -> [Kinds -> OrNone]] /\ users' \in [Kinds -> [Ids -> Int]]
      /\ killed' \subseteq Tasks /\ step' \in [Tasks -> Pcs]
      /\ \A k \in Tasks \ {t} : step'[k] = step[k]
      /\ step'[t] \in ExecPcs
      /\ UNCHANGED <<state, live, nr_threads, in_exec, own, usage, lv, todo, bug>>
      /\ TaskShape' /\ MadeShape' /\ ParentsShape' /\ UsageExact' /\ CopyShape' /\ UndoShape'
      /\ SignalShape' /\ ExecShape' /\ Counts'
  BY <1>1, OwnPartKept
<1>3. /\ vfork_done' \in [Tasks -> Tasks \cup {None}] /\ done' \in [Tasks -> BOOLEAN]
      /\ VforkValid' /\ DoneShape'
  <2>1. step[t] \notin VforkPcs /\ step'[t] \notin VforkPcs
    BY <1>1, <1>2 DEF ExecPcs, VforkPcs
  <2>2. CASE UNCHANGED <<vfork_done, done>>
    BY <1>2, <2>1, <2>2, VforkKept DEF ForkInv, ForkTypes
  <2>3. CASE MmRelease(t)
    BY <1>2, <2>1, <2>3, MmReleaseKept DEF ForkInv
  <2> QED
    BY <1>1, <2>2, <2>3
<1>4. ForkTypes'
  BY <1>2, <1>3 DEF ForkTypes, ForkInv
<1> QED
  BY <1>2, <1>3, <1>4 DEF ForkInv, Shape, Counts

\* The marks of other execs stay: two that are not shared are of one group.
LEMMA ExecEndStep ==
  ASSUME ForkConstantsOK, ForkInv, NEW t \in Tasks, ExecEnd(t)
  PROVE  ForkInv'
<1> USE DEF ForkInv
<1>1. /\ state[t] = "live" /\ step[t] = "exec_end"
      /\ in_exec' = [in_exec EXCEPT ![parts[t].fs] = FALSE]
      /\ step' = [step EXCEPT ![t] = "user"] /\ lv' = [lv EXCEPT ![t] = Local]
      /\ UNCHANGED <<state, parts, users, live, nr_threads, own, usage, vfork_done, done, killed, todo, bug>>
  BY DEF ExecEnd, InStep, End, Move, Keep, NoCopying, NoLife
<1>2. /\ \A k \in Tasks \ {t} : step'[k] = step[k] /\ lv'[k] = lv[k]
      /\ step'[t] = "user" /\ lv'[t] = Local
  BY <1>1 DEF ForkTypes
<1>3. ForkTypes'
  BY <1>1, LocalType DEF ForkTypes, Pcs
<1>4. \A kind \in Kinds : lv[t].new[kind] = None
  BY <1>1 DEF Shape, MadeShape, MadeFsPcs, MadeFilesPcs
<1>5. lv[t].new = NoParts
  BY <1>4 DEF NoParts, ForkTypes, Locals
<1>6. Counts'
  <2>1. \A k \in Tasks : lv'[k].new = lv[k].new /\ (step'[k] \in ExitPcs <=> step[k] \in ExitPcs)
    BY <1>1, <1>2, <1>5, LocalType DEF ExitPcs
  <2> QED
    BY <1>1, <2>1, CountsSame DEF Counts
<1>7. ParentsShape' /\ UsageExact' /\ CopyShape' /\ UndoShape'
  <2>1. NotParent(t)
    BY <1>1, <1>2, LocalType DEF NotParent, ParentPcs
  <2> QED
    BY <1>1, <2>1, ParentsKept
<1>8. VforkValid' /\ DoneShape'
  BY <1>1, <1>2, VforkKept DEF VforkPcs
<1>9. \A k \in Tasks : \A kind \in Kinds : Counted(k, kind)' <=> Counted(k, kind)
  BY <1>1 DEF Counted
<1>10. SignalShape'
  BY <1>1, <1>9, KindsAre, SignalKept
<1>11. ExecShape'
  <2>1. \A k \in Tasks : step'[k] \in ExecPcs => step[k] \in ExecPcs /\ k # t /\ lv'[k] = lv[k]
    BY <1>2 DEF ExecPcs
  <2>2. "fs" \in Kinds /\ "fs" \notin Gone(step[t])
    BY <1>1, KindsAre DEF Gone
  <2>3. parts[t].fs # None /\ parts[t].fs \in Ids /\ Counted(t, "fs")
    BY <1>1, <2>2, LiveHas
  <2>4. \A k \in Tasks : step[k] \in ExecPcs => parts[k].fs # None /\ parts[k].fs \in Ids
    <3>1. \A k \in Tasks : step[k] \in ExecPcs => state[k] = "live" /\ "fs" \notin Gone(step[k])
      BY DEF Shape, TaskShape, ExecPcs, Gone
    <3> QED
      BY <2>2, <3>1, LiveHas
  <2>5. \A k \in Tasks : step'[k] \in ExecPcs /\ ~lv'[k].unsafe => parts[k].fs # parts[t].fs
    BY <1>1, <2>1, <2>3 DEF Shape, ExecShape, ExecPcs
  <2>6. \A k \in Tasks : lv'[k].new.fs = lv[k].new.fs
    BY <1>2, <1>5, LocalType
  <2> QED
    BY <1>1, <1>9, <2>1, <2>2, <2>4, <2>5, <2>6 DEF ExecShape, Shape, ForkTypes
<1>12. TaskShape'
  BY <1>1, <1>2 DEF TaskShape, Shape, Gone
<1>13. MadeShape'
  BY <1>1, <1>2, LocalType DEF MadeShape, Shape
<1> QED
  BY <1>1, <1>3, <1>6, <1>7, <1>8, <1>10, <1>11, <1>12, <1>13 DEF Shape, Counts

\* An fs_struct whose users are no more than those in the group is theirs only.
LEMMA GroupAlone ==
  ASSUME ForkConstantsOK, ForkInv, NEW t \in Tasks, state[t] = "live", step[t] = "user",
         ~(users.fs[parts[t].fs] > Cardinality({k \in {t} \cup Peers(t) : parts[k].fs = parts[t].fs}))
  PROVE  \A k \in Tasks :
           /\ lv[k].new.fs # parts[t].fs
           /\ parts[k].fs = parts[t].fs /\ Counted(k, "fs") => k \in {t} \cup Peers(t)
<1> DEFINE f == parts[t].fs
           G == {k \in {t} \cup Peers(t) : parts[k].fs = f}
<1>1. "fs" \in Kinds /\ "fs" \notin Gone(step[t])
  BY KindsAre DEF Gone
<1>2. f # None /\ f \in Ids
  BY <1>1, LiveHas DEF ForkInv
<1>3. G \subseteq Having("fs", f)
  BY <1>2 DEF Having, Counted, Peers
<1>4. IsFiniteSet(Having("fs", f)) /\ Cardinality(Having("fs", f)) \in Nat
      /\ IsFiniteSet(Making("fs", f)) /\ Cardinality(Making("fs", f)) \in Nat
  BY HavingFinite
<1>5. users.fs[f] = Cardinality(Having("fs", f)) + Cardinality(Making("fs", f))
  BY <1>1, <1>2 DEF ForkInv, UsersExact
<1>6. IsFiniteSet(G) /\ Cardinality(G) \in Nat /\ Cardinality(G) <= Cardinality(Having("fs", f))
  BY <1>3, <1>4, FS_Subset, FS_CardinalityType
<1>7. Cardinality(G) = Cardinality(Having("fs", f)) /\ Cardinality(Making("fs", f)) = 0
  <2>1. ~(users.fs[f] > Cardinality(G))
    OBVIOUS
  <2> HIDE DEF G, f
  <2> QED
    BY <1>4, <1>5, <1>6, <2>1
<1>8. G = Having("fs", f)
  BY <1>3, <1>4, <1>7, FS_Subset
<1>9. Making("fs", f) = {}
  BY <1>4, <1>7, FS_EmptySet
<1> QED
  BY <1>8, <1>9 DEF Having, Making

LEMMA ExecCheckStep ==
  ASSUME ForkConstantsOK, ForkInv, NEW t \in Tasks, ExecCheck(t)
  PROVE  ForkInv'
<1> USE DEF ForkInv
<1> DEFINE f == parts[t].fs
           shared == users.fs[f] > Cardinality({k \in {t} \cup Peers(t) : parts[k].fs = f})
           r == [Local EXCEPT !.unsafe = shared]
<1>1. /\ todo' \in [Tasks -> Seq(Calls)] /\ state[t] = "live" /\ step[t] = "user"
  BY Beginning DEF ExecCheck
<1>2. /\ \A k \in Peers(t) : step[k] \notin ExecPcs
      /\ in_exec' = IF shared THEN in_exec ELSE [in_exec EXCEPT ![f] = TRUE]
      /\ step' = [step EXCEPT ![t] = "exec"] /\ lv' = [lv EXCEPT ![t] = r]
      /\ UNCHANGED <<state, parts, users, live, nr_threads, own, usage, vfork_done, done, killed, bug>>
  BY DEF ExecCheck, Move, Keep, NoCopying, NoLife
<1>3. "fs" \in Kinds /\ "signal" \in Kinds /\ f # None /\ f \in Ids
  <2>1. "fs" \in Kinds /\ "signal" \in Kinds /\ "fs" \notin Gone(step[t])
    BY <1>1, KindsAre DEF Gone
  <2> QED
    BY <1>1, <2>1, LiveHas
<1>4. /\ r \in Locals /\ r.new = NoParts /\ r.p = None /\ r.unsafe = shared
      /\ lv[t].new = NoParts
  <2>1. shared \in BOOLEAN
    OBVIOUS
  <2> HIDE DEF shared
  <2> QED
    BY <1>1, <2>1, LocalType DEF Locals, Shape, TaskShape
<1>5. ~shared => \A k \in Tasks :
        /\ lv[k].new.fs # f
        /\ parts[k].fs = f /\ Counted(k, "fs") => k \in {t} \cup Peers(t)
  BY <1>1, GroupAlone
<1> HIDE DEF shared, r
<1>6. /\ \A k \in Tasks \ {t} : step'[k] = step[k] /\ lv'[k] = lv[k]
      /\ step'[t] = "exec" /\ lv'[t] = r
  BY <1>2 DEF ForkTypes
<1>7. ForkTypes'
  BY <1>1, <1>2, <1>3, <1>4 DEF ForkTypes, Pcs, ExecPcs
<1>8. Counts'
  <2>1. \A k \in Tasks : lv'[k].new = lv[k].new /\ (step'[k] \in ExitPcs <=> step[k] \in ExitPcs)
    BY <1>1, <1>4, <1>6 DEF ExitPcs
  <2> QED
    BY <1>2, <2>1, CountsSame DEF Counts
<1>9. ParentsShape' /\ UsageExact' /\ CopyShape' /\ UndoShape'
  <2>1. NotParent(t)
    BY <1>1, <1>2, <1>4, <1>6 DEF NotParent, ParentPcs
  <2> QED
    BY <1>2, <2>1, ParentsKept
<1>10. VforkValid' /\ DoneShape'
  BY <1>1, <1>2, <1>6, VforkKept DEF VforkPcs
<1>11. \A k \in Tasks : \A kind \in Kinds : Counted(k, kind)' <=> Counted(k, kind)
  BY <1>2 DEF Counted
<1>12. SignalShape'
  BY <1>2, <1>11, KindsAre, SignalKept
<1>13. ExecShape'
  <2>1. \A k \in Tasks : step'[k] \in ExecPcs => k = t \/ (step[k] \in ExecPcs /\ lv'[k] = lv[k])
    BY <1>6
  <2>2. \A k \in Tasks : step[k] \in ExecPcs => state[k] = "live"
    BY DEF Shape, TaskShape, ExecPcs
  <2>3. \A k \in Tasks : k # t /\ step[k] \in ExecPcs => parts[k].signal # parts[t].signal
    BY <1>2, <2>2 DEF Peers
  <2>4. \A k \in Tasks : lv'[k].new.fs = lv[k].new.fs
    BY <1>4, <1>6
  <2>5. \A k \in {t} \cup Peers(t) : parts[k].signal = parts[t].signal /\ state[k] # "new"
    BY <1>1 DEF Peers
  <2>6. /\ \A k, u \in Tasks :
             step'[k] \in ExecPcs /\ step'[u] \in ExecPcs /\ parts'[k].signal = parts'[u].signal
             => k = u
    BY <1>2, <2>1, <2>3 DEF ExecShape, Shape
  <2>7. ASSUME NEW u \in Tasks, step'[u] \in ExecPcs, ~lv'[u].unsafe
        PROVE  /\ in_exec'[parts'[u].fs]
               /\ \A k \in Tasks :
                    /\ lv'[k].new.fs # parts'[u].fs
                    /\ parts'[k].fs = parts'[u].fs /\ Counted(k, "fs")' =>
                         parts'[k].signal = parts'[u].signal /\ state'[k] # "new"
    <3>1. CASE u = t
      <4>1. ~shared
        BY <1>4, <1>6, <2>7, <3>1
      <4>2. in_exec'[f]
        BY <1>2, <1>3, <4>1 DEF ForkTypes
      <4> QED
        BY <1>2, <1>3, <1>5, <1>11, <2>4, <2>5, <3>1, <4>1, <4>2
    <3>2. CASE u # t
      <4>1. step[u] \in ExecPcs /\ ~lv[u].unsafe
        BY <2>1, <2>7, <3>2
      <4>2. in_exec'[parts[u].fs]
        BY <1>2, <1>3, <4>1 DEF ForkTypes, ExecShape, Shape
      <4> QED
        BY <1>2, <1>3, <1>11, <2>4, <4>1, <4>2 DEF ExecShape, Shape
    <3> QED
      BY <3>1, <3>2
  <2> QED
    BY <2>6, <2>7 DEF ExecShape
<1>14. TaskShape'
  BY <1>1, <1>2, <1>6 DEF TaskShape, Shape, Gone
<1>15. MadeShape'
  BY <1>2, <1>4, <1>6, LocalType DEF MadeShape, Shape
<1> QED
  BY <1>2, <1>7, <1>8, <1>9, <1>10, <1>12, <1>13, <1>14, <1>15 DEF Shape, Counts

-----------------------------------------------------------------------------
(* unshare()                                                                 *)

LEMMA UnshareCopyStep ==
  ASSUME ForkConstantsOK, ForkInv, NEW t \in Tasks, UnshareFs(t) \/ UnshareFd(t)
  PROVE  ForkInv'
<1> USE DEF ForkInv
<1>1. PICK kind \in {"fs", "files"}, next \in MadeFsPcs :
        /\ state[t] = "live" /\ UnshareCopy(t, kind, next, "cleanup")
        /\ \/ step[t] = "unshare_fs" /\ kind = "fs" /\ next = "unshare_fd"
           \/ step[t] = "unshare_fd" /\ kind = "files" /\ next = "unshare_ns"
  BY DEF UnshareFs, UnshareFd, InStep, MadeFsPcs
<1>2. /\ UNCHANGED <<state, parts, live, nr_threads, in_exec, own, usage, vfork_done, done, killed,
                     todo, bug>>
      /\ step[t] \in UnsharePcs /\ step[t] \notin MadeFilesPcs
      /\ \A l \in MadeFsPcs : l \in Pcs /\ l \notin ParentPcs \cup ExitPcs \cup ExecPcs /\ l # "user"
      /\ step[t] \notin ParentPcs \cup ExitPcs \cup ExecPcs \cup {"user"}
  BY <1>1 DEF UnshareCopy, NoCopying, NoLife, UnsharePcs, MadeFsPcs, MadeFilesPcs, Pcs,
              ParentPcs, ExitPcs, ExecPcs
<1>3. \/ UNCHANGED <<users, lv>> /\ \E l \in MadeFsPcs : step' = [step EXCEPT ![t] = l]
      \/ /\ Unused(kind) # {} /\ users' = [users EXCEPT ![kind][Fresh(kind)] = 1]
         /\ lv' = [lv EXCEPT ![t] = [lv[t] EXCEPT !.new[kind] = Fresh(kind)]]
         /\ step' = [step EXCEPT ![t] = next]
  BY <1>1 DEF UnshareCopy, Move, Keep, MadeFsPcs
<1>4. CASE UNCHANGED <<users, lv>> /\ \E l \in MadeFsPcs : step' = [step EXCEPT ![t] = l]
  BY <1>1, <1>2, <1>4, MovesOn DEF ForkTypes
<1>5. CASE /\ Unused(kind) # {} /\ users' = [users EXCEPT ![kind][Fresh(kind)] = 1]
           /\ lv' = [lv EXCEPT ![t] = [lv[t] EXCEPT !.new[kind] = Fresh(kind)]]
           /\ step' = [step EXCEPT ![t] = next]
  <2> DEFINE id0 == Fresh(kind)
             r == [lv[t] EXCEPT !.new[kind] = id0]
  <2>1. kind \in Kinds /\ "fs" \in Kinds
    BY KindsAre
  <2>2. /\ id0 \in Ids /\ id0 # None /\ users[kind][id0] = 0
        /\ \A k \in Tasks : ~(parts[k][kind] = id0 /\ Counted(k, kind)) /\ lv[k].new[kind] # id0
    BY <1>5, <2>1, FreshIs
  <2>3. lv[t].new[kind] = None
    BY <1>1, <2>1 DEF Shape, MadeShape, MadeFsPcs, MadeFilesPcs
  <2> HIDE DEF id0
  <2>4. /\ r \in Locals /\ r.new[kind] = id0 /\ r.p = lv[t].p
        /\ \A m \in Kinds \ {kind} : r.new[m] = lv[t].new[m]
    BY <2>1, <2>2 DEF ForkTypes, Locals, OrNone
  <2>5. lv' = [lv EXCEPT ![t] = r] /\ step' = [step EXCEPT ![t] = next]
    BY <1>5 DEF id0
  <2> HIDE DEF r
  <2>6. /\ \A k \in Tasks \ {t} : step'[k] = step[k] /\ lv'[k] = lv[k]
        /\ step'[t] = next /\ lv'[t] = r
    BY <2>5 DEF ForkTypes
  <2>7. /\ users' \in [Kinds -> [Ids -> Int]] /\ users'[kind][id0] = 1
        /\ \A m \in Kinds : \A id \in Ids :
             m # kind \/ id # id0 => users'[m][id] = users[m][id]
    BY <1>5, <2>1, <2>2 DEF ForkTypes, id0
  <2>8. ForkTypes'
    BY <1>2, <2>4, <2>5, <2>7 DEF ForkTypes
  <2>9. UsersExact'
    <3>1. Others(t)
      BY <1>2 DEF Others
    <3>2. ASSUME NEW m \in Kinds, NEW id \in Ids
          PROVE  users'[m][id] = users[m][id] - One(t \in Having(m, id)) + One(t \in Having(m, id)')
                   - One(t \in Making(m, id)) + One(t \in Making(m, id)')
      <4>1. t \in Having(m, id) <=> t \in Having(m, id)'
        BY <1>2 DEF Having, Counted
      <4>2. t \in Making(m, id) <=> lv[t].new[m] = id
        BY DEF Making
      <4>3. t \in Making(m, id)' <=> r.new[m] = id
        BY <2>6 DEF Making
      <4>4. users[m][id] \in Int /\ users'[m][id] \in Int
        BY <2>7 DEF ForkTypes
      <4>5. CASE m # kind
        <5>1. users'[m][id] = users[m][id] /\ r.new[m] = lv[t].new[m]
          BY <2>4, <2>7, <4>5
        <5>2. t \in Making(m, id) <=> t \in Making(m, id)'
          BY <4>2, <4>3, <5>1
        <5> QED
          BY <4>1, <4>4, <5>1, <5>2 DEF One
      <4>6. CASE m = kind
        <5>1. id # None
          BY DEF ForkConstantsOK
        <5>2. t \notin Making(m, id)
          BY <2>3, <4>2, <4>6, <5>1
        <5>3. t \in Making(m, id)' <=> id = id0
          BY <2>4, <4>3, <4>6
        <5>4. users'[m][id] = users[m][id] + One(id = id0)
          BY <2>2, <2>7, <4>4, <4>6 DEF One
        <5> QED
          BY <4>1, <4>4, <5>2, <5>3, <5>4 DEF One
      <4> QED
        BY <4>5, <4>6
    <3> QED
      BY <2>6, <3>1, <3>2, UsersKept
  <2>10. LiveExact' /\ ThreadsExact'
    <3>1. \A id : LiveIn(id)' = LiveIn(id)
      BY <1>1, <1>2, <2>6 DEF LiveIn, Counted
    <3> QED
      BY <1>2, <3>1 DEF LiveExact, ThreadsExact, Threads
  <2>11. ParentsShape' /\ UsageExact' /\ CopyShape' /\ UndoShape'
    <3>1. lv[t].p = None
      BY <1>2 DEF Shape, ParentsShape
    <3>2. NotParent(t)
      BY <1>1, <1>2, <2>4, <2>6, <3>1 DEF NotParent
    <3> QED
      BY <1>2, <3>2, ParentsKept
  <2>12. VforkValid' /\ DoneShape'
    BY <1>1, <1>2, <2>6, VforkKept DEF VforkPcs, ParentPcs
  <2>13. \A k \in Tasks : \A m \in Kinds : Counted(k, m)' <=> Counted(k, m)
    BY <1>2 DEF Counted
  <2>14. SignalShape'
    BY <1>2, <2>13, KindsAre, SignalKept
  <2>15. ExecShape'
    <3>1. \A u \in Tasks : step'[u] \in ExecPcs => u # t /\ step[u] \in ExecPcs /\ lv'[u] = lv[u]
      BY <1>1, <1>2, <2>6
    <3>2. \A u \in Tasks : step[u] \in ExecPcs => state[u] = "live" /\ "fs" \notin Gone(step[u])
      BY DEF Shape, TaskShape, ExecPcs, Gone
    <3>3. \A u \in Tasks : step[u] \in ExecPcs => Counted(u, "fs")
      BY <2>1, <3>2, LiveHas
    <3>4. \A u \in Tasks : step[u] \in ExecPcs => r.new.fs # parts[u].fs \/ r.new.fs = lv[t].new.fs
      BY <2>1, <2>2, <2>4, <3>3
    <3>5. \A k, u \in Tasks : step[u] \in ExecPcs /\ ~lv[u].unsafe => lv'[k].new.fs # parts[u].fs
      BY <2>6, <3>4 DEF Shape, ExecShape
    <3> QED
      BY <1>2, <2>1, <2>13, <3>1, <3>5 DEF ExecShape, Shape
  <2>16. TaskShape'
    BY <1>1, <1>2, <2>6 DEF TaskShape, Shape, Gone
  <2>17. MadeShape'
    <3>1. \A m \in Kinds : r.new[m] # None => m = kind \/ lv[t].new[m] # None
      BY <2>4
    <3> QED
      BY <1>1, <2>6, <3>1 DEF MadeShape, Shape, MadeFsPcs, MadeFilesPcs
  <2> QED
    BY <1>2, <2>8, <2>9, <2>10, <2>11, <2>12, <2>14, <2>15, <2>16, <2>17 DEF Shape
<1> QED
  BY <1>3, <1>4, <1>5

\* The counts after a set of kinds has been put.
LEMMA PutIs ==
  ASSUME ForkConstantsOK, NEW us \in [Kinds -> [Ids -> Int]], NEW ps \in [Kinds -> OrNone], NEW kinds
  PROVE  /\ Put(us, ps, kinds) \in [Kinds -> [Ids -> Int]]
         /\ \A m \in Kinds : \A id \in Ids :
              Put(us, ps, kinds)[m][id] =
                IF m \in kinds /\ ps[m] = id THEN us[m][id] - 1 ELSE us[m][id]
<1>1. ASSUME NEW m \in Kinds
      PROVE  /\ Put(us, ps, kinds)[m] \in [Ids -> Int]
             /\ \A id \in Ids : Put(us, ps, kinds)[m][id] =
                  IF m \in kinds /\ ps[m] = id THEN us[m][id] - 1 ELSE us[m][id]
  <2>1. us[m] \in [Ids -> Int] /\ ps[m] \in OrNone /\ None \notin Ids
    BY DEF ForkConstantsOK
  <2>2. CASE m \in kinds /\ ps[m] # None
    <3>1. Put(us, ps, kinds)[m] = [us[m] EXCEPT ![ps[m]] = @ - 1]
      BY <2>2 DEF Put
    <3> QED
      BY <2>1, <2>2, <3>1 DEF OrNone
  <2>3. CASE ~(m \in kinds /\ ps[m] # None)
    <3>1. Put(us, ps, kinds)[m] = us[m]
      BY <2>3 DEF Put
    <3> QED
      BY <2>1, <2>3, <3>1
  <2> QED
    BY <2>2, <2>3
<1>2. Put(us, ps, kinds) \in [Kinds -> [Ids -> Int]]
  <2>1. Put(us, ps, kinds) = [m \in Kinds |-> Put(us, ps, kinds)[m]]
    BY DEF Put
  <2> HIDE DEF Put
  <2> QED
    BY <1>1, <2>1
<1> QED
  BY <1>1, <1>2

LEMMA UnshareSwapStep ==
  ASSUME ForkConstantsOK, ForkInv, NEW t \in Tasks, UnshareSwap(t)
  PROVE  ForkInv'
<1> USE DEF ForkInv
<1> DEFINE new == lv[t].new
           Swapped == [kind \in Kinds |-> IF new[kind] = None THEN parts[t][kind] ELSE new[kind]]
           Old == [kind \in Kinds |-> IF new[kind] = None THEN None ELSE parts[t][kind]]
           left == [Old EXCEPT !.fs = None]
           r == [lv[t] EXCEPT !.new = left]
<1>1. /\ state[t] = "live" /\ step[t] = "unshare_swap"
      /\ parts' = [parts EXCEPT ![t] = Swapped]
      /\ users' = Put(users, Old, {"fs"})
      /\ bug' = (bug \/ Over(users, Old, {"fs"}))
      /\ lv' = [lv EXCEPT ![t] = r] /\ step' = [step EXCEPT ![t] = "cleanup"]
      /\ UNCHANGED <<state, live, nr_threads, in_exec, own, usage, vfork_done, done, killed, todo>>
  BY DEF UnshareSwap, InStep, Keep, Move, NoCopying, NoLife
<1>2. /\ "fs" \in Kinds /\ "signal" \in Kinds /\ "fs" # "signal" /\ "signal" # "files"
      /\ Gone(step[t]) = {} /\ Gone("cleanup") = {}
  BY <1>1, KindsAre DEF Gone
<1>3. /\ parts[t] \in [Kinds -> OrNone] /\ new \in [Kinds -> OrNone]
      /\ \A m \in Kinds : parts[t][m] # None /\ Counted(t, m)
  BY <1>1, <1>2, LiveHas DEF ForkTypes, Locals
<1>4. \A m \in Kinds : new[m] # None => m \in {"fs", "files"}
  BY DEF Shape, MadeShape
<1>5. /\ Swapped \in [Kinds -> OrNone] /\ Old \in [Kinds -> OrNone] /\ left \in [Kinds -> OrNone]
      /\ \A m \in Kinds :
           /\ Swapped[m] = IF new[m] = None THEN parts[t][m] ELSE new[m]
           /\ Old[m] = IF new[m] = None THEN None ELSE parts[t][m]
           /\ left[m] = IF new[m] = None \/ m = "fs" THEN None ELSE parts[t][m]
  BY <1>2, <1>3 DEF OrNone
<1> HIDE DEF new, Swapped, Old, left
<1>6. r \in Locals /\ r.new = left /\ r.p = lv[t].p
  BY <1>5 DEF ForkTypes, Locals
<1> HIDE DEF r
<1>7. /\ \A k \in Tasks \ {t} : step'[k] = step[k] /\ lv'[k] = lv[k] /\ parts'[k] = parts[k]
      /\ step'[t] = "cleanup" /\ lv'[t] = r /\ parts'[t] = Swapped
  BY <1>1 DEF ForkTypes
<1>8. /\ users' \in [Kinds -> [Ids -> Int]]
      /\ \A m \in Kinds : \A id \in Ids :
           users'[m][id] = users[m][id] - One(m = "fs" /\ Old[m] = id)
  <2>1. users \in [Kinds -> [Ids -> Int]]
    BY DEF ForkTypes
  <2> DEFINE K == {"fs"}
  <2>2. users' = Put(users, Old, K)
    BY <1>1
  <2> HIDE DEF K
  <2>3. /\ users' \in [Kinds -> [Ids -> Int]]
        /\ \A m \in Kinds : \A id \in Ids :
             users'[m][id] = IF m \in K /\ Old[m] = id THEN users[m][id] - 1 ELSE users[m][id]
    BY <1>5, <2>1, <2>2, PutIs
  <2>4. \A m : m \in K <=> m = "fs"
    BY DEF K
  <2> QED
    BY <2>1, <2>3, <2>4 DEF One
<1>9. ForkTypes'
  BY <1>1, <1>5, <1>6, <1>8 DEF ForkTypes, Pcs, UnsharePcs, MadeFsPcs
<1>10. bug' = FALSE
  <2>1. ASSUME Old["fs"] # None PROVE users["fs"][Old["fs"]] >= 1
    <3>1. Old["fs"] = parts[t]["fs"] /\ Old["fs"] \in Ids
      BY <1>2, <1>5, <2>1 DEF OrNone
    <3> QED
      BY <1>2, <1>3, <3>1, HolderCounted
  <2>2. ~Over(users, Old, {"fs"})
    BY <2>1 DEF Over
  <2> QED
    BY <1>1, <2>2, Zenon
<1>11. \A k \in Tasks : \A m \in Kinds : Counted(k, m)' <=> Counted(k, m)
  BY <1>1, <1>3, <1>5, <1>7 DEF Counted
<1>12. Others(t)
  BY <1>1, <1>7 DEF Others
<1>13. UsersExact'
  <2>1. ASSUME NEW m \in Kinds, NEW id \in Ids
        PROVE  users'[m][id] = users[m][id] - One(t \in Having(m, id)) + One(t \in Having(m, id)')
                 - One(t \in Making(m, id)) + One(t \in Making(m, id)')
    <3>1. (t \in Having(m, id) <=> parts[t][m] = id) /\ (t \in Having(m, id)' <=> Swapped[m] = id)
      BY <1>3, <1>7, <1>11 DEF Having
    <3>2. (t \in Making(m, id) <=> new[m] = id) /\ (t \in Making(m, id)' <=> left[m] = id)
      BY <1>6, <1>7 DEF Making, new
    <3>3. users'[m][id] = users[m][id] - One(m = "fs" /\ Old[m] = id) /\ users[m][id] \in Int
      BY <1>8 DEF ForkTypes
    <3>4. id # None
      BY DEF ForkConstantsOK
    <3>5. CASE new[m] = None
      <4>1. Swapped[m] = parts[t][m] /\ Old[m] # id /\ left[m] # id /\ new[m] # id
        BY <1>5, <3>4, <3>5
      <4> QED
        BY <3>1, <3>2, <3>3, <4>1 DEF One
    <3>6. CASE new[m] # None
      <4>1. Swapped[m] = new[m] /\ Old[m] = parts[t][m]
        BY <1>5, <3>6
      <4>2. left[m] = id <=> m # "fs" /\ parts[t][m] = id
        BY <1>5, <3>4, <3>6
      <4> QED
        BY <3>1, <3>2, <3>3, <4>1, <4>2 DEF One
    <3> QED
      BY <3>5, <3>6
  <2> QED
    BY <1>7, <1>12, <2>1, UsersKept
<1>14. /\ Swapped.signal = parts[t].signal
       /\ Swapped.fs = parts[t].fs \/ Swapped.fs = new.fs
       /\ left.fs = None
  BY <1>2, <1>4, <1>5
<1>15. \A k \in Tasks : parts'[k].signal = parts[k].signal
  BY <1>7, <1>14
<1>16. LiveExact' /\ ThreadsExact'
  <2>1. \A k \in Tasks : step'[k] \in ExitPcs <=> step[k] \in ExitPcs
    BY <1>1, <1>7 DEF ExitPcs
  <2>2. \A id : LiveIn(id)' = LiveIn(id)
    BY <1>2, <1>11, <1>15, <2>1 DEF LiveIn
  <2> QED
    BY <1>1, <2>2 DEF LiveExact, ThreadsExact, Threads
<1>17. ParentsShape' /\ UsageExact' /\ CopyShape' /\ UndoShape'
  <2>1. lv[t].p = None
    BY <1>1 DEF Shape, ParentsShape, ParentPcs
  <2>2. NotParent(t)
    BY <1>1, <1>6, <1>7, <2>1 DEF NotParent, ParentPcs
  <2> QED
    BY <1>1, <2>2, ParentsKept
<1>18. VforkValid' /\ DoneShape'
  BY <1>1, <1>7, VforkKept DEF VforkPcs
<1>19. SignalShape'
  BY <1>1, <1>2, <1>7, <1>11, <1>15, SignalKept
<1>20. ExecShape'
  <2>1. \A u \in Tasks : step'[u] \in ExecPcs =>
          u # t /\ step[u] \in ExecPcs /\ lv'[u] = lv[u] /\ parts'[u] = parts[u]
    BY <1>7 DEF ExecPcs
  <2>2. \A u \in Tasks : step[u] \in ExecPcs => parts[u].fs # None
    BY <1>2 DEF Shape, TaskShape, ExecPcs, Gone
  <2>3. ASSUME NEW u \in Tasks, step[u] \in ExecPcs, ~lv[u].unsafe, NEW k \in Tasks
        PROVE  /\ lv'[k].new.fs # parts[u].fs
               /\ parts'[k].fs = parts[u].fs => parts[k].fs = parts[u].fs
    <3>1. lv[k].new.fs # parts[u].fs /\ lv[t].new.fs # parts[u].fs /\ parts[u].fs # None
      BY <2>2, <2>3 DEF Shape, ExecShape
    <3> QED
      BY <1>6, <1>7, <1>14, <3>1 DEF new
  <2> QED
    BY <1>1, <1>2, <1>11, <1>15, <2>1, <2>3 DEF ExecShape, Shape
<1>21. TaskShape'
  <2>1. \A m \in Kinds : Swapped[m] # None
    BY <1>3, <1>5
  <2> QED
    BY <1>1, <1>2, <1>7, <2>1 DEF TaskShape, Shape
<1>22. MadeShape'
  <2>1. \A m \in Kinds : left[m] # None => m = "files"
    BY <1>4, <1>5
  <2>2. "cleanup" \in MadeFilesPcs
    BY DEF MadeFilesPcs
  <2> QED
    BY <1>6, <1>7, <2>1, <2>2 DEF MadeShape, Shape
<1> QED
  BY <1>9, <1>10, <1>13, <1>16, <1>17, <1>18, <1>19, <1>20, <1>21, <1>22 DEF Shape

LEMMA UnshareCleanupStep ==
  ASSUME ForkConstantsOK, ForkInv, NEW t \in Tasks, UnshareCleanup(t)
  PROVE  ForkInv'
<1> USE DEF ForkInv
<1> DEFINE new == lv[t].new
<1>1. /\ state[t] = "live" /\ step[t] = "cleanup"
      /\ users' = Put(users, new, Kinds)
      /\ bug' = (bug \/ Over(users, new, Kinds))
      /\ lv' = [lv EXCEPT ![t] = Local] /\ step' = [step EXCEPT ![t] = "user"]
      /\ UNCHANGED <<state, parts, live, nr_threads, in_exec, own, usage, vfork_done, done, killed, todo>>
  BY DEF UnshareCleanup, InStep, End, Keep, Move, NoCopying, NoLife
<1>2. new \in [Kinds -> OrNone] /\ "fs" \in Kinds /\ "signal" \in Kinds
  BY KindsAre DEF ForkTypes, Locals
<1>3. /\ \A k \in Tasks \ {t} : step'[k] = step[k] /\ lv'[k] = lv[k]
      /\ step'[t] = "user" /\ lv'[t] = Local
  BY <1>1 DEF ForkTypes
<1>4. /\ users' \in [Kinds -> [Ids -> Int]]
      /\ \A m \in Kinds : \A id \in Ids : users'[m][id] = users[m][id] - One(new[m] = id)
  <2> DEFINE K == Kinds
  <2>1. users \in [Kinds -> [Ids -> Int]] /\ new \in [Kinds -> OrNone] /\ users' = Put(users, new, K)
    BY <1>1, <1>2 DEF ForkTypes
  <2> HIDE DEF new, K
  <2>2. /\ users' \in [Kinds -> [Ids -> Int]]
        /\ \A m \in Kinds : \A id \in Ids :
             users'[m][id] = IF m \in K /\ new[m] = id THEN users[m][id] - 1 ELSE users[m][id]
    BY <2>1, PutIs
  <2> QED
    BY <2>1, <2>2 DEF One, K
<1>5. ForkTypes'
  BY <1>1, <1>4, LocalType DEF ForkTypes, Pcs
<1>6. bug' = FALSE
  <2>1. ASSUME NEW m \in Kinds, new[m] # None PROVE users[m][new[m]] >= 1
    BY <1>2, <2>1, HolderCounted DEF OrNone
  <2>2. ~Over(users, new, Kinds)
    BY <2>1 DEF Over
  <2> QED
    BY <1>1, <2>2, Zenon
<1>7. \A k \in Tasks : \A m \in Kinds : Counted(k, m)' <=> Counted(k, m)
  BY <1>1 DEF Counted
<1>8. Others(t)
  BY <1>1 DEF Others
<1>9. UsersExact'
  <2>1. ASSUME NEW m \in Kinds, NEW id \in Ids
        PROVE  users'[m][id] = users[m][id] - One(t \in Having(m, id)) + One(t \in Having(m, id)')
                 - One(t \in Making(m, id)) + One(t \in Making(m, id)')
    <3>1. t \in Having(m, id) <=> t \in Having(m, id)'
      BY <1>1, <1>7 DEF Having
    <3>2. (t \in Making(m, id) <=> new[m] = id) /\ t \notin Making(m, id)'
      BY <1>3, LocalType DEF Making, ForkConstantsOK
    <3>3. users'[m][id] = users[m][id] - One(new[m] = id) /\ users[m][id] \in Int
      BY <1>4 DEF ForkTypes
    <3> HIDE DEF new
    <3> QED
      BY <3>1, <3>2, <3>3 DEF One
  <2> QED
    BY <1>3, <1>8, <2>1, UsersKept
<1>10. LiveExact' /\ ThreadsExact'
  <2>1. \A k \in Tasks : step'[k] \in ExitPcs <=> step[k] \in ExitPcs
    BY <1>1, <1>3 DEF ExitPcs
  <2>2. \A id : LiveIn(id)' = LiveIn(id)
    BY <1>1, <1>2, <1>7, <2>1 DEF LiveIn
  <2> QED
    BY <1>1, <2>2 DEF LiveExact, ThreadsExact, Threads
<1>11. ParentsShape' /\ UsageExact' /\ CopyShape' /\ UndoShape'
  <2>1. NotParent(t)
    BY <1>1, <1>3, LocalType DEF NotParent, ParentPcs
  <2> QED
    BY <1>1, <2>1, ParentsKept
<1>12. VforkValid' /\ DoneShape'
  BY <1>1, <1>3, VforkKept DEF VforkPcs
<1>13. SignalShape'
  BY <1>1, <1>2, <1>7, SignalKept
<1>14. ExecShape'
  <2>1. \A k \in Tasks : step'[k] \in ExecPcs => step[k] \in ExecPcs /\ lv'[k] = lv[k]
    BY <1>3 DEF ExecPcs
  <2>2. \A k \in Tasks : lv'[k].new.fs \in {lv[k].new.fs, None}
    BY <1>2, <1>3, LocalType
  <2> QED
    BY <1>1, <1>2, <1>7, <2>1, <2>2, ExecKept
<1>15. TaskShape'
  BY <1>1, <1>3 DEF TaskShape, Shape, Gone
<1>16. MadeShape'
  BY <1>3, LocalType DEF MadeShape, Shape
<1> QED
  BY <1>5, <1>6, <1>9, <1>10, <1>11, <1>12, <1>13, <1>14, <1>15, <1>16 DEF Shape

-----------------------------------------------------------------------------
(* do_exit()                                                                 *)

LEMMA ExitStep ==
  ASSUME ForkConstantsOK, ForkInv, NEW t \in Tasks, Exit(t)
  PROVE  ForkInv'
<1> USE DEF ForkInv
<1> DEFINE id0 == parts[t].signal
<1>1. /\ todo' \in [Tasks -> Seq(Calls)] /\ state[t] = "live" /\ step[t] = "user"
      /\ live' = [live EXCEPT ![id0] = @ - 1] /\ step' = [step EXCEPT ![t] = "exit_mm"]
      /\ UNCHANGED <<state, parts, users, nr_threads, in_exec, own, usage, vfork_done, done, killed,
                     lv, bug>>
  BY Beginning DEF Exit, InStep, Move, NoCopying, NoParting, ForkTypes
<1>2. "fs" \in Kinds /\ "signal" \in Kinds /\ Gone(step[t]) = {} /\ Gone("exit_mm") = {}
  BY <1>1, KindsAre DEF Gone
<1>3. id0 # None /\ id0 \in Ids /\ Counted(t, "signal")
  BY <1>1, <1>2, LiveHas
<1> HIDE DEF id0
<1>4. /\ \A k \in Tasks \ {t} : step'[k] = step[k]
      /\ step'[t] = "exit_mm" /\ lv[t] = Local
  BY <1>1 DEF ForkTypes, Shape, TaskShape
<1>5. ForkTypes'
  BY <1>1, <1>3 DEF ForkTypes, Pcs, ExitPcs
<1>6. \A k \in Tasks : \A m \in Kinds : Counted(k, m)' <=> Counted(k, m)
  BY <1>1 DEF Counted
<1>7. Others(t)
  BY <1>1 DEF Others
<1>8. UsersExact' /\ ThreadsExact'
  <2>1. \A kind \in Kinds : \A id : Having(kind, id)' = Having(kind, id) /\ Making(kind, id)' = Making(kind, id)
    BY <1>1, <1>6 DEF Having, Making
  <2> QED
    BY <1>1, <2>1 DEF UsersExact, ThreadsExact, Threads
<1>9. LiveExact'
  <2>1. ASSUME NEW id \in Ids
        PROVE  live'[id] = live[id] - One(t \in LiveIn(id)) + One(t \in LiveIn(id)')
    <3>1. t \in LiveIn(id) <=> id = id0
      BY <1>1, <1>3 DEF LiveIn, ExitPcs, id0
    <3>2. t \notin LiveIn(id)'
      BY <1>4 DEF LiveIn, ExitPcs
    <3>3. live \in [Ids -> Int]
      BY DEF ForkTypes
    <3> QED
      BY <1>1, <3>1, <3>2, <3>3 DEF One
  <2> QED
    BY <1>4, <1>7, <2>1, LiveKept
<1>10. ParentsShape' /\ UsageExact' /\ CopyShape' /\ UndoShape'
  <2>1. NotParent(t)
    BY <1>1, <1>4, LocalType DEF NotParent, ParentPcs
  <2> QED
    BY <1>1, <2>1, ParentsKept
<1>11. VforkValid' /\ DoneShape'
  BY <1>1, <1>4, VforkKept DEF VforkPcs
<1>12. SignalShape'
  BY <1>1, <1>2, <1>6, SignalKept
<1>13. ExecShape'
  <2>1. \A k \in Tasks : step'[k] \in ExecPcs => step[k] \in ExecPcs
    BY <1>4 DEF ExecPcs
  <2> QED
    BY <1>1, <1>2, <1>6, <2>1, ExecKept
<1>14. TaskShape'
  BY <1>1, <1>2, <1>4 DEF TaskShape, Shape
<1>15. MadeShape'
  BY <1>1, <1>4, LocalType DEF MadeShape, Shape
<1> QED
  BY <1>1, <1>5, <1>8, <1>9, <1>10, <1>11, <1>12, <1>13, <1>14, <1>15 DEF Shape

\* A task that exits puts the structures of a set of kinds.
LEMMA GiveKept ==
  ASSUME ForkConstantsOK, ForkInv, NEW t \in Tasks, NEW kinds \in SUBSET Kinds, Give(t, kinds),
         state[t] = "live", kinds \cap Gone(step[t]) = {},
         \A k \in Tasks \ {t} : state'[k] = state[k],
         state'[t] # "new", \A k \in Tasks : lv'[k].new = lv[k].new
  PROVE  /\ parts' \in [Tasks -> [Kinds -> OrNone]] /\ users' \in [Kinds -> [Ids -> Int]]
         /\ \A k \in Tasks \ {t} : parts'[k] = parts[k]
         /\ \A m \in Kinds : parts'[t][m] = IF m \in kinds THEN None ELSE parts[t][m]
         /\ \A k \in Tasks : \A m \in Kinds : Counted(k, m)' =>
              Counted(k, m) /\ parts'[k][m] = parts[k][m]
         /\ UNCHANGED <<in_exec, own, todo>> /\ bug' = FALSE
         /\ Others(t) /\ UsersExact'
<1> USE DEF ForkInv
<1>1. /\ users' = Put(users, parts[t], kinds)
      /\ parts' = [parts EXCEPT ![t] = [kind \in Kinds |-> IF kind \in kinds THEN None ELSE parts[t][kind]]]
      /\ bug' = (bug \/ Over(users, parts[t], kinds))
      /\ UNCHANGED <<in_exec, own, todo>>
  BY DEF Give
<1>2. \A m \in kinds : parts[t][m] # None /\ parts[t][m] \in Ids /\ Counted(t, m)
  BY LiveHas
<1>3. /\ parts' \in [Tasks -> [Kinds -> OrNone]] /\ parts[t] \in [Kinds -> OrNone]
      /\ \A k \in Tasks \ {t} : parts'[k] = parts[k]
      /\ \A m \in Kinds : parts'[t][m] = IF m \in kinds THEN None ELSE parts[t][m]
  BY <1>1 DEF ForkTypes, OrNone
<1>4. Others(t)
  BY <1>1, <1>3 DEF Others
<1>5. \A m \in Kinds : Counted(t, m) <=> parts[t][m] # None
  BY DEF Counted
<1>6. \A m \in Kinds : Counted(t, m)' <=> parts'[t][m] # None
  BY DEF Counted
<1>7. \A k \in Tasks : \A m \in Kinds : Counted(k, m)' => Counted(k, m) /\ parts'[k][m] = parts[k][m]
  <2>1. \A m \in Kinds : Counted(t, m)' => Counted(t, m) /\ parts'[t][m] = parts[t][m]
    BY <1>3, <1>5, <1>6
  <2>2. \A k \in Tasks \ {t} : \A m \in Kinds : Counted(k, m)' => Counted(k, m) /\ parts'[k][m] = parts[k][m]
    BY <1>4 DEF Others, Counted
  <2> QED
    BY <2>1, <2>2
<1>8. /\ users' \in [Kinds -> [Ids -> Int]]
      /\ \A m \in Kinds : \A id \in Ids :
           users'[m][id] = IF m \in kinds /\ parts[t][m] = id THEN users[m][id] - 1 ELSE users[m][id]
  <2> DEFINE ps == parts[t]
  <2>1. users \in [Kinds -> [Ids -> Int]] /\ ps \in [Kinds -> OrNone] /\ users' = Put(users, ps, kinds)
    BY <1>1, <1>3 DEF ForkTypes
  <2> HIDE DEF ps
  <2>2. /\ users' \in [Kinds -> [Ids -> Int]]
        /\ \A m \in Kinds : \A id \in Ids :
             users'[m][id] = IF m \in kinds /\ ps[m] = id THEN users[m][id] - 1 ELSE users[m][id]
    BY <2>1, PutIs
  <2> QED
    BY <2>2 DEF ps
<1>9. bug' = FALSE
  <2>1. ASSUME NEW m \in kinds PROVE users[m][parts[t][m]] >= 1
    BY <1>2, HolderCounted
  <2>2. ~Over(users, parts[t], kinds)
    BY <2>1 DEF Over
  <2> QED
    BY <1>1, <2>2, Zenon
<1>10. UsersExact'
  <2>1. ASSUME NEW m \in Kinds, NEW id \in Ids
        PROVE  users'[m][id] = users[m][id] - One(t \in Having(m, id)) + One(t \in Having(m, id)')
                 - One(t \in Making(m, id)) + One(t \in Making(m, id)')
    <3>1. id # None
      BY DEF ForkConstantsOK
    <3>2. (t \in Having(m, id) <=> parts[t][m] = id) /\ (t \in Having(m, id)' <=> parts'[t][m] = id)
      BY <1>5, <1>6, <3>1 DEF Having
    <3>3. t \in Making(m, id) <=> t \in Making(m, id)'
      BY DEF Making
    <3>4. users'[m][id] = users[m][id] - One(m \in kinds /\ parts[t][m] = id) /\ users[m][id] \in Int
      BY <1>8 DEF ForkTypes, One
    <3>5. parts'[t][m] = id <=> m \notin kinds /\ parts[t][m] = id
      BY <1>3, <3>1
    <3> QED
      BY <3>2, <3>3, <3>4, <3>5 DEF One
  <2> QED
    BY <1>4, <2>1, UsersKept
<1> QED
  BY <1>1, <1>3, <1>4, <1>7, <1>8, <1>9, <1>10

LEMMA ExitPartStep ==
  ASSUME ForkConstantsOK, ForkInv, NEW t \in Tasks, ExitMm(t) \/ ExitFiles(t) \/ ExitFs(t)
  PROVE  ForkInv'
<1> USE DEF ForkInv
<1>1. PICK kinds \in SUBSET Kinds, l \in ExitPcs :
        /\ state[t] = "live" /\ step[t] \in ExitPcs /\ Give(t, kinds)
        /\ Gone(l) = Gone(step[t]) \cup kinds /\ kinds \cap Gone(step[t]) = {} /\ "signal" \notin kinds
        /\ step' = [step EXCEPT ![t] = l]
        /\ MmRelease(t) \/ UNCHANGED <<vfork_done, done>>
        /\ UNCHANGED <<state, live, nr_threads, usage, killed, lv>>
  <2>1. CASE ExitMm(t)
    BY <2>1, KindsAre DEF ExitMm, InStep, Move, NoLife, ExitPcs, Gone
  <2>2. CASE ExitFiles(t)
    BY <2>2, KindsAre DEF ExitFiles, InStep, Move, NoLife, ExitPcs, Gone
  <2>3. CASE ExitFs(t)
    BY <2>3, KindsAre DEF ExitFs, InStep, Move, NoLife, ExitPcs, Gone
  <2> QED
    BY <2>1, <2>2, <2>3
<1>2. /\ parts' \in [Tasks -> [Kinds -> OrNone]] /\ users' \in [Kinds -> [Ids -> Int]]
      /\ \A k \in Tasks \ {t} : parts'[k] = parts[k]
      /\ \A m \in Kinds : parts'[t][m] = IF m \in kinds THEN None ELSE parts[t][m]
      /\ \A k \in Tasks : \A m \in Kinds : Counted(k, m)' =>
           Counted(k, m) /\ parts'[k][m] = parts[k][m]
      /\ UNCHANGED <<in_exec, own, todo>> /\ bug' = FALSE
      /\ Others(t) /\ UsersExact'
  BY <1>1, GiveKept
<1>3. /\ \A k \in Tasks \ {t} : step'[k] = step[k]
      /\ step'[t] = l
  BY <1>1 DEF ForkTypes
<1>4. step[t] \notin ParentPcs \cup ExecPcs \cup UnsharePcs /\ l \notin ParentPcs \cup ExecPcs \cup {"user"}
  BY <1>1 DEF ExitPcs, ParentPcs, ExecPcs, UnsharePcs, MadeFsPcs
<1>5. /\ vfork_done' \in [Tasks -> Tasks \cup {None}] /\ done' \in [Tasks -> BOOLEAN]
      /\ VforkValid' /\ DoneShape'
  <2>1. step[t] \notin VforkPcs /\ step'[t] \notin VforkPcs
    BY <1>3, <1>4 DEF ParentPcs, VforkPcs
  <2>2. CASE UNCHANGED <<vfork_done, done>>
    BY <1>1, <1>3, <2>1, <2>2, VforkKept DEF ForkTypes
  <2>3. CASE MmRelease(t)
    BY <1>1, <1>3, <2>1, <2>3, MmReleaseKept
  <2> QED
    BY <1>1, <2>2, <2>3
<1>6. ForkTypes'
  BY <1>1, <1>2, <1>5 DEF ForkTypes, Pcs
<1>7. LiveExact' /\ ThreadsExact'
  <2>1. \A id \in Ids : t \notin LiveIn(id) /\ t \notin LiveIn(id)'
    BY <1>1, <1>3 DEF LiveIn
  <2>2. \A id \in Ids : live'[id] = live[id] - One(t \in LiveIn(id)) + One(t \in LiveIn(id)')
    BY <1>1, <2>1 DEF One, ForkTypes
  <2> QED
    BY <1>1, <1>2, <1>3, <2>2, LiveKept DEF ThreadsExact, Threads
<1>8. ParentsShape' /\ UsageExact' /\ CopyShape' /\ UndoShape'
  <2>1. lv[t].p = None
    BY <1>4 DEF Shape, ParentsShape
  <2>2. NotParent(t)
    BY <1>1, <1>2, <1>3, <1>4, <2>1 DEF NotParent
  <2> QED
    BY <1>1, <2>2, ParentsKept
<1>9. "fs" \in Kinds /\ "signal" \in Kinds
  BY KindsAre
<1>10. \A k \in Tasks : parts'[k].signal = parts[k].signal
  BY <1>1, <1>2, <1>9
<1>11. SignalShape'
  BY <1>1, <1>2, <1>9, SignalKept
<1>12. ExecShape'
  <2>1. \A k \in Tasks : step'[k] \in ExecPcs => step[k] \in ExecPcs /\ parts'[k] = parts[k]
    BY <1>2, <1>3, <1>4
  <2> QED
    BY <1>1, <1>2, <1>9, <1>10, <2>1, ExecKept
<1>13. TaskShape'
  <2>1. \A m \in Kinds : parts'[t][m] = None <=> m \in Gone(l)
    BY <1>1, <1>2 DEF TaskShape, Shape
  <2> QED
    BY <1>1, <1>2, <1>3, <1>4, <2>1 DEF TaskShape, Shape
<1>14. MadeShape'
  BY <1>1, <1>3, <1>4 DEF MadeShape, Shape, UnsharePcs, MadeFsPcs, MadeFilesPcs
<1> QED
  BY <1>2, <1>5, <1>6, <1>7, <1>8, <1>11, <1>12, <1>13, <1>14 DEF Shape

LEMMA ReleaseStep ==
  ASSUME ForkConstantsOK, ForkInv, NEW t \in Tasks, Release(t)
  PROVE  ForkInv'
<1> USE DEF ForkInv
<1> DEFINE kinds == {"sighand", "signal"}
<1>1. /\ state[t] = "live" /\ step[t] = "exit_notify" /\ Give(t, kinds)
      /\ nr_threads' = nr_threads - 1
      /\ state' = [state EXCEPT ![t] = "free"] /\ usage' = [usage EXCEPT ![t] = @ - 1]
      /\ killed' = killed \ {t}
      /\ step' = [step EXCEPT ![t] = "user"] /\ lv' = [lv EXCEPT ![t] = Local]
      /\ UNCHANGED <<live, vfork_done, done>>
  BY DEF Release, InStep, End, Move, Keep
<1>2. /\ kinds \in SUBSET Kinds /\ Gone(step[t]) = {"mm", "files", "fs"} /\ Gone("user") = {}
      /\ kinds \cap Gone(step[t]) = {} /\ Kinds = kinds \cup Gone(step[t])
      /\ "fs" \in Kinds /\ "signal" \in Kinds
  BY <1>1, KindsAre DEF Gone
<1> HIDE DEF kinds
<1>3. /\ \A k \in Tasks \ {t} : step'[k] = step[k] /\ lv'[k] = lv[k] /\ state'[k] = state[k]
                                /\ usage'[k] = usage[k]
      /\ step'[t] = "user" /\ lv'[t] = Local /\ state'[t] = "free" /\ usage'[t] = usage[t] - 1
  BY <1>1 DEF ForkTypes
<1>4. lv[t].new = NoParts
  <2>1. \A kind \in Kinds : lv[t].new[kind] = None
    BY <1>1 DEF Shape, MadeShape, MadeFsPcs, MadeFilesPcs
  <2> QED
    BY <2>1 DEF NoParts, ForkTypes, Locals
<1>5. \A k \in Tasks : lv'[k].new = lv[k].new
  BY <1>3, <1>4, LocalType
<1>6. /\ parts' \in [Tasks -> [Kinds -> OrNone]] /\ users' \in [Kinds -> [Ids -> Int]]
      /\ \A k \in Tasks \ {t} : parts'[k] = parts[k]
      /\ \A m \in Kinds : parts'[t][m] = IF m \in kinds THEN None ELSE parts[t][m]
      /\ \A k \in Tasks : \A m \in Kinds : Counted(k, m)' =>
           Counted(k, m) /\ parts'[k][m] = parts[k][m]
      /\ UNCHANGED <<in_exec, own, todo>> /\ bug' = FALSE
      /\ Others(t) /\ UsersExact'
  BY <1>1, <1>2, <1>3, <1>5, GiveKept
<1>7. ForkTypes'
  <2>1. /\ state' \in [Tasks -> {"free", "new", "visible", "live"}]
        /\ usage' \in [Tasks -> Int] /\ nr_threads' \in Int /\ killed' \subseteq Tasks
    BY <1>1 DEF ForkTypes
  <2>2. step' \in [Tasks -> Pcs] /\ lv' \in [Tasks -> Locals]
    BY <1>1, LocalType DEF ForkTypes, Pcs
  <2> QED
    BY <1>1, <1>6, <2>1, <2>2 DEF ForkTypes
<1>8. \A m \in Kinds : parts'[t][m] = None
  BY <1>1, <1>2, <1>6 DEF TaskShape, Shape
<1>9. LiveExact'
  <2>1. \A id \in Ids : t \notin LiveIn(id) /\ t \notin LiveIn(id)'
    BY <1>1, <1>2, <1>8 DEF LiveIn, Counted, ExitPcs
  <2>2. \A id \in Ids : live'[id] = live[id] - One(t \in LiveIn(id)) + One(t \in LiveIn(id)')
    BY <1>1, <2>1 DEF One, ForkTypes
  <2> QED
    BY <1>3, <1>6, <2>2, LiveKept
<1>10. ThreadsExact'
  <2>1. t \in Threads /\ t \notin Threads'
    BY <1>1, <1>3 DEF Threads
  <2> QED
    BY <1>1, <1>6, <2>1, ThreadsKept DEF One, ForkTypes
<1>11. ParentsShape' /\ UsageExact' /\ CopyShape' /\ UndoShape'
  <2>1. NotParent(t)
    BY <1>1, <1>3, <1>6, LocalType DEF NotParent, ParentPcs
  <2>2. usage'[t] = usage[t] - One(state'[t] = "free")
    BY <1>3 DEF One
  <2> QED
    BY <1>3, <2>1, <2>2, ParentsKeptFor
<1>12. VforkValid' /\ DoneShape'
  BY <1>1, <1>3, VforkKept DEF VforkPcs
<1>13. SignalShape'
  <2>1. \A k \in Tasks : state'[k] = "new" => state[k] = "new" /\ parts'[k] = parts[k]
    BY <1>3, <1>6
  <2> QED
    BY <1>2, <1>6, <2>1, SignalKept
<1>14. ExecShape'
  <2>1. \A k \in Tasks : step'[k] \in ExecPcs =>
          step[k] \in ExecPcs /\ parts'[k] = parts[k] /\ lv'[k] = lv[k]
    BY <1>3, <1>6 DEF ExecPcs
  <2>2. \A k \in Tasks : Counted(k, "fs")' => k # t /\ state'[k] = state[k] /\ parts'[k] = parts[k]
    BY <1>2, <1>3, <1>6, <1>8 DEF Counted
  <2> QED
    BY <1>2, <1>5, <1>6, <2>1, <2>2, ExecKept
<1>15. TaskShape'
  <2>1. parts'[t] = NoParts
    BY <1>6, <1>8 DEF NoParts
  <2>2. own'[t] = {}
    BY <1>1, <1>6 DEF Shape, TaskShape
  <2> QED
    BY <1>3, <1>6, <2>1, <2>2 DEF TaskShape, Shape
<1>16. MadeShape'
  BY <1>3, LocalType DEF MadeShape, Shape
<1> QED
  BY <1>6, <1>7, <1>9, <1>10, <1>11, <1>12, <1>13, <1>14, <1>15, <1>16 DEF Shape

-----------------------------------------------------------------------------
(* copy_process()                                                            *)

\* The child of a parent that has not woken it is no other parent's, nobody waits
\* for it, and it does not run.
LEMMA ChildIs ==
  ASSUME ForkConstantsOK, ForkTypes, Shape, NEW t \in Tasks, step[t] \in {"copy", "undo", "wake"}
  PROVE  /\ state[t] = "live" /\ lv[t].p \in Tasks /\ lv[t].p # t /\ ~done[t]
         /\ step[t] = "wake" => state[lv[t].p] = "visible"
         /\ step[t] # "wake" => state[lv[t].p] = "new"
         /\ step[lv[t].p] = "user" /\ lv[lv[t].p] = Local
         /\ \A u \in Tasks \ {t} : lv[u].p # lv[t].p
         /\ ~Awaited(lv[t].p) /\ usage[lv[t].p] = 1
         /\ \A u \in Tasks : vfork_done[lv[t].p] # u
         /\ \A m \in Kinds : parts[lv[t].p][m] \in Ids /\ parts[lv[t].p][m] # None
         /\ \A m \in Kinds : parts[t][m] \in Ids /\ parts[t][m] # None /\ Counted(t, m)
<1> DEFINE p == lv[t].p
<1>1. step[t] \in ParentPcs /\ step[t] \notin VforkPcs /\ step[t] # "user" /\ Gone(step[t]) = {}
  BY DEF ParentPcs, VforkPcs, Gone
<1>2. state[t] = "live" /\ p \in Tasks /\ p # None /\ ~done[t]
  BY <1>1 DEF Shape, TaskShape, ParentsShape, DoneShape, ForkConstantsOK
<1>3. /\ step[t] = "wake" => state[p] = "visible"
      /\ step[t] # "wake" => state[p] = "new"
  BY DEF Shape, ParentsShape
<1>4. p # t /\ step[p] = "user" /\ lv[p] = Local /\ Gone(step[p]) = {}
  BY <1>2, <1>3 DEF Shape, TaskShape, Gone
<1>5. \A u \in Tasks \ {t} : lv[u].p # p
  BY <1>2 DEF Shape, ParentsShape
<1>6. ~Awaited(p)
  BY <1>1, <1>5 DEF Awaited
<1>7. usage[p] = 1
  BY <1>2, <1>3, <1>6 DEF Shape, UsageExact
<1>8. \A u \in Tasks : vfork_done[p] # u
  BY <1>1, <1>2, <1>5 DEF Shape, VforkValid, VforkPcs
<1>9. \A m \in Kinds : parts[p][m] # None /\ parts[p][m] \in OrNone
  <2>1. state[p] # "free" /\ p \in Tasks /\ Gone(step[p]) = {}
    BY <1>2, <1>3, <1>4
  <2> HIDE DEF p
  <2> QED
    BY <2>1 DEF Shape, TaskShape, ForkTypes
<1>10. \A m \in Kinds : parts[t][m] \in Ids /\ parts[t][m] # None /\ Counted(t, m)
  BY <1>1, <1>2, LiveHas
<1> HIDE DEF p
<1>11. \A m \in Kinds : parts[p][m] \in Ids
  BY <1>9 DEF OrNone
<1> QED
  BY <1>2, <1>3, <1>4, <1>5, <1>6, <1>7, <1>8, <1>9, <1>10, <1>11 DEF p

\* A step of the ladder that t climbs or goes down.
OnLadder(t) ==
  LET p == lv[t].p
  IN /\ step[t] \in {"copy", "undo"}
     /\ UNCHANGED <<state, nr_threads, in_exec, usage, vfork_done, done, killed, todo>>
     /\ \A k \in Tasks \ {p} : parts'[k] = parts[k] /\ own'[k] = own[k]
     /\ \A m \in Kinds : parts'[p][m] # None
     /\ \E l \in {"copy", "undo"}, j \in Nat :
          step' = [step EXCEPT ![t] = l] /\ lv' = [lv EXCEPT ![t] = [lv[t] EXCEPT !.i = j]]

LEMMA LadderKept ==
  ASSUME ForkConstantsOK, ForkInv, NEW t \in Tasks, OnLadder(t)
  PROVE  /\ TaskShape' /\ MadeShape' /\ ParentsShape' /\ UsageExact' /\ VforkValid' /\ DoneShape'
         /\ ThreadsExact' /\ step' \in [Tasks -> Pcs] /\ lv' \in [Tasks -> Locals]
         /\ Others(lv[t].p)
         /\ \A k \in Tasks : lv'[k].new = lv[k].new /\ (step'[k] \in ExitPcs <=> step[k] \in ExitPcs)
         /\ \A k \in Tasks : lv'[k].p = lv[k].p /\ lv'[k].flags = lv[k].flags
         /\ CopyAt(t)' => CopyShape'
         /\ UndoAt(t)' => UndoShape'
<1> USE DEF ForkInv
<1> DEFINE p == lv[t].p
<1>1. /\ state[t] = "live" /\ p \in Tasks /\ p # t /\ ~done[t] /\ state[p] = "new"
      /\ step[p] = "user" /\ \A u \in Tasks \ {t} : lv[u].p # p
  BY ChildIs DEF OnLadder
<1>2. PICK l \in {"copy", "undo"}, j \in Nat :
        step' = [step EXCEPT ![t] = l] /\ lv' = [lv EXCEPT ![t] = [lv[t] EXCEPT !.i = j]]
  BY DEF OnLadder
<1>3. /\ step[t] \in {"copy", "undo"}
      /\ UNCHANGED <<state, nr_threads, in_exec, usage, vfork_done, done, killed, todo>>
      /\ \A k \in Tasks \ {p} : parts'[k] = parts[k] /\ own'[k] = own[k]
      /\ \A m \in Kinds : parts'[p][m] # None
  BY DEF OnLadder
<1>4. /\ \A k \in Tasks \ {t} : step'[k] = step[k] /\ lv'[k] = lv[k]
      /\ step'[t] = l /\ lv'[t] = [lv[t] EXCEPT !.i = j]
  BY <1>2 DEF ForkTypes
<1>5. [lv[t] EXCEPT !.i = j] \in Locals
  BY ZenonT(30) DEF ForkTypes, Locals
<1>6. step' \in [Tasks -> Pcs] /\ lv' \in [Tasks -> Locals]
  BY <1>2, <1>5 DEF ForkTypes, Pcs, ParentPcs
<1>7. /\ lv'[t].p = p /\ lv'[t].flags = lv[t].flags /\ lv'[t].new = lv[t].new
      /\ lv'[t].unsafe = lv[t].unsafe
  BY <1>4 DEF ForkTypes, Locals
<1> HIDE DEF p
<1>8. /\ \A k \in Tasks : lv'[k].p = lv[k].p /\ lv'[k].flags = lv[k].flags
      /\ \A k \in Tasks : lv'[k].new = lv[k].new /\ (step'[k] \in ExitPcs <=> step[k] \in ExitPcs)
  BY <1>3, <1>4, <1>7 DEF ExitPcs, p
<1>9. Others(p)
  BY <1>3 DEF Others
<1>10. \A u \in Tasks : step[u] \in {"copy", "undo"} => u # p /\ lv[u].p \in Tasks
  BY <1>1 DEF Shape, ParentsShape, ParentPcs
<1>11. TaskShape'
  <2>1. \A m : m \notin Gone(l) /\ m \notin Gone(step[t]) /\ m \notin Gone(step[p])
    BY <1>1, <1>3 DEF Gone
  <2>2. l # "user" /\ step[t] # "user"
    BY <1>3
  <2> QED
    BY <1>1, <1>3, <1>4, <2>1, <2>2 DEF TaskShape, Shape
<1>12. MadeShape'
  BY <1>3, <1>4, <1>8 DEF MadeShape, Shape, MadeFsPcs, MadeFilesPcs
<1>13. ParentsShape'
  BY <1>1, <1>3, <1>4, <1>8 DEF ParentsShape, Shape, ParentPcs, p
<1>14. UsageExact'
  <2>1. \A k \in Tasks : Awaited(k)' <=> Awaited(k)
    BY <1>3, <1>4, <1>8 DEF Awaited, VforkPcs
  <2> QED
    BY <1>3, <2>1 DEF UsageExact, Shape
<1>15. VforkValid' /\ DoneShape'
  BY <1>3, <1>4, <1>8, VforkKept DEF VforkPcs
<1>16. ThreadsExact'
  BY <1>3 DEF ThreadsExact, Threads
<1>17. \A u \in Tasks \ {t} : step[u] \in {"copy", "undo"} =>
         /\ own'[lv[u].p] = own[lv[u].p] /\ parts'[lv[u].p] = parts[lv[u].p]
         /\ parts'[u] = parts[u]
  BY <1>1, <1>3, <1>10
<1>18. \A u \in Tasks : \A s : Has(u, s)' <=> Has(u, s)
  BY <1>8 DEF Has
<1>19. ASSUME NEW u \in Tasks \ {t} PROVE CopyAt(u)' /\ UndoAt(u)'
  <2>1. CopyAt(u) /\ UndoAt(u)
    BY DEF Shape, CopyShape, UndoShape
  <2>2. step'[u] = step[u] /\ lv'[u] = lv[u] /\ \A s : Has(u, s)' <=> Has(u, s)
    BY <1>4, <1>18
  <2>3. CASE step[u] \in {"copy", "undo"}
    <3>1. /\ own'[lv[u].p] = own[lv[u].p] /\ parts'[lv[u].p] = parts[lv[u].p]
          /\ parts'[u] = parts[u]
      BY <1>17, <2>3
    <3> QED
      BY <2>1, <2>2, <3>1 DEF CopyAt, UndoAt
  <2>4. CASE step[u] \notin {"copy", "undo"}
    BY <2>2, <2>4 DEF CopyAt, UndoAt
  <2> QED
    BY <2>3, <2>4
<1>20. (CopyAt(t)' => CopyShape') /\ (UndoAt(t)' => UndoShape')
  BY <1>19 DEF CopyShape, UndoShape
<1> QED
  BY <1>6, <1>8, <1>9, <1>11, <1>12, <1>13, <1>14, <1>15, <1>16, <1>20 DEF p

\* A new task is not counted for an fs_struct of an exec that found it unshared.
LEMMA LadderExec ==
  ASSUME ForkConstantsOK, ForkInv, NEW t \in Tasks, OnLadder(t), NEW p \in Tasks, p = lv[t].p,
         \/ ~Counted(p, "fs")'
         \/ Counted(p, "fs") /\ parts'[p].fs = parts[p].fs
         \/ \A u \in Tasks : step[u] \in ExecPcs /\ ~lv[u].unsafe
                             => parts'[p].fs # parts[u].fs
  PROVE  ExecShape'
<1> USE DEF ForkInv
<1>1. p \in Tasks /\ state[p] = "new" /\ step[p] = "user"
  BY ChildIs DEF OnLadder
<1>2. /\ UNCHANGED <<state, in_exec>>
      /\ \A k \in Tasks \ {p} : parts'[k] = parts[k] /\ own'[k] = own[k]
  BY DEF OnLadder
<1>3. \A k \in Tasks : lv'[k].new = lv[k].new
  BY LadderKept
<1>4. \A k \in Tasks : step'[k] \in ExecPcs => k # p /\ step[k] \in ExecPcs /\ lv'[k] = lv[k]
  BY <1>1 DEF OnLadder, ForkTypes, ExecPcs
<1>5. ASSUME NEW u \in Tasks, step[u] \in ExecPcs, ~lv[u].unsafe, u # p
      PROVE  ~(parts'[p].fs = parts[u].fs /\ Counted(p, "fs")')
  <2>1. ~(parts[p].fs = parts[u].fs /\ Counted(p, "fs"))
    BY <1>1, <1>5 DEF ExecShape, Shape
  <2> QED
    BY <1>5, <2>1
<1>6. \A k \in Tasks \ {p} : Counted(k, "fs")' <=> Counted(k, "fs")
  BY <1>2 DEF Counted
<1> QED
  BY <1>2, <1>3, <1>4, <1>5, <1>6 DEF ExecShape, Shape

\* A new task has taken its signal_struct before, or takes one that is nobody's.
LEMMA LadderSignal ==
  ASSUME ForkConstantsOK, ForkInv, NEW t \in Tasks, OnLadder(t), NEW p \in Tasks, p = lv[t].p,
         \/ "signal" \notin own'[p]
         \/ "signal" \in own[p] /\ parts'[p].signal = parts[p].signal
         \/ \A u \in Tasks : Counted(u, "signal") => parts'[p].signal # parts[u].signal
  PROVE  SignalShape'
<1> USE DEF ForkInv
<1>1. p \in Tasks /\ state[p] = "new" /\ step[p] = "user" /\ "signal" \in Kinds
  BY ChildIs, KindsAre DEF OnLadder
<1>2. /\ UNCHANGED state
      /\ \A k \in Tasks \ {p} : parts'[k] = parts[k] /\ own'[k] = own[k]
  BY DEF OnLadder
<1>3. \A k \in Tasks : state[k] = "new" /\ "signal" \in own[k] => Counted(k, "signal")
  BY <1>1 DEF Shape, TaskShape, Counted, Gone
<1>4. \A k \in Tasks \ {p} : Counted(k, "signal")' <=> Counted(k, "signal")
  BY <1>2 DEF Counted
<1>5. Counted(p, "signal")' => "signal" \in own'[p]
  BY <1>1, <1>2 DEF Counted
<1>6. "signal" \in own'[p] => \A u \in Tasks \ {p} : Counted(u, "signal") => parts'[p].signal # parts[u].signal
  BY <1>1 DEF SignalShape, Shape
<1> SUFFICES ASSUME NEW k \in Tasks, NEW u \in Tasks, state'[k] = "new", "signal" \in own'[k], u # k,
                    Counted(u, "signal")'
             PROVE  parts'[u].signal # parts'[k].signal
  BY DEF SignalShape
<1>7. CASE k = p
  BY <1>2, <1>4, <1>6, <1>7
<1>8. CASE k # p
  <2>1. state[k] = "new" /\ "signal" \in own[k] /\ parts'[k] = parts[k] /\ Counted(k, "signal")
    BY <1>2, <1>3, <1>8
  <2>2. CASE u = p
    BY <1>5, <1>6, <1>8, <2>1, <2>2
  <2>3. CASE u # p
    BY <1>2, <1>4, <2>1, <2>3 DEF SignalShape, Shape
  <2> QED
    BY <2>2, <2>3
<1> QED
  BY <1>7, <1>8

\* A stage i of t is left: what it takes for p joins what has been taken.
Joins(t, p, i, what) ==
  /\ step[t] = "copy" /\ p = lv[t].p /\ i = lv[t].i /\ i # 21 /\ what = Stages[i][1]
  /\ step'[t] = "copy" /\ lv'[t].i = i + 1 /\ lv'[t].p = p /\ lv'[t].flags = lv[t].flags
  /\ own'[p] = IF what \in NotOwned \/ ~Has(t, what) THEN own[p] ELSE own[p] \cup {what}
  /\ \A kind \in Kinds \ {what} : parts'[p][kind] = parts[p][kind]
  /\ ~Has(t, what) => parts'[p] = parts[p]
  /\ parts'[t] = parts[t]

LEMMA StageTaken ==
  ASSUME ForkConstantsOK, ForkInv, NEW t \in Tasks, NEW p \in Tasks, NEW i \in 1 .. 21, NEW what,
         Joins(t, p, i, what)
  PROVE  CopyAt(t)'
<1> USE DEF Joins
<1>1. /\ i \in 1 .. 20 /\ own[p] = {s \in Taken(i) \ NotOwned : Has(t, s)}
      /\ \A kind \in Kinds : kind \notin Taken(i) \/ ~Has(t, kind) => parts[p][kind] = parts[t][kind]
  <2>1. CopyAt(t)
    BY DEF ForkInv, Shape, CopyShape
  <2> QED
    BY <2>1 DEF CopyAt
<1>2. Taken(i + 1) = Taken(i) \cup {what} /\ i + 1 \in 1 .. 21
  BY <1>1, TakenNext
<1>4. \A s : Has(t, s)' <=> Has(t, s)
  BY DEF Has
<1>5. own'[p] = {s \in Taken(i + 1) \ NotOwned : Has(t, s)}
  BY <1>1, <1>2
<1>6. \A kind \in Kinds : kind \notin Taken(i + 1) \/ ~Has(t, kind) => parts'[p][kind] = parts'[t][kind]
  <2> SUFFICES ASSUME NEW kind \in Kinds, kind \notin Taken(i + 1) \/ ~Has(t, kind)
               PROVE  parts'[p][kind] = parts[t][kind]
    OBVIOUS
  <2>1. parts[p][kind] = parts[t][kind]
    BY <1>1, <1>2
  <2>2. parts'[p][kind] = parts[p][kind]
    BY <1>2
  <2> QED
    BY <2>1, <2>2
<1> QED
  BY <1>2, <1>4, <1>5, <1>6 DEF CopyAt

LEMMA CopyPrivateStep ==
  ASSUME ForkConstantsOK, ForkInv, NEW t \in Tasks, CopyPrivate(t)
  PROVE  ForkInv'
<1> USE DEF ForkInv
<1>0. PICK i \in 1 .. 21 : i = lv[t].i
  BY DEF Shape, CopyShape, CopyAt, CopyPrivate, Copying, InStep
<1>1. PICK what : i = lv[t].i /\ what = Stages[i][1]
  BY <1>0
<1>2. PICK p \in Tasks : p = lv[t].p
  BY ChildIs DEF CopyPrivate, Copying, InStep
<1>3. /\ step[t] = "copy" /\ what \notin Kinds /\ what # "publish"
      /\ own' = IF what \in NotOwned \/ ~Has(t, what) THEN own ELSE [own EXCEPT ![p] = @ \cup {what}]
      /\ lv' = [lv EXCEPT ![t] = [lv[t] EXCEPT !.i = @ + 1]]
      /\ UNCHANGED <<state, parts, users, live, nr_threads, in_exec, usage, vfork_done, done, killed,
                     todo, bug, step>>
  BY <1>1, <1>2 DEF CopyPrivate, Copying, InStep, NextStage, Keep, Stage, Ladder, NotOwned
<1>4. /\ state[t] = "live" /\ p # t /\ state[p] = "new" /\ step[p] = "user"
      /\ \A m \in Kinds : parts[p][m] # None
  BY <1>2, <1>3, ChildIs
<1>5. i # 21 /\ (what \notin NotOwned => what \in Takes)
  BY <1>1, <1>3, StageIs
<1>6. /\ \A k \in Tasks \ {p} : own'[k] = own[k]
      /\ own'[p] = IF what \in NotOwned \/ ~Has(t, what) THEN own[p] ELSE own[p] \cup {what}
      /\ own' \in [Tasks -> SUBSET Takes]
  BY <1>3, <1>5 DEF ForkTypes
<1>7. OnLadder(t)
  <2>1. i + 1 \in Nat /\ lv' = [lv EXCEPT ![t] = [lv[t] EXCEPT !.i = i + 1]]
    BY <1>1, <1>3
  <2>2. step' = [step EXCEPT ![t] = "copy"]
    BY <1>3 DEF ForkTypes
  <2> QED
    BY <1>2, <1>3, <1>4, <1>6, <2>1, <2>2 DEF OnLadder
<1>8. \A k \in Tasks : \A m \in Kinds : Counted(k, m)' <=> Counted(k, m)
  BY <1>3, <1>6 DEF Counted
<1>9. "fs" \in Kinds /\ "signal" \in Kinds
  BY KindsAre
<1>10. /\ TaskShape' /\ MadeShape' /\ ParentsShape' /\ UsageExact' /\ VforkValid' /\ DoneShape'
       /\ ThreadsExact' /\ step' \in [Tasks -> Pcs] /\ lv' \in [Tasks -> Locals]
       /\ \A k \in Tasks : lv'[k].new = lv[k].new
       /\ CopyAt(t)' => CopyShape'
       /\ UndoAt(t)' => UndoShape'
  BY <1>7, LadderKept
<1>11. UsersExact' /\ LiveExact'
  <2>1. /\ \A kind \in Kinds : \A id : Having(kind, id)' = Having(kind, id) /\ Making(kind, id)' = Making(kind, id)
        /\ \A id : LiveIn(id)' = LiveIn(id)
    BY <1>3, <1>8, <1>9, <1>10 DEF Having, Making, LiveIn
  <2> QED
    BY <1>3, <2>1 DEF UsersExact, LiveExact
<1>12. ExecShape' /\ SignalShape'
  BY <1>2, <1>3, <1>6, <1>7, <1>8, <1>9, LadderExec, LadderSignal DEF Counted
<1>13. CopyAt(t)' /\ UndoAt(t)'
  <2>1. lv'[t].i = i + 1 /\ lv'[t].p = p /\ lv'[t].flags = lv[t].flags
    BY <1>1, <1>2, <1>3 DEF ForkTypes, Locals
  <2>2. Joins(t, p, i, what)
    BY <1>1, <1>2, <1>3, <1>5, <1>6, <2>1 DEF Joins
  <2>3. CopyAt(t)'
    BY <2>2, StageTaken
  <2> QED
    BY <1>3, <2>3 DEF UndoAt
<1>14. ForkTypes'
  BY <1>3, <1>6, <1>10 DEF ForkTypes
<1> QED
  BY <1>3, <1>10, <1>11, <1>12, <1>13, <1>14 DEF Shape

LEMMA CopyFailsStep ==
  ASSUME ForkConstantsOK, ForkInv, NEW t \in Tasks, CopyFails(t)
  PROVE  ForkInv'
<1> USE DEF ForkInv
<1>1. PICK i \in 1 .. 21 : /\ i = lv[t].i /\ own[lv[t].p] = {s \in Taken(i) \ NotOwned : Has(t, s)}
                           /\ step[t] = "copy"
  BY DEF Shape, CopyShape, CopyAt, CopyFails, Copying, InStep
<1>2. PICK p \in Tasks : p = lv[t].p
  BY <1>1, ChildIs
<1>3. PICK j : j = Position(Stages[i][2])
  OBVIOUS
<1>4. /\ Stages[i][2] # "none"
      /\ lv' = [lv EXCEPT ![t] = [lv[t] EXCEPT !.i = j]] /\ step' = [step EXCEPT ![t] = "undo"]
      /\ UNCHANGED <<state, parts, users, live, nr_threads, in_exec, own, usage, vfork_done, done, killed,
                     todo, bug>>
  BY <1>1, <1>3 DEF CopyFails, Copying, Keep, Move, Stage, Ladder
<1>5. j \in 1 .. 19 /\ Taken(i) \ NotOwned = UndoneFrom(j)
  BY <1>3, <1>4, LadderExact
<1>6. \A m \in Kinds : parts[p][m] # None
  BY <1>1, <1>2, ChildIs
<1>7. OnLadder(t)
  <2>0. j \in Nat /\ "undo" \in {"copy", "undo"}
    BY <1>5
  <2>1. \E l \in {"copy", "undo"}, n \in Nat :
          step' = [step EXCEPT ![t] = l] /\ lv' = [lv EXCEPT ![t] = [lv[t] EXCEPT !.i = n]]
    BY <1>4, <2>0, Zenon
  <2>2. \A m \in Kinds : parts'[lv[t].p][m] # None
    BY <1>2, <1>4, <1>6
  <2> QED
    BY <1>1, <1>4, <2>1, <2>2 DEF OnLadder
<1>8. \A k \in Tasks : \A m \in Kinds : Counted(k, m)' <=> Counted(k, m)
  BY <1>4 DEF Counted
<1>9. "fs" \in Kinds /\ "signal" \in Kinds
  BY KindsAre
<1>10. /\ TaskShape' /\ MadeShape' /\ ParentsShape' /\ UsageExact' /\ VforkValid' /\ DoneShape'
       /\ ThreadsExact' /\ step' \in [Tasks -> Pcs] /\ lv' \in [Tasks -> Locals]
       /\ \A k \in Tasks : lv'[k].new = lv[k].new /\ (step'[k] \in ExitPcs <=> step[k] \in ExitPcs)
       /\ \A k \in Tasks : lv'[k].p = lv[k].p /\ lv'[k].flags = lv[k].flags
       /\ CopyAt(t)' => CopyShape'
       /\ UndoAt(t)' => UndoShape'
  BY <1>7, LadderKept
<1>11. UsersExact' /\ LiveExact'
  BY <1>4, <1>10, CountsSame DEF Counts
<1>12. SignalShape'
  BY <1>4, <1>8, <1>9, SignalKept
<1>13. ExecShape'
  BY <1>2, <1>4, <1>7, <1>8, <1>9, LadderExec
<1>14. UndoAt(t)' /\ CopyAt(t)'
  <2>1. step'[t] = "undo" /\ lv'[t].i = j /\ lv'[t].p = p
    BY <1>2, <1>4, <1>10 DEF ForkTypes, Locals
  <2>2. \A s : Has(t, s)' <=> Has(t, s)
    BY <1>10 DEF Has
  <2>3. own'[p] = {s \in UndoneFrom(j) : Has(t, s)}
    BY <1>1, <1>2, <1>4, <1>5
  <2> QED
    BY <1>5, <2>1, <2>2, <2>3 DEF UndoAt, CopyAt
<1>15. ForkTypes'
  BY <1>4, <1>10 DEF ForkTypes
<1> QED
  BY <1>4, <1>10, <1>11, <1>12, <1>13, <1>14, <1>15 DEF Shape

\* The child has taken each part of its own, but for the signal_struct of a thread.
LEMMA HasKind ==
  ASSUME NEW t, NEW kind \in Kinds
  PROVE  /\ Has(t, kind) <=> kind # "signal" \/ Flag[kind] \notin lv[t].flags
         /\ kind \notin NotOwned
BY KindsAre DEF Has, Flag, NotOwned

\* What copy_files() to copy_mm() change: a part of the child, and its counts.
LEMMA CopyPartDoes ==
  ASSUME ForkConstantsOK, ForkInv, NEW t \in Tasks, CopyPart(t), NEW p \in Tasks, p = lv[t].p,
         NEW kind \in Kinds, kind = Stage(t)[1], kind \notin own[p],
         parts[p][kind] = parts[t][kind]
  PROVE  /\ parts' \in [Tasks -> [Kinds -> OrNone]] /\ users' \in [Kinds -> [Ids -> Int]]
         /\ live' \in [Ids -> Int]
         /\ \A k \in Tasks \ {p} : parts'[k] = parts[k]
         /\ \A m \in Kinds \ {kind} : parts'[p][m] = parts[p][m]
         /\ parts'[p][kind] \in Ids
         /\ ~Has(t, kind) => parts'[p] = parts[p]
         /\ \A m \in Kinds : \A id \in Ids :
              users'[m][id] = users[m][id] + One(m = kind /\ Has(t, kind) /\ parts'[p][kind] = id)
         /\ \A id \in Ids :
              live'[id] = live[id] + One(kind = "signal" /\ Has(t, kind) /\ parts'[p][kind] = id)
         /\ kind = "signal" /\ Has(t, kind) =>
              \A u \in Tasks : Counted(u, "signal") => parts'[p].signal # parts[u].signal
         /\ kind = "fs" => \A u \in Tasks : step[u] \in ExecPcs /\ ~lv[u].unsafe
                                            => parts'[p].fs # parts[u].fs
<1> USE DEF ForkInv
<1>1. /\ step[t] = "copy" /\ UNCHANGED in_exec
      /\ \A m \in Kinds : parts[p][m] \in Ids
      /\ Has(t, kind) <=> kind # "signal" \/ Flag[kind] \notin lv[t].flags
      /\ "fs" \in Kinds /\ "signal" \in Kinds
  BY ChildIs, HasKind, KindsAre DEF CopyPart, Copying, InStep
<1>2. \A u \in Tasks : step[u] \in ExecPcs =>
        "fs" \notin Gone(step[u]) /\ state[u] = "live" /\ step[u] # "user"
  BY DEF Shape, TaskShape, ExecPcs, Gone
<1>3. \A u \in Tasks : step[u] \in ExecPcs => Counted(u, "fs") /\ parts[u].fs \in Ids
  BY <1>1, <1>2, LiveHas
<1>4. CASE Flag[kind] \in lv[t].flags
  <2>1. /\ ~Refuses(t, kind) /\ UNCHANGED <<parts, live>>
        /\ users' = IF kind = "signal" THEN users ELSE [users EXCEPT ![kind][parts[t][kind]] = @ + 1]
    BY <1>4 DEF CopyPart
  <2>2. Has(t, kind) <=> kind # "signal"
    BY <1>1, <1>4
  <2> DEFINE id0 == parts[p][kind]
  <2>3. id0 \in Ids /\ parts[t][kind] = id0
    BY <1>1
  <2> HIDE DEF id0
  <2>4. /\ users' \in [Kinds -> [Ids -> Int]]
        /\ \A m \in Kinds : \A id \in Ids :
             users'[m][id] = users[m][id] + One(m = kind /\ kind # "signal" /\ id0 = id)
    <3>1. CASE kind = "signal"
      BY <2>1, <3>1 DEF ForkTypes, One
    <3>2. CASE kind # "signal"
      BY <2>1, <2>3, <3>2 DEF ForkTypes, One
    <3> QED
      BY <3>1, <3>2
  <2>5. kind = "fs" => \A u \in Tasks : step[u] \in ExecPcs /\ ~lv[u].unsafe
                                        => parts'[p].fs # parts[u].fs
    <3>1. kind = "fs" => ~in_exec[parts[t].fs] /\ parts'[p].fs = parts[t].fs
      BY <2>1 DEF Refuses
    <3> QED
      BY <3>1 DEF ExecShape, Shape
  <2>6. \A id \in Ids : live'[id] = live[id] + One(kind = "signal" /\ Has(t, kind) /\ parts'[p][kind] = id)
    BY <2>1, <2>2 DEF One, ForkTypes
  <2>7. parts' \in [Tasks -> [Kinds -> OrNone]] /\ live' \in [Ids -> Int]
    BY <2>1 DEF ForkTypes
  <2>8. id0 = parts'[p][kind]
    BY <2>1 DEF id0
  <2> QED
    BY <1>1, <2>1, <2>2, <2>3, <2>4, <2>5, <2>6, <2>7, <2>8
<1>5. CASE Flag[kind] \notin lv[t].flags
  <2> DEFINE id0 == Fresh(kind)
  <2>1. /\ Unused(kind) # {} /\ parts' = [parts EXCEPT ![p][kind] = id0]
        /\ users' = [users EXCEPT ![kind][id0] = 1]
        /\ live' = IF kind = "signal" THEN [live EXCEPT ![id0] = 1] ELSE live
    BY <1>5 DEF CopyPart
  <2>2. Has(t, kind)
    BY <1>1, <1>5
  <2>3. /\ id0 \in Ids /\ id0 # None /\ users[kind][id0] = 0
        /\ \A k \in Tasks : ~(parts[k][kind] = id0 /\ Counted(k, kind))
    BY <2>1, FreshIs
  <2> HIDE DEF id0
  <2>4. /\ parts' \in [Tasks -> [Kinds -> OrNone]]
        /\ \A k \in Tasks \ {p} : parts'[k] = parts[k]
        /\ \A m \in Kinds \ {kind} : parts'[p][m] = parts[p][m]
        /\ parts'[p][kind] = id0
    BY <2>1, <2>3 DEF ForkTypes, OrNone
  <2>5. /\ users' \in [Kinds -> [Ids -> Int]]
        /\ \A m \in Kinds : \A id \in Ids :
             users'[m][id] = users[m][id] + One(m = kind /\ id0 = id)
    BY <2>1, <2>3 DEF ForkTypes, One
  <2>6. kind = "signal" => live[id0] = 0
    <3>1. ASSUME kind = "signal" PROVE LiveIn(id0) = {}
      BY <2>3, <3>1 DEF LiveIn
    <3> QED
      BY <2>3, <3>1, FS_EmptySet DEF LiveExact
  <2>7. /\ live' \in [Ids -> Int]
        /\ \A id \in Ids : live'[id] = live[id] + One(kind = "signal" /\ id0 = id)
    BY <2>1, <2>3, <2>6 DEF ForkTypes, One
  <2>8. kind = "fs" => \A u \in Tasks : step[u] \in ExecPcs => parts'[p].fs # parts[u].fs
    BY <1>3, <2>3, <2>4
  <2> QED
    BY <2>2, <2>3, <2>4, <2>5, <2>7, <2>8
<1> QED
  BY <1>4, <1>5

LEMMA CopyPartStep ==
  ASSUME ForkConstantsOK, ForkInv, NEW t \in Tasks, CopyPart(t)
  PROVE  ForkInv'
<1> USE DEF ForkInv
<1>1. PICK i \in 1 .. 21 :
        /\ i = lv[t].i
        /\ own[lv[t].p] = {s \in Taken(i) \ NotOwned : Has(t, s)}
        /\ \A m \in Kinds : m \notin Taken(i) \/ ~Has(t, m) => parts[lv[t].p][m] = parts[t][m]
  BY DEF Shape, CopyShape, CopyAt, CopyPart, Copying, InStep
<1>2. PICK kind \in Kinds : kind = Stages[i][1]
  BY <1>1 DEF CopyPart, Stage, Ladder
<1>3. PICK p \in Tasks : p = lv[t].p
  BY ChildIs DEF CopyPart, Copying, InStep
<1>4. /\ step[t] = "copy"
      /\ own' = [own EXCEPT ![p] = IF Has(t, kind) THEN @ \cup {kind} ELSE @]
      /\ lv' = [lv EXCEPT ![t] = [lv[t] EXCEPT !.i = @ + 1]]
      /\ UNCHANGED <<state, nr_threads, in_exec, usage, vfork_done, done, killed, todo, bug, step>>
  BY <1>1, <1>2, <1>3 DEF CopyPart, Copying, InStep, NextStage, Keep, Stage, Ladder
<1>5. /\ state[t] = "live" /\ p # t /\ state[p] = "new" /\ step[p] = "user"
      /\ \A m \in Kinds : parts[p][m] \in Ids /\ parts[p][m] # None
  BY <1>3, <1>4, ChildIs
<1>6. kind \notin Taken(i) /\ i # 21 /\ kind \in Takes /\ kind \notin NotOwned
  <2>1. "publish" \notin Kinds
    BY KindsAre
  <2> QED
    BY <1>2, <2>1, StageIs, HasKind
<1>7. kind \notin own[p] /\ parts[p][kind] = parts[t][kind]
  BY <1>1, <1>3, <1>6
<1>8. kind = Stage(t)[1]
  BY <1>1, <1>2 DEF Stage, Ladder
<1>9. /\ parts' \in [Tasks -> [Kinds -> OrNone]] /\ users' \in [Kinds -> [Ids -> Int]]
      /\ live' \in [Ids -> Int]
      /\ \A k \in Tasks \ {p} : parts'[k] = parts[k]
      /\ \A m \in Kinds \ {kind} : parts'[p][m] = parts[p][m]
      /\ parts'[p][kind] \in Ids
      /\ ~Has(t, kind) => parts'[p] = parts[p]
      /\ \A m \in Kinds : \A id \in Ids :
           users'[m][id] = users[m][id] + One(m = kind /\ Has(t, kind) /\ parts'[p][kind] = id)
      /\ \A id \in Ids :
           live'[id] = live[id] + One(kind = "signal" /\ Has(t, kind) /\ parts'[p][kind] = id)
      /\ kind = "signal" /\ Has(t, kind) =>
           \A u \in Tasks : Counted(u, "signal") => parts'[p].signal # parts[u].signal
      /\ kind = "fs" => \A u \in Tasks : step[u] \in ExecPcs /\ ~lv[u].unsafe
                                         => parts'[p].fs # parts[u].fs
  <2> HIDE DEF ForkInv
  <2> QED
    BY <1>3, <1>7, <1>8, CopyPartDoes
<1>10. /\ \A k \in Tasks \ {p} : own'[k] = own[k]
       /\ own'[p] = IF Has(t, kind) THEN own[p] \cup {kind} ELSE own[p]
       /\ own' \in [Tasks -> SUBSET Takes]
  BY <1>4, <1>6 DEF ForkTypes
<1>11. \A m \in Kinds : parts'[p][m] \in Ids /\ parts'[p][m] # None
  BY <1>5, <1>9 DEF ForkConstantsOK
<1>12. OnLadder(t)
  <2>1. i + 1 \in Nat /\ lv' = [lv EXCEPT ![t] = [lv[t] EXCEPT !.i = i + 1]]
    BY <1>1, <1>4
  <2>2. step' = [step EXCEPT ![t] = "copy"]
    BY <1>4 DEF ForkTypes
  <2> QED
    BY <1>3, <1>4, <1>9, <1>10, <1>11, <2>1, <2>2 DEF OnLadder
<1>13. /\ TaskShape' /\ MadeShape' /\ ParentsShape' /\ UsageExact' /\ VforkValid' /\ DoneShape'
       /\ ThreadsExact' /\ step' \in [Tasks -> Pcs] /\ lv' \in [Tasks -> Locals]
       /\ Others(p)
       /\ \A k \in Tasks : lv'[k].new = lv[k].new
       /\ CopyAt(t)' => CopyShape'
       /\ UndoAt(t)' => UndoShape'
  BY <1>3, <1>12, LadderKept
<1>14. /\ \A m \in Kinds : Counted(p, m) <=> m \in own[p]
       /\ \A m \in Kinds : Counted(p, m)' <=> m \in own[p] \/ (m = kind /\ Has(t, kind))
  BY <1>4, <1>5, <1>10, <1>11 DEF Counted
<1>15. UsersExact'
  <2>1. ASSUME NEW m \in Kinds, NEW id \in Ids
        PROVE  users'[m][id] = users[m][id] - One(p \in Having(m, id)) + One(p \in Having(m, id)')
                 - One(t \in Making(m, id)) + One(t \in Making(m, id)')
    <3>1. t \in Making(m, id) <=> t \in Making(m, id)'
      BY <1>13 DEF Making
    <3>2. /\ users'[m][id] = users[m][id] + One(m = kind /\ Has(t, kind) /\ parts'[p][kind] = id)
          /\ users[m][id] \in Int
      BY <1>9 DEF ForkTypes
    <3>3. /\ p \in Having(m, id) <=> parts[p][m] = id /\ m \in own[p]
          /\ p \in Having(m, id)' <=> parts'[p][m] = id /\ (m \in own[p] \/ (m = kind /\ Has(t, kind)))
      BY <1>14 DEF Having
    <3>4. CASE m # kind
      <4>1. parts'[p][m] = parts[p][m]
        BY <1>9, <3>4
      <4> QED
        BY <3>1, <3>2, <3>3, <3>4, <4>1 DEF One
    <3>5. CASE m = kind
      BY <1>7, <3>1, <3>2, <3>3, <3>5 DEF One
    <3> QED
      BY <3>4, <3>5
  <2> QED
    BY <1>13, <2>1, UsersKept
<1>16. "fs" \in Kinds /\ "signal" \in Kinds
  BY KindsAre
<1>17. LiveExact'
  <2>1. ASSUME NEW id \in Ids
        PROVE  live'[id] = live[id] - One(p \in LiveIn(id)) + One(p \in LiveIn(id)')
    <3>1. /\ live'[id] = live[id] + One(kind = "signal" /\ Has(t, kind) /\ parts'[p][kind] = id)
          /\ live[id] \in Int
      BY <1>9 DEF ForkTypes
    <3>2. /\ p \in LiveIn(id) <=> parts[p].signal = id /\ "signal" \in own[p]
          /\ p \in LiveIn(id)' <=> parts'[p].signal = id
                                   /\ ("signal" \in own[p] \/ (kind = "signal" /\ Has(t, kind)))
      BY <1>4, <1>5, <1>14, <1>16 DEF LiveIn, ExitPcs
    <3>3. CASE kind # "signal"
      BY <1>9, <1>16, <3>1, <3>2, <3>3 DEF One
    <3>4. CASE kind = "signal"
      BY <1>7, <3>1, <3>2, <3>4 DEF One
    <3> QED
      BY <3>3, <3>4
  <2> QED
    BY <1>4, <1>13, <2>1, LiveKept
<1>18. ExecShape'
  <2>1. kind # "fs" => (Counted(p, "fs")' => Counted(p, "fs") /\ parts'[p].fs = parts[p].fs)
    BY <1>9, <1>14, <1>16
  <2> QED
    BY <1>3, <1>9, <1>12, <2>1, LadderExec
<1>19. SignalShape'
  <2>1. kind # "signal" => ("signal" \in own'[p] => "signal" \in own[p] /\ parts'[p].signal = parts[p].signal)
    BY <1>9, <1>10, <1>16
  <2>2. kind = "signal" /\ ~Has(t, kind) => "signal" \notin own'[p]
    BY <1>7, <1>10
  <2> QED
    BY <1>3, <1>9, <1>12, <2>1, <2>2, LadderSignal, ZenonT(30)
<1>20. CopyAt(t)' /\ UndoAt(t)'
  <2>1. lv'[t].i = i + 1 /\ lv'[t].p = p /\ lv'[t].flags = lv[t].flags
    BY <1>1, <1>3, <1>4 DEF ForkTypes, Locals
  <2>2. step'[t] = "copy" /\ parts'[t] = parts[t]
    BY <1>4, <1>5, <1>9
  <2>3. own'[p] = IF kind \in NotOwned \/ ~Has(t, kind) THEN own[p] ELSE own[p] \cup {kind}
    BY <1>6, <1>10
  <2>4. Joins(t, p, i, kind)
    BY <1>1, <1>2, <1>3, <1>4, <1>6, <1>9, <2>1, <2>2, <2>3 DEF Joins
  <2>5. CopyAt(t)'
    BY <2>4, StageTaken
  <2> QED
    BY <2>2, <2>5 DEF UndoAt
<1>21. ForkTypes'
  BY <1>4, <1>9, <1>10, <1>13 DEF ForkTypes
<1> QED
  BY <1>4, <1>13, <1>15, <1>17, <1>18, <1>19, <1>20, <1>21 DEF Shape

\* What a label i undoes is the child's, and is given up.
Undoes(t, p, i, what) ==
  p = lv[t].p /\ i = lv[t].i /\ what = Undos[i] /\ own[p] = {s \in UndoneFrom(i) : Has(t, s)}

LEMMA UndoGives ==
  ASSUME ForkConstantsOK, ForkInv, NEW t \in Tasks, Undo(t), NEW p \in Tasks,
         NEW i \in 1 .. 19, NEW what, Undoes(t, p, i, what)
  PROVE  /\ users' \in [Kinds -> [Ids -> Int]] /\ live' \in [Ids -> Int] /\ bug' = FALSE
         /\ \A m \in Kinds : \A id \in Ids :
              users'[m][id] = users[m][id] - One(m = what /\ Has(t, what) /\ parts[p][m] = id)
         /\ \A id \in Ids :
              live'[id] = live[id] - One(what = "signal" /\ Has(t, what) /\ parts[p].signal = id)
         /\ Has(t, what) <=> what \in own[p]
<1> USE DEF ForkInv, Undoes
<1> DEFINE kinds == IF what \in Kinds /\ Has(t, what) THEN {what} ELSE {}
           ps == parts[p]
<1>1. /\ step[t] = "undo" /\ users' = Put(users, ps, kinds)
      /\ bug' = (bug \/ Over(users, ps, kinds) \/ (Has(t, what) /\ what \notin own[p]))
      /\ live' = IF kinds = {"signal"} THEN [live EXCEPT ![ps.signal] = 0] ELSE live
  BY DEF Undo, InStep
<1>2. /\ \A m \in Kinds : ps[m] \in Ids /\ ps[m] # None
      /\ state[p] = "new" /\ step[p] = "user" /\ "signal" \in Kinds
      /\ users \in [Kinds -> [Ids -> Int]] /\ ps \in [Kinds -> OrNone]
  <2>1. /\ \A m \in Kinds : parts[p][m] \in Ids /\ parts[p][m] # None
        /\ state[p] = "new" /\ step[p] = "user"
    BY <1>1, ChildIs
  <2> QED
    BY <2>1, KindsAre DEF ForkTypes
<1>3. Has(t, what) <=> what \in own[p]
  BY DEF UndoneFrom
<1>4. \A m : m \in kinds <=> m \in Kinds /\ m = what /\ Has(t, what)
  OBVIOUS
<1>5. \A m \in Kinds : m \in kinds => Counted(p, m)
  BY <1>2, <1>3, <1>4 DEF Counted
<1>6. kinds = {"signal"} <=> what = "signal" /\ Has(t, what)
  BY <1>2
<1> HIDE DEF kinds
<1>7. bug' = FALSE
  <2>1. \A m \in kinds : users[m][ps[m]] >= 1
    BY <1>2, <1>4, <1>5, HolderCounted
  <2>2. ~Over(users, ps, kinds)
    BY <2>1 DEF Over
  <2> QED
    BY <1>1, <1>3, <2>2, Zenon
<1>8. ps.signal \in Ids /\ (what = "signal" /\ Has(t, what) => live[ps.signal] = 1)
  <2>1. ASSUME what = "signal", Has(t, what) PROVE LiveIn(ps.signal) = {p}
    <3>1. "signal" \in own[p] /\ Counted(p, "signal")
      BY <1>2, <1>3, <1>4, <1>5, <2>1
    <3>2. \A u \in Tasks : u # p /\ Counted(u, "signal") => parts[u].signal # ps.signal
      BY <1>2, <3>1 DEF SignalShape, Shape
    <3> QED
      BY <1>2, <3>1, <3>2 DEF LiveIn, ExitPcs
  <2>2. Cardinality({p}) = 1
    BY FS_Singleton
  <2> QED
    BY <1>2, <2>1, <2>2 DEF LiveExact
<1> HIDE DEF ps
<1>9. /\ users' \in [Kinds -> [Ids -> Int]]
      /\ \A m \in Kinds : \A id \in Ids :
           users'[m][id] = IF m \in kinds /\ ps[m] = id THEN users[m][id] - 1 ELSE users[m][id]
  BY <1>1, <1>2, PutIs
<1>10. \A m \in Kinds : \A id \in Ids :
         users'[m][id] = users[m][id] - One(m = what /\ Has(t, what) /\ parts[p][m] = id)
  <2> SUFFICES ASSUME NEW m \in Kinds, NEW id \in Ids
               PROVE  users'[m][id] = users[m][id] - One(m = what /\ Has(t, what) /\ ps[m] = id)
    BY DEF ps
  <2>1. users[m][id] \in Int
    BY <1>2
  <2>2. users'[m][id] = IF m = what /\ Has(t, what) /\ ps[m] = id THEN users[m][id] - 1 ELSE users[m][id]
    BY <1>4, <1>9
  <2> QED
    BY <2>1, <2>2 DEF One
<1>11. live' \in [Ids -> Int] /\ live \in [Ids -> Int]
  BY <1>1, <1>8 DEF ForkTypes
<1>12. \A id \in Ids : live'[id] = live[id] - One(what = "signal" /\ Has(t, what) /\ parts[p].signal = id)
  BY <1>1, <1>6, <1>8, <1>11 DEF One, ps
<1> QED
  BY <1>3, <1>7, <1>9, <1>10, <1>11, <1>12

\* A label but the last.
LEMMA UndoPartStep ==
  ASSUME ForkConstantsOK, ForkInv, NEW t \in Tasks, Undo(t), lv[t].i # 19
  PROVE  ForkInv'
<1> USE DEF ForkInv
<1>1. PICK i \in 1 .. 19 : i = lv[t].i /\ own[lv[t].p] = {s \in UndoneFrom(i) : Has(t, s)}
  BY DEF Shape, UndoShape, UndoAt, Undo, InStep
<1>2. PICK p \in Tasks : p = lv[t].p
  BY ChildIs DEF Undo, InStep
<1>3. PICK what : what = Undos[i]
  OBVIOUS
<1>4. what # "task"
  BY <1>1, <1>3, UndosAre, UndosDistinct
<1>5. /\ step[t] = "undo" /\ own' = [own EXCEPT ![p] = @ \ {what}]
      /\ lv' = [lv EXCEPT ![t] = [lv[t] EXCEPT !.i = @ + 1]]
      /\ UNCHANGED <<state, parts, nr_threads, in_exec, usage, vfork_done, done, killed, todo, step>>
  BY <1>1, <1>2, <1>3, <1>4 DEF Undo, InStep, Keep
<1>6. /\ users' \in [Kinds -> [Ids -> Int]] /\ live' \in [Ids -> Int] /\ bug' = FALSE
      /\ \A m \in Kinds : \A id \in Ids :
           users'[m][id] = users[m][id] - One(m = what /\ Has(t, what) /\ parts[p][m] = id)
      /\ \A id \in Ids :
           live'[id] = live[id] - One(what = "signal" /\ Has(t, what) /\ parts[p].signal = id)
      /\ Has(t, what) <=> what \in own[p]
  <2>1. Undoes(t, p, i, what)
    BY <1>1, <1>2, <1>3 DEF Undoes
  <2> QED
    BY <2>1, UndoGives
<1>7. /\ p # t /\ state[p] = "new" /\ step[p] = "user"
      /\ \A m \in Kinds : parts[p][m] # None
  BY <1>2, <1>5, ChildIs
<1>8. /\ \A k \in Tasks \ {p} : own'[k] = own[k]
      /\ own'[p] = own[p] \ {what} /\ own' \in [Tasks -> SUBSET Takes]
  BY <1>5 DEF ForkTypes
<1>9. OnLadder(t)
  <2>1. i + 1 \in Nat /\ lv' = [lv EXCEPT ![t] = [lv[t] EXCEPT !.i = i + 1]]
    BY <1>1, <1>5
  <2>2. step' = [step EXCEPT ![t] = "undo"]
    BY <1>5 DEF ForkTypes
  <2> QED
    BY <1>2, <1>5, <1>7, <1>8, <2>1, <2>2 DEF OnLadder
<1>10. /\ TaskShape' /\ MadeShape' /\ ParentsShape' /\ UsageExact' /\ VforkValid' /\ DoneShape'
       /\ ThreadsExact' /\ step' \in [Tasks -> Pcs] /\ lv' \in [Tasks -> Locals]
       /\ Others(p)
       /\ \A k \in Tasks : lv'[k].new = lv[k].new
       /\ \A k \in Tasks : lv'[k].p = lv[k].p /\ lv'[k].flags = lv[k].flags
       /\ CopyAt(t)' => CopyShape'
       /\ UndoAt(t)' => UndoShape'
  BY <1>2, <1>9, LadderKept
<1>11. /\ \A m \in Kinds : Counted(p, m) <=> m \in own[p]
       /\ \A m \in Kinds : Counted(p, m)' <=> m \in own[p] /\ m # what
  BY <1>5, <1>7, <1>8 DEF Counted
<1>12. UsersExact'
  <2>1. ASSUME NEW m \in Kinds, NEW id \in Ids
        PROVE  users'[m][id] = users[m][id] - One(p \in Having(m, id)) + One(p \in Having(m, id)')
                 - One(t \in Making(m, id)) + One(t \in Making(m, id)')
    <3>1. t \in Making(m, id) <=> t \in Making(m, id)'
      BY <1>10 DEF Making
    <3>2. /\ users'[m][id] = users[m][id] - One(m = what /\ Has(t, what) /\ parts[p][m] = id)
          /\ users[m][id] \in Int
      BY <1>6 DEF ForkTypes
    <3>3. /\ p \in Having(m, id) <=> parts[p][m] = id /\ m \in own[p]
          /\ p \in Having(m, id)' <=> parts[p][m] = id /\ m \in own[p] /\ m # what
      BY <1>5, <1>11 DEF Having
    <3>4. CASE m # what
      BY <3>1, <3>2, <3>3, <3>4 DEF One
    <3>5. CASE m = what
      <4>1. Has(t, what) <=> m \in own[p]
        BY <1>6, <3>5
      <4> QED
        BY <3>1, <3>2, <3>3, <3>5, <4>1 DEF One
    <3> QED
      BY <3>4, <3>5
  <2> QED
    BY <1>10, <2>1, UsersKept
<1>13. "fs" \in Kinds /\ "signal" \in Kinds
  BY KindsAre
<1>14. LiveExact'
  <2>1. ASSUME NEW id \in Ids
        PROVE  live'[id] = live[id] - One(p \in LiveIn(id)) + One(p \in LiveIn(id)')
    <3>1. /\ live'[id] = live[id] - One(what = "signal" /\ Has(t, what) /\ parts[p].signal = id)
          /\ live[id] \in Int
      BY <1>6 DEF ForkTypes
    <3>2. /\ p \in LiveIn(id) <=> parts[p].signal = id /\ "signal" \in own[p]
          /\ p \in LiveIn(id)' <=> parts[p].signal = id /\ "signal" \in own[p] /\ "signal" # what
      BY <1>5, <1>7, <1>11, <1>13 DEF LiveIn, ExitPcs
    <3> QED
      BY <1>6, <3>1, <3>2 DEF One
  <2> QED
    BY <1>5, <1>10, <2>1, LiveKept
<1>15. ExecShape'
  <2>1. Counted(p, "fs")' => Counted(p, "fs") /\ parts'[p].fs = parts[p].fs
    BY <1>5, <1>11, <1>13
  <2> QED
    BY <1>2, <1>9, <2>1, LadderExec
<1>16. SignalShape'
  <2>1. "signal" \in own'[p] => "signal" \in own[p] /\ parts'[p].signal = parts[p].signal
    BY <1>5, <1>8
  <2> QED
    BY <1>2, <1>9, <2>1, LadderSignal
<1>17. CopyAt(t)' /\ UndoAt(t)'
  <2>1. step'[t] = "undo" /\ lv'[t].i = i + 1 /\ lv'[t].p = p
    BY <1>1, <1>2, <1>5, <1>10 DEF ForkTypes, Locals
  <2>2. \A s : Has(t, s)' <=> Has(t, s)
    BY <1>10 DEF Has
  <2>3. i \in 1 .. 18 /\ i + 1 \in 1 .. 19
    BY <1>1
  <2>4. own'[p] = {s \in UndoneFrom(i + 1) : Has(t, s)}
    BY <1>1, <1>2, <1>3, <1>8, <2>3, UndoneNext
  <2> QED
    BY <2>1, <2>2, <2>3, <2>4 DEF CopyAt, UndoAt
<1>18. ForkTypes'
  BY <1>5, <1>6, <1>8, <1>10 DEF ForkTypes
<1> QED
  BY <1>6, <1>10, <1>12, <1>14, <1>15, <1>16, <1>17, <1>18 DEF Shape

-----------------------------------------------------------------------------
(* The parent after the ladder: it wakes its child, and may wait for it.     *)

\* t, whose child is p, moves to step l, and back to its program or not.
ParentMoves(t, p, l) ==
  /\ p = lv[t].p /\ step[t] \in ParentPcs /\ l \in {"user", "wake", "vfork", "vfork_killed"}
  /\ step' = [step EXCEPT ![t] = l]
  /\ lv' = [lv EXCEPT ![t] = IF l = "user" THEN Local ELSE lv[t]]
  /\ \A k \in Tasks \ {p} : parts'[k] = parts[k] /\ state'[k] = state[k] /\ own'[k] = own[k]
  /\ step[t] \in VforkPcs => parts'[p] = parts[p]
  /\ l = "wake" => state'[p] = "visible"

LEMMA ParentKept ==
  ASSUME ForkConstantsOK, ForkInv, NEW t \in Tasks, NEW p \in Tasks, NEW l \in Pcs,
         ParentMoves(t, p, l)
  PROVE  /\ step' \in [Tasks -> Pcs] /\ lv' \in [Tasks -> Locals]
         /\ state[t] = "live" /\ step'[t] = l /\ step[t] \in ParentPcs /\ Others(p)
         /\ \A k \in Tasks \ {t} : step'[k] = step[k] /\ lv'[k] = lv[k] /\ lv[k].p # p
         /\ lv'[t] = IF l = "user" THEN Local ELSE lv[t]
         /\ \A k \in Tasks : lv'[k].new = lv[k].new /\ (step'[k] \in ExitPcs <=> step[k] \in ExitPcs)
         /\ \A k \in Tasks : step'[k] \in ExecPcs => k # t /\ step[k] \in ExecPcs /\ lv'[k] = lv[k]
         /\ MadeShape' /\ ParentsShape' /\ CopyShape' /\ UndoShape'
         /\ \A k \in Tasks \ {p} : Awaited(k)' <=> Awaited(k)
         /\ Awaited(p) <=> step[t] \in VforkPcs
         /\ Awaited(p)' <=> l \in VforkPcs
<1> USE DEF ForkInv
<1>1. /\ p = lv[t].p /\ step[t] \in ParentPcs /\ l \in {"user", "wake", "vfork", "vfork_killed"}
      /\ step' = [step EXCEPT ![t] = l]
      /\ lv' = [lv EXCEPT ![t] = IF l = "user" THEN Local ELSE lv[t]]
      /\ \A k \in Tasks \ {p} : parts'[k] = parts[k] /\ state'[k] = state[k] /\ own'[k] = own[k]
      /\ step[t] \in VforkPcs => parts'[p] = parts[p]
      /\ l = "wake" => state'[p] = "visible"
  BY DEF ParentMoves
<1>2. /\ step[t] # "user" /\ state[t] = "live" /\ None \notin Tasks
      /\ step[t] \notin ExitPcs \cup ExecPcs /\ l \notin ExitPcs \cup ExecPcs
  BY <1>1 DEF ParentPcs, Shape, TaskShape, ExitPcs, ExecPcs, ForkConstantsOK
<1>3. \A k \in Tasks \ {t} : lv[k].p # p
  BY <1>1, <1>2 DEF Shape, ParentsShape
<1>4. lv[t].new = NoParts
  <2>1. \A kind \in Kinds : lv[t].new[kind] = None
    BY <1>1 DEF Shape, MadeShape, MadeFsPcs, MadeFilesPcs, ParentPcs
  <2> QED
    BY <2>1 DEF NoParts, ForkTypes, Locals
<1>5. /\ step' \in [Tasks -> Pcs] /\ lv' \in [Tasks -> Locals]
      /\ \A k \in Tasks \ {t} : step'[k] = step[k] /\ lv'[k] = lv[k]
      /\ step'[t] = l /\ lv'[t] = IF l = "user" THEN Local ELSE lv[t]
  BY <1>1, LocalType DEF ForkTypes
<1>6. \A k \in Tasks : lv'[k].new = lv[k].new /\ (step'[k] \in ExitPcs <=> step[k] \in ExitPcs)
  BY <1>2, <1>4, <1>5, LocalType
<1>7. \A k \in Tasks : step'[k] \in ExecPcs => k # t /\ step[k] \in ExecPcs /\ lv'[k] = lv[k]
  BY <1>2, <1>5
<1>8. Others(p)
  BY <1>1 DEF Others
<1>9. MadeShape'
  BY <1>4, <1>5, <1>6, LocalType DEF MadeShape, Shape
<1>10. lv'[t].p = IF l = "user" THEN None ELSE p
  BY <1>1, <1>5, LocalType
<1>11. ParentsShape'
  <2>1. \A u \in Tasks \ {t} : lv'[u].p = lv[u].p /\ step'[u] = step[u] /\ lv[u].p # p
    BY <1>3, <1>5
  <2>2. \A u \in Tasks \ {t} : step[u] \in {"copy", "undo", "wake"} =>
          lv[u].p \in Tasks /\ state'[lv[u].p] = state[lv[u].p]
    BY <1>1, <1>3 DEF Shape, ParentsShape, ParentPcs
  <2>3. \A u \in Tasks :
          /\ step'[u] \in ParentPcs => lv'[u].p \in Tasks
          /\ step'[u] \notin ParentPcs => lv'[u].p = None
          /\ step'[u] \in {"copy", "undo"} => state'[lv'[u].p] = "new"
          /\ step'[u] = "wake" => state'[lv'[u].p] = "visible"
    <3>1. ASSUME NEW u \in Tasks \ {t}
          PROVE  /\ step'[u] \in ParentPcs => lv'[u].p \in Tasks
                 /\ step'[u] \notin ParentPcs => lv'[u].p = None
                 /\ step'[u] \in {"copy", "undo"} => state'[lv'[u].p] = "new"
                 /\ step'[u] = "wake" => state'[lv'[u].p] = "visible"
      BY <2>1, <2>2 DEF ParentsShape, Shape
    <3>2. /\ l \in ParentPcs => lv'[t].p \in Tasks
          /\ l \notin ParentPcs => lv'[t].p = None
      BY <1>1, <1>10 DEF ParentPcs
    <3> QED
      BY <1>1, <1>5, <1>10, <3>1, <3>2
  <2>4. \A u, w \in Tasks : lv'[u].p # None /\ lv'[u].p = lv'[w].p => u = w
    BY <1>10, <2>1 DEF ParentsShape, Shape
  <2> QED
    BY <2>3, <2>4 DEF ParentsShape
<1>12. ASSUME NEW u \in Tasks PROVE CopyAt(u)' /\ UndoAt(u)'
  <2>1. CASE u = t
    BY <1>1, <1>5, <2>1 DEF CopyAt, UndoAt
  <2>2. CASE u # t
    <3>1. CopyAt(u) /\ UndoAt(u)
      BY DEF Shape, CopyShape, UndoShape
    <3>2. step'[u] = step[u] /\ lv'[u] = lv[u] /\ \A s : Has(u, s)' <=> Has(u, s)
      BY <1>5, <2>2 DEF Has
    <3>3. CASE step[u] \in {"copy", "undo"}
      <4>1. lv[u].p \in Tasks /\ state[u] = "live"
        BY <3>3 DEF Shape, ParentsShape, ParentPcs, TaskShape
      <4>2. parts'[u] = parts[u]
        <5>1. CASE u # p
          BY <1>1, <5>1
        <5>2. CASE u = p
          <6>1. step[t] \in VforkPcs
            BY <1>1, <4>1, <5>2 DEF Shape, ParentsShape, ParentPcs, VforkPcs
          <6> QED
            BY <1>1, <5>2, <6>1
        <5> QED
          BY <5>1, <5>2
      <4>3. own'[lv[u].p] = own[lv[u].p] /\ parts'[lv[u].p] = parts[lv[u].p]
        BY <1>1, <1>3, <2>2, <4>1
      <4> QED
        BY <3>1, <3>2, <4>2, <4>3 DEF CopyAt, UndoAt
    <3>4. CASE step[u] \notin {"copy", "undo"}
      BY <3>2, <3>4 DEF CopyAt, UndoAt
    <3> QED
      BY <3>3, <3>4
  <2> QED
    BY <2>1, <2>2
<1>13. CopyShape' /\ UndoShape'
  BY <1>12 DEF CopyShape, UndoShape
<1>14. /\ \A k \in Tasks \ {p} : Awaited(k)' <=> Awaited(k)
       /\ Awaited(p) <=> step[t] \in VforkPcs
       /\ Awaited(p)' <=> l \in VforkPcs
  <2>1. "user" \notin VforkPcs
    BY DEF VforkPcs
  <2> QED
    BY <1>1, <1>2, <1>3, <1>5, <1>10, <2>1 DEF Awaited
<1> QED
  BY <1>1, <1>2, <1>3, <1>5, <1>6, <1>7, <1>8, <1>9, <1>11, <1>13, <1>14

LEMMA SignalKeptFor ==
  ASSUME Shape,
         \A k \in Tasks : /\ state'[k] = "new" =>
                               state[k] = "new" /\ parts'[k] = parts[k] /\ own'[k] = own[k]
                          /\ Counted(k, "signal")' => Counted(k, "signal") /\ parts'[k].signal = parts[k].signal
  PROVE  SignalShape'
BY DEF SignalShape, Shape

\* The last label: the task_struct is free again.
LEMMA UndoTaskStep ==
  ASSUME ForkConstantsOK, ForkInv, NEW t \in Tasks, Undo(t), lv[t].i = 19
  PROVE  ForkInv'
<1> USE DEF ForkInv
<1>1. own[lv[t].p] = {s \in UndoneFrom(19) : Has(t, s)} /\ step[t] = "undo"
  BY DEF Shape, UndoShape, UndoAt, Undo, InStep
<1>2. PICK p \in Tasks : p = lv[t].p
  BY ChildIs DEF Undo, InStep
<1>3. own[p] \subseteq {"task"} /\ "task" \notin Kinds /\ "signal" \in Kinds /\ "fs" \in Kinds
  BY <1>1, <1>2, UndoneLast, KindsAre
<1>4. /\ own' = [own EXCEPT ![p] = @ \ {"task"}]
      /\ state' = [state EXCEPT ![p] = "free"] /\ parts' = [parts EXCEPT ![p] = NoParts]
      /\ usage' = [usage EXCEPT ![p] = 0]
      /\ step' = [step EXCEPT ![t] = "user"] /\ lv' = [lv EXCEPT ![t] = Local]
      /\ UNCHANGED <<nr_threads, in_exec, vfork_done, done, killed, todo>>
  BY <1>1, <1>2, UndosAre DEF Undo, End, Move, Keep
<1>5. /\ \A k \in Tasks \ {p} : /\ parts'[k] = parts[k] /\ state'[k] = state[k] /\ own'[k] = own[k]
                                /\ usage'[k] = usage[k]
      /\ parts'[p] = NoParts /\ state'[p] = "free" /\ own'[p] = {} /\ usage'[p] = 0
  BY <1>3, <1>4 DEF ForkTypes
<1>6. users' = users /\ live' = live /\ bug' = FALSE
  <2>0. PICK what : what = "task"
    OBVIOUS
  <2>9. PICK i \in 1 .. 19 : i = 19
    OBVIOUS
  <2>1. Undoes(t, p, i, what)
    BY <1>1, <1>2, <2>0, <2>9, UndosAre DEF Undoes
  <2>2. /\ users' \in [Kinds -> [Ids -> Int]] /\ live' \in [Ids -> Int] /\ bug' = FALSE
        /\ \A m \in Kinds : \A id \in Ids :
             users'[m][id] = users[m][id] - One(m = what /\ Has(t, what) /\ parts[p][m] = id)
        /\ \A id \in Ids :
             live'[id] = live[id] - One(what = "signal" /\ Has(t, what) /\ parts[p].signal = id)
        /\ Has(t, what) <=> what \in own[p]
    <3> HIDE DEF ForkInv
    <3> QED
      BY <2>1, UndoGives
  <2>3. \A m \in Kinds : \A id \in Ids : users'[m][id] = users[m][id]
    <3> SUFFICES ASSUME NEW m \in Kinds, NEW id \in Ids PROVE users'[m][id] = users[m][id]
      OBVIOUS
    <3>1. users[m][id] \in Int /\ m # what
      BY <1>3, <2>0 DEF ForkTypes
    <3> QED
      BY <2>2, <3>1 DEF One
  <2>4. \A m \in Kinds : users'[m] = users[m]
    BY <2>2, <2>3 DEF ForkTypes
  <2>5. users' = users
    BY <2>2, <2>4 DEF ForkTypes
  <2>6. live' = live
    <3>1. ASSUME NEW id \in Ids PROVE live'[id] = live[id]
      <4>1. live[id] \in Int /\ what # "signal"
        BY <2>0 DEF ForkTypes
      <4> QED
        BY <2>2, <4>1 DEF One
    <3> QED
      BY <2>2, <3>1 DEF ForkTypes
  <2> QED
    BY <2>2, <2>5, <2>6
<1>7. p # t /\ state[p] = "new" /\ step[p] = "user" /\ lv[p] = Local
  BY <1>1, <1>2, ChildIs
<1>8. "user" \in Pcs /\ ParentMoves(t, p, "user")
  BY <1>1, <1>2, <1>4, <1>5 DEF ParentMoves, Pcs, ParentPcs, VforkPcs
<1>9. /\ step' \in [Tasks -> Pcs] /\ lv' \in [Tasks -> Locals]
      /\ state[t] = "live" /\ step'[t] = "user" /\ Others(p)
      /\ \A k \in Tasks \ {t} : step'[k] = step[k] /\ lv'[k] = lv[k] /\ lv[k].p # p
      /\ lv'[t] = Local
      /\ \A k \in Tasks : lv'[k].new = lv[k].new /\ (step'[k] \in ExitPcs <=> step[k] \in ExitPcs)
      /\ \A k \in Tasks : step'[k] \in ExecPcs => k # t /\ step[k] \in ExecPcs /\ lv'[k] = lv[k]
      /\ MadeShape' /\ ParentsShape' /\ CopyShape' /\ UndoShape'
      /\ \A k \in Tasks \ {p} : Awaited(k)' <=> Awaited(k)
      /\ Awaited(p)' <=> "user" \in VforkPcs
  BY <1>8, ParentKept
<1>10. /\ \A m \in Kinds : ~Counted(p, m) /\ ~Counted(p, m)'
       /\ \A k \in Tasks \ {p} : \A m \in Kinds : Counted(k, m)' <=> Counted(k, m)
  <2>1. \A m \in Kinds : ~Counted(p, m)
    BY <1>3, <1>7 DEF Counted
  <2>2. \A m \in Kinds : ~Counted(p, m)'
    BY <1>5, LocalType DEF Counted
  <2> QED
    BY <1>5, <2>1, <2>2 DEF Counted
<1>11. UsersExact' /\ LiveExact' /\ ThreadsExact'
  <2>1. ASSUME NEW m \in Kinds, NEW id PROVE Having(m, id)' = Having(m, id) /\ Making(m, id)' = Making(m, id)
    BY <1>5, <1>9, <1>10 DEF Having, Making
  <2>2. \A id : LiveIn(id)' = LiveIn(id)
    BY <1>3, <1>5, <1>9, <1>10 DEF LiveIn
  <2>3. Threads' = Threads
    BY <1>5, <1>7 DEF Threads
  <2> QED
    BY <1>4, <1>6, <2>1, <2>2, <2>3 DEF UsersExact, LiveExact, ThreadsExact
<1>12. TaskShape'
  <2>1. \A k \in Tasks \ {p} : k # t => step'[k] = step[k] /\ lv'[k] = lv[k]
    BY <1>9
  <2>2. Gone("undo") = {} /\ Gone("user") = {}
    BY DEF Gone
  <2>3. \A k \in Tasks \ {p, t} :
          /\ step'[k] = "user" => lv'[k] = Local
          /\ step'[k] # "user" => state'[k] = "live"
          /\ state'[k] # "new" => own'[k] = {}
          /\ state'[k] = "free" => parts'[k] = NoParts
          /\ state'[k] # "free" => \A kind \in Kinds : parts'[k][kind] = None <=> kind \in Gone(step'[k])
    BY <1>5, <2>1 DEF TaskShape, Shape
  <2>4. /\ own'[t] = {}
        /\ state'[t] = "live" /\ \A kind \in Kinds : parts'[t][kind] = None <=> kind \in Gone(step'[t])
    BY <1>1, <1>5, <1>7, <1>9, <2>2 DEF TaskShape, Shape
  <2>5. step'[p] = "user" /\ lv'[p] = Local
    BY <1>7, <1>9
  <2> QED
    BY <1>5, <1>9, <2>3, <2>4, <2>5 DEF TaskShape
<1>13. UsageExact'
  <2>1. ~Awaited(p)'
    BY <1>9 DEF VforkPcs
  <2>2. \A k \in Tasks \ {p} : Awaited(k)' <=> Awaited(k)
    BY <1>9
  <2> QED
    BY <1>5, <2>1, <2>2 DEF UsageExact, Shape
<1>14. VforkValid' /\ DoneShape'
  BY <1>1, <1>4, <1>9, VforkKept DEF VforkPcs
<1>15. SignalShape'
  <2>1. \A k \in Tasks : state'[k] = "new" => k # p /\ state[k] = "new"
    BY <1>5
  <2> QED
    BY <1>3, <1>5, <1>10, <2>1, SignalKeptFor
<1>16. ExecShape'
  <2>1. \A k \in Tasks : step'[k] \in ExecPcs => k # p
    BY <1>7, <1>9 DEF ExecPcs
  <2>2. \A k \in Tasks : Counted(k, "fs")' => k # p
    BY <1>3, <1>10
  <2> QED
    BY <1>3, <1>4, <1>5, <1>9, <1>10, <2>1, <2>2, ExecKept
<1>17. ForkTypes'
  <2>1. /\ state' \in [Tasks -> {"free", "new", "visible", "live"}]
        /\ parts' \in [Tasks -> [Kinds -> OrNone]] /\ own' \in [Tasks -> SUBSET Takes]
        /\ usage' \in [Tasks -> Int]
    BY <1>4, LocalType DEF ForkTypes
  <2> QED
    BY <1>4, <1>6, <1>9, <2>1 DEF ForkTypes
<1> QED
  BY <1>6, <1>9, <1>11, <1>12, <1>13, <1>14, <1>15, <1>16, <1>17 DEF Shape

LEMMA UndoStep ==
  ASSUME ForkConstantsOK, ForkInv, NEW t \in Tasks, Undo(t)
  PROVE  ForkInv'
BY UndoPartStep, UndoTaskStep

\* The counts of a thread go up with its siglock held; those of a process have
\* counted it since its stage.
LEMMA PublishDoes ==
  ASSUME ForkConstantsOK, ForkInv, NEW t \in Tasks, Publish(t), NEW p \in Tasks, p = lv[t].p
  PROVE  /\ users' \in [Kinds -> [Ids -> Int]] /\ live' \in [Ids -> Int]
         /\ \A m \in Kinds : Counted(p, m) \/ (m = "signal" /\ parts[p].signal = parts[t].signal)
         /\ \A m \in Kinds : \A id \in Ids :
              users'[m][id] = users[m][id] + One(~Counted(p, m) /\ parts[p][m] = id)
         /\ \A id \in Ids :
              live'[id] = live[id] + One(~Counted(p, "signal") /\ parts[p].signal = id)
<1> USE DEF ForkInv
<1> DEFINE id0 == parts[t].signal
           thread == "THREAD" \in lv[t].flags
<1>1. /\ step[t] = "copy" /\ "signal" \in Kinds
      /\ users' = IF thread THEN [users EXCEPT !.signal[id0] = @ + 1] ELSE users
      /\ live' = IF thread THEN [live EXCEPT ![id0] = @ + 1] ELSE live
  BY KindsAre DEF Publish, Copying, InStep
<1>2. CopyAt(t) /\ lv[t].i = 21
  <2>1. CopyAt(t) /\ Stages[lv[t].i][1] = "publish"
    BY DEF Publish, Stage, Ladder, Shape, CopyShape
  <2> QED
    BY <1>1, <2>1, StageIs DEF CopyAt
<1>3. /\ state[p] = "new" /\ \A m \in Kinds : parts[p][m] \in Ids /\ parts[p][m] # None
      /\ id0 \in Ids
  BY <1>1, ChildIs
<1>4. own[p] = {s \in Taken(21) \ NotOwned : Has(t, s)}
  BY <1>1, <1>2 DEF CopyAt
<1>5. \A m \in Kinds : Has(t, m) <=> ~(m = "signal" /\ thread)
  BY HasKind, KindsAre DEF Flag
<1>6. \A m \in Kinds : m \in Taken(21) \ NotOwned
  <2>1. 21 \in 1 .. 21
    OBVIOUS
  <2> QED
    BY <2>1, StageIs
<1>7. \A m \in Kinds : Counted(p, m) <=> ~(m = "signal" /\ thread)
  BY <1>3, <1>4, <1>5, <1>6 DEF Counted
<1>8. thread => parts[p].signal = id0
  BY <1>1, <1>2, <1>5 DEF CopyAt
<1> HIDE DEF thread, id0
<1>9. CASE thread
  <2>1. users' \in [Kinds -> [Ids -> Int]] /\ live' \in [Ids -> Int]
    <3>1. users' = [users EXCEPT !["signal"] = [users["signal"] EXCEPT ![id0] = @ + 1]]
      BY <1>1, <1>9
    <3>2. users["signal"] \in [Ids -> Int] /\ users \in [Kinds -> [Ids -> Int]] /\ live \in [Ids -> Int]
      BY <1>1 DEF ForkTypes
    <3>3. [users["signal"] EXCEPT ![id0] = @ + 1] \in [Ids -> Int]
      BY <1>3, <3>2
    <3>4. users' \in [Kinds -> [Ids -> Int]]
      BY <1>1, <3>1, <3>2, <3>3
    <3>5. live' \in [Ids -> Int]
      BY <1>1, <1>3, <1>9, <3>2
    <3> QED
      BY <3>4, <3>5
  <2>2. ASSUME NEW m \in Kinds, NEW id \in Ids
        PROVE  users'[m][id] = users[m][id] + One(~Counted(p, m) /\ parts[p][m] = id)
    <3>1. users'[m][id] = users[m][id] + (IF m = "signal" /\ id = id0 THEN 1 ELSE 0)
      BY <1>1, <1>3, <1>9, SMTT(20) DEF ForkTypes
    <3>2. ~Counted(p, m) /\ parts[p][m] = id <=> m = "signal" /\ id = id0
      BY <1>7, <1>8, <1>9
    <3> QED
      BY <3>1, <3>2 DEF One
  <2>3. ASSUME NEW id \in Ids
        PROVE  live'[id] = live[id] + One(~Counted(p, "signal") /\ parts[p].signal = id)
    <3>1. live'[id] = live[id] + (IF id = id0 THEN 1 ELSE 0)
      BY <1>1, <1>3, <1>9 DEF ForkTypes
    <3>2. ~Counted(p, "signal") /\ parts[p].signal = id <=> id = id0
      BY <1>1, <1>7, <1>8, <1>9
    <3> QED
      BY <3>1, <3>2 DEF One
  <2>4. \A m \in Kinds : Counted(p, m) \/ (m = "signal" /\ parts[p].signal = parts[t].signal)
    BY <1>7, <1>8 DEF id0
  <2> QED
    BY <2>1, <2>2, <2>3, <2>4
<1>10. CASE ~thread
  <2>1. \A m \in Kinds : Counted(p, m)
    BY <1>7, <1>10
  <2>2. users' = users /\ live' = live /\ users \in [Kinds -> [Ids -> Int]] /\ live \in [Ids -> Int]
    BY <1>1, <1>10 DEF ForkTypes
  <2>3. \A m \in Kinds : \A id \in Ids : One(~Counted(p, m) /\ parts[p][m] = id) = 0
    BY <2>1 DEF One
  <2>4. \A id \in Ids : One(~Counted(p, "signal") /\ parts[p].signal = id) = 0
    BY <1>1, <2>1 DEF One
  <2>5. \A m \in Kinds : \A id \in Ids :
          users'[m][id] = users[m][id] + One(~Counted(p, m) /\ parts[p][m] = id)
    BY <2>2, <2>3
  <2>6. \A id \in Ids : live'[id] = live[id] + One(~Counted(p, "signal") /\ parts[p].signal = id)
    BY <2>2, <2>4
  <2> QED
    BY <2>1, <2>2, <2>5, <2>6
<1> QED
  BY <1>9, <1>10

LEMMA PublishStep ==
  ASSUME ForkConstantsOK, ForkInv, NEW t \in Tasks, Publish(t)
  PROVE  ForkInv'
<1> USE DEF ForkInv
<1>1. PICK p \in Tasks : p = lv[t].p
  BY ChildIs DEF Publish, Copying, InStep
<1>2. /\ step[t] = "copy" /\ nr_threads' = nr_threads + 1
      /\ state' = [state EXCEPT ![p] = "visible"] /\ own' = [own EXCEPT ![p] = {}]
      /\ step' = [step EXCEPT ![t] = "wake"]
      /\ UNCHANGED <<parts, usage, lv, vfork_done, done, killed, todo, bug, in_exec>>
  BY <1>1 DEF Publish, Copying, InStep, Move
<1>3. /\ state[t] = "live" /\ p # t /\ state[p] = "new" /\ step[p] = "user" /\ lv[p] = Local
      /\ \A m \in Kinds : parts[p][m] \in Ids /\ parts[p][m] # None
      /\ \A m \in Kinds : Counted(t, m)
      /\ "fs" \in Kinds /\ "signal" \in Kinds
  BY <1>1, <1>2, ChildIs, KindsAre
<1>4. /\ users' \in [Kinds -> [Ids -> Int]] /\ live' \in [Ids -> Int]
      /\ \A m \in Kinds : Counted(p, m) \/ (m = "signal" /\ parts[p].signal = parts[t].signal)
      /\ \A m \in Kinds : \A id \in Ids :
           users'[m][id] = users[m][id] + One(~Counted(p, m) /\ parts[p][m] = id)
      /\ \A id \in Ids :
           live'[id] = live[id] + One(~Counted(p, "signal") /\ parts[p].signal = id)
  <2> HIDE DEF ForkInv
  <2> QED
    BY <1>1, PublishDoes
<1>5. /\ \A k \in Tasks \ {p} : state'[k] = state[k] /\ own'[k] = own[k]
      /\ state'[p] = "visible" /\ own'[p] = {}
  BY <1>2 DEF ForkTypes
<1>0. PICK l \in Pcs : l = "wake"
  BY DEF Pcs, ParentPcs
<1>6. ParentMoves(t, p, l)
  <2>1. lv' = [lv EXCEPT ![t] = IF l = "user" THEN Local ELSE lv[t]]
    BY <1>0, <1>2 DEF ForkTypes
  <2> QED
    BY <1>0, <1>1, <1>2, <1>5, <2>1 DEF ParentMoves, ParentPcs
<1>7. /\ step' \in [Tasks -> Pcs] /\ lv' \in [Tasks -> Locals]
      /\ step'[t] = l /\ Others(p)
      /\ \A k \in Tasks \ {t} : step'[k] = step[k] /\ lv'[k] = lv[k] /\ lv[k].p # p
      /\ \A k \in Tasks : lv'[k].new = lv[k].new /\ (step'[k] \in ExitPcs <=> step[k] \in ExitPcs)
      /\ \A k \in Tasks : step'[k] \in ExecPcs => k # t /\ step[k] \in ExecPcs /\ lv'[k] = lv[k]
      /\ MadeShape' /\ ParentsShape' /\ CopyShape' /\ UndoShape'
      /\ \A k \in Tasks \ {p} : Awaited(k)' <=> Awaited(k)
      /\ Awaited(p) <=> step[t] \in VforkPcs
      /\ Awaited(p)' <=> l \in VforkPcs
  BY <1>6, ParentKept
<1>8. /\ \A m \in Kinds : Counted(p, m)'
      /\ \A k \in Tasks \ {p} : \A m \in Kinds : Counted(k, m)' <=> Counted(k, m)
  BY <1>2, <1>3, <1>5 DEF Counted
<1>9. UsersExact'
  <2>1. ASSUME NEW m \in Kinds, NEW id \in Ids
        PROVE  users'[m][id] = users[m][id] - One(p \in Having(m, id)) + One(p \in Having(m, id)')
                 - One(t \in Making(m, id)) + One(t \in Making(m, id)')
    <3>1. t \in Making(m, id) <=> t \in Making(m, id)'
      BY <1>2 DEF Making
    <3>2. /\ users'[m][id] = users[m][id] + One(~Counted(p, m) /\ parts[p][m] = id)
          /\ users[m][id] \in Int
      BY <1>4 DEF ForkTypes
    <3>3. /\ p \in Having(m, id) <=> parts[p][m] = id /\ Counted(p, m)
          /\ p \in Having(m, id)' <=> parts[p][m] = id
      BY <1>2, <1>8 DEF Having
    <3> QED
      BY <3>1, <3>2, <3>3 DEF One
  <2> QED
    BY <1>7, <2>1, UsersKept
<1>10. LiveExact'
  <2>1. ASSUME NEW id \in Ids
        PROVE  live'[id] = live[id] - One(p \in LiveIn(id)) + One(p \in LiveIn(id)')
    <3>1. /\ live'[id] = live[id] + One(~Counted(p, "signal") /\ parts[p].signal = id)
          /\ live[id] \in Int
      BY <1>4 DEF ForkTypes
    <3>2. /\ p \in LiveIn(id) <=> parts[p].signal = id /\ Counted(p, "signal")
          /\ p \in LiveIn(id)' <=> parts[p].signal = id
      BY <1>2, <1>3, <1>7, <1>8 DEF LiveIn, ExitPcs
    <3> QED
      BY <3>1, <3>2 DEF One
  <2> QED
    BY <1>7, <2>1, LiveKept
<1>11. ThreadsExact'
  <2>1. p \notin Threads /\ p \in Threads'
    BY <1>3, <1>5 DEF Threads
  <2> QED
    BY <1>2, <1>7, <2>1, ThreadsKept DEF One, ForkTypes
<1>12. TaskShape'
  <2>1. Gone("copy") = {} /\ Gone("wake") = {} /\ Gone("user") = {}
    BY DEF Gone
  <2>2. \A k \in Tasks \ {p, t} :
          /\ step'[k] = "user" => lv'[k] = Local
          /\ step'[k] # "user" => state'[k] = "live"
          /\ state'[k] # "new" => own'[k] = {}
          /\ state'[k] = "free" => parts'[k] = NoParts
          /\ state'[k] # "free" => \A kind \in Kinds : parts'[k][kind] = None <=> kind \in Gone(step'[k])
    BY <1>2, <1>5, <1>7 DEF TaskShape, Shape
  <2>3. /\ state'[t] = "live" /\ own'[t] = {}
        /\ \A kind \in Kinds : parts'[t][kind] = None <=> kind \in Gone(step'[t])
    BY <1>0, <1>2, <1>3, <1>5, <1>7, <2>1 DEF TaskShape, Shape
  <2>4. step'[p] = "user" /\ lv'[p] = Local
    BY <1>3, <1>7
  <2> QED
    BY <1>0, <1>2, <1>3, <1>5, <1>7, <2>1, <2>2, <2>3, <2>4 DEF TaskShape
<1>13. UsageExact'
  <2>1. ~Awaited(p)' /\ ~Awaited(p)
    BY <1>0, <1>2, <1>7 DEF VforkPcs
  <2>2. \A k \in Tasks \ {p} : Awaited(k)' <=> Awaited(k)
    BY <1>7
  <2> QED
    BY <1>2, <1>3, <1>5, <2>1, <2>2 DEF UsageExact, Shape
<1>14. VforkValid' /\ DoneShape'
  BY <1>0, <1>2, <1>7, VforkKept DEF VforkPcs
<1>15. SignalShape'
  <2> SUFFICES ASSUME NEW k \in Tasks, NEW u \in Tasks, state'[k] = "new", "signal" \in own'[k], u # k,
                      Counted(u, "signal")'
               PROVE  parts'[u].signal # parts'[k].signal
    BY DEF SignalShape
  <2>1. k # p /\ state[k] = "new" /\ "signal" \in own[k] /\ k # t
    BY <1>3, <1>5
  <2>2. CASE Counted(u, "signal")
    BY <1>2, <2>1, <2>2 DEF SignalShape, Shape
  <2>3. CASE ~Counted(u, "signal")
    <3>1. u = p /\ parts[p].signal = parts[t].signal
      BY <1>3, <1>4, <1>8, <2>3
    <3>2. parts[t].signal # parts[k].signal
      BY <1>3, <2>1 DEF SignalShape, Shape
    <3> QED
      BY <1>2, <3>1, <3>2
  <2> QED
    BY <2>2, <2>3
<1>16. ExecShape'
  <2>1. Counted(p, "fs")
    BY <1>3, <1>4
  <2>2. \A k \in Tasks : /\ Counted(k, "fs")' => Counted(k, "fs")
                         /\ state'[k] = "new" => state[k] = "new"
    BY <1>3, <1>5, <1>8, <2>1
  <2> QED
    BY <1>2, <1>7, <2>2, ExecKept
<1>17. ForkTypes'
  <2>1. /\ state' \in [Tasks -> {"free", "new", "visible", "live"}]
        /\ own' \in [Tasks -> SUBSET Takes] /\ nr_threads' \in Int
    BY <1>2 DEF ForkTypes
  <2> QED
    BY <1>2, <1>4, <1>7, <2>1 DEF ForkTypes
<1> QED
  BY <1>2, <1>7, <1>9, <1>10, <1>11, <1>12, <1>13, <1>14, <1>15, <1>16, <1>17 DEF Shape

\* The parent moves on, and the child at most becomes live: parts and counts stay.
ParentQuiet(t, p, l) ==
  /\ ParentMoves(t, p, l)
  /\ state'[p] = state[p] \/ (state[p] = "visible" /\ state'[p] = "live")
  /\ UNCHANGED <<parts, users, live, nr_threads, own, in_exec, todo, bug, killed>>
  /\ \A k \in Tasks \ {p} : usage'[k] = usage[k]
  /\ usage'[p] = usage[p] - One(step[t] \in VforkPcs) + One(l \in VforkPcs)

LEMMA ParentQuietKept ==
  ASSUME ForkConstantsOK, ForkInv, NEW t \in Tasks, NEW p \in Tasks, NEW l \in Pcs,
         ParentQuiet(t, p, l), l # "wake",
         state' \in [Tasks -> {"free", "new", "visible", "live"}], usage' \in [Tasks -> Int],
         vfork_done' \in [Tasks -> Tasks \cup {None}], done' \in [Tasks -> BOOLEAN],
         VforkValid', DoneShape'
  PROVE  ForkInv'
<1> USE DEF ForkInv
<1>1. /\ state'[p] = state[p] \/ (state[p] = "visible" /\ state'[p] = "live")
      /\ UNCHANGED <<parts, users, live, nr_threads, own, in_exec, todo, bug, killed>>
      /\ \A k \in Tasks \ {p} : usage'[k] = usage[k] /\ state'[k] = state[k]
      /\ usage'[p] = usage[p] - One(step[t] \in VforkPcs) + One(l \in VforkPcs)
      /\ l \in {"user", "vfork", "vfork_killed"}
  BY DEF ParentQuiet, ParentMoves
<1>2. /\ step' \in [Tasks -> Pcs] /\ lv' \in [Tasks -> Locals]
      /\ state[t] = "live" /\ step'[t] = l /\ step[t] \in ParentPcs /\ Others(p)
      /\ \A k \in Tasks \ {t} : step'[k] = step[k] /\ lv'[k] = lv[k] /\ lv[k].p # p
      /\ lv'[t] = IF l = "user" THEN Local ELSE lv[t]
      /\ \A k \in Tasks : lv'[k].new = lv[k].new /\ (step'[k] \in ExitPcs <=> step[k] \in ExitPcs)
      /\ \A k \in Tasks : step'[k] \in ExecPcs => k # t /\ step[k] \in ExecPcs /\ lv'[k] = lv[k]
      /\ MadeShape' /\ ParentsShape' /\ CopyShape' /\ UndoShape'
      /\ \A k \in Tasks \ {p} : Awaited(k)' <=> Awaited(k)
      /\ Awaited(p) <=> step[t] \in VforkPcs
      /\ Awaited(p)' <=> l \in VforkPcs
  <2>1. ParentMoves(t, p, l)
    BY DEF ParentQuiet
  <2> HIDE DEF ForkInv
  <2> QED
    BY <2>1, ParentKept
<1>3. /\ "fs" \in Kinds /\ "signal" \in Kinds
      /\ \A k \in Tasks : \A m \in Kinds : Counted(k, m)' <=> Counted(k, m)
  BY <1>1, KindsAre DEF Counted
<1>4. UsersExact' /\ LiveExact' /\ ThreadsExact'
  <2>1. ASSUME NEW m \in Kinds, NEW id PROVE Having(m, id)' = Having(m, id) /\ Making(m, id)' = Making(m, id)
    BY <1>1, <1>2, <1>3 DEF Having, Making
  <2>2. \A id : LiveIn(id)' = LiveIn(id)
    BY <1>1, <1>2, <1>3 DEF LiveIn
  <2>3. Threads' = Threads
    BY <1>1 DEF Threads
  <2> QED
    BY <1>1, <2>1, <2>2, <2>3 DEF UsersExact, LiveExact, ThreadsExact
<1>5. TaskShape'
  <2>1. Gone(step[t]) = {} /\ Gone(l) = {} /\ step[t] # "user" /\ step'[t] = l
    BY <1>1, <1>2 DEF Gone, ParentPcs
  <2>2. \A k \in Tasks : step'[k] # "user" => step[k] # "user"
    BY <1>2, <2>1
  <2>3. \A k \in Tasks : Gone(step'[k]) = Gone(step[k])
    BY <1>2, <2>1
  <2>4. \A k \in Tasks : step'[k] = "user" => lv'[k] = Local
    BY <1>2, <2>1 DEF TaskShape, Shape
  <2>5. \A k \in Tasks : /\ state[k] = "live" => state'[k] = "live"
                         /\ state'[k] = "free" <=> state[k] = "free"
                         /\ state'[k] = "new" <=> state[k] = "new"
    BY <1>1
  <2> QED
    BY <1>1, <2>2, <2>3, <2>4, <2>5 DEF TaskShape, Shape
<1>6. UsageExact'
  <2> SUFFICES ASSUME NEW k \in Tasks
               PROVE  usage'[k] = (IF state'[k] = "free" THEN 0 ELSE 1) + (IF Awaited(k)' THEN 1 ELSE 0)
    BY DEF UsageExact
  <2>1. /\ usage[k] = (IF state[k] = "free" THEN 0 ELSE 1) + (IF Awaited(k) THEN 1 ELSE 0)
        /\ state'[k] = "free" <=> state[k] = "free"
    BY <1>1 DEF UsageExact, Shape
  <2>2. CASE k = p
    BY <1>1, <1>2, <2>1, <2>2 DEF One
  <2>3. CASE k # p
    BY <1>1, <1>2, <2>1, <2>3
  <2> QED
    BY <2>2, <2>3
<1>7. SignalShape'
  <2>1. \A k \in Tasks : state'[k] = "new" => state[k] = "new"
    BY <1>1
  <2> QED
    BY <1>1, <1>3, <2>1, SignalKeptFor
<1>8. ExecShape'
  <2>1. \A k \in Tasks : state'[k] = "new" => state[k] = "new"
    BY <1>1
  <2> QED
    BY <1>1, <1>2, <1>3, <2>1, ExecKept
<1>9. ForkTypes'
  BY <1>1, <1>2 DEF ForkTypes
<1> QED
  BY <1>1, <1>2, <1>4, <1>5, <1>6, <1>7, <1>8, <1>9 DEF Shape

LEMMA WakeStep ==
  ASSUME ForkConstantsOK, ForkInv, NEW t \in Tasks, Wake(t)
  PROVE  ForkInv'
<1> USE DEF ForkInv
<1>1. step[t] = "wake"
  BY DEF Wake, InStep
<1>2. PICK p \in Tasks : p = lv[t].p
  BY <1>1, ChildIs
<1>3. /\ p # t /\ ~done[t] /\ state[p] = "visible"
      /\ \A u \in Tasks \ {t} : lv[u].p # p
      /\ \A u \in Tasks : vfork_done[p] # u
  BY <1>1, <1>2, ChildIs
<1>4. PICK l \in Pcs : l = IF "VFORK" \in lv[t].flags THEN "vfork" ELSE "user"
  BY DEF Pcs, ParentPcs
<1>5. /\ state' = [state EXCEPT ![p] = "live"] /\ step' = [step EXCEPT ![t] = l]
      /\ lv' = [lv EXCEPT ![t] = IF l = "user" THEN Local ELSE lv[t]]
      /\ l = "vfork" => /\ vfork_done' = [vfork_done EXCEPT ![p] = t]
                        /\ usage' = [usage EXCEPT ![p] = @ + 1]
      /\ l = "user" => UNCHANGED <<vfork_done, usage>>
      /\ UNCHANGED <<done, live, nr_threads, own, killed, todo, parts, users, in_exec, bug>>
  <2>1. CASE "VFORK" \in lv[t].flags
    <3>1. lv = [lv EXCEPT ![t] = lv[t]]
      BY DEF ForkTypes
    <3> QED
      BY <1>2, <1>4, <2>1, <3>1 DEF Wake, NoParting, Move
  <2>2. CASE "VFORK" \notin lv[t].flags
    BY <1>2, <1>4, <2>2 DEF Wake, NoParting, End, Move, Keep
  <2> QED
    BY <2>1, <2>2
<1>6. l \in {"user", "vfork"} /\ step[t] \notin VforkPcs /\ (l \in VforkPcs <=> l = "vfork")
  BY <1>1, <1>4 DEF VforkPcs
<1>7. ParentQuiet(t, p, l)
  <2>1. usage[p] \in Int /\ usage \in [Tasks -> Int]
    BY DEF ForkTypes
  <2>2. /\ usage'[p] = usage[p] - One(step[t] \in VforkPcs) + One(l \in VforkPcs)
        /\ \A k \in Tasks \ {p} : usage'[k] = usage[k]
    BY <1>5, <1>6, <2>1 DEF One
  <2>3. state'[p] = "live" /\ \A k \in Tasks \ {p} : state'[k] = state[k]
    BY <1>5 DEF ForkTypes
  <2>4. ParentMoves(t, p, l)
    BY <1>1, <1>2, <1>5, <1>6, <2>3 DEF ParentMoves, ParentPcs
  <2> QED
    BY <1>3, <1>5, <2>2, <2>3, <2>4 DEF ParentQuiet
<1>8. /\ state' \in [Tasks -> {"free", "new", "visible", "live"}] /\ usage' \in [Tasks -> Int]
      /\ vfork_done' \in [Tasks -> Tasks \cup {None}] /\ done' \in [Tasks -> BOOLEAN]
  <2>1. /\ state \in [Tasks -> {"free", "new", "visible", "live"}] /\ usage \in [Tasks -> Int]
        /\ vfork_done \in [Tasks -> Tasks \cup {None}] /\ done \in [Tasks -> BOOLEAN]
    BY DEF ForkTypes
  <2> HIDE DEF ForkInv
  <2>2. usage' \in [Tasks -> Int]
    BY <1>5, <1>6, <2>1
  <2>3. vfork_done' \in [Tasks -> Tasks \cup {None}]
    BY <1>5, <1>6, <2>1
  <2>4. state' \in [Tasks -> {"free", "new", "visible", "live"}]
    BY <1>5, <2>1
  <2> QED
    BY <1>5, <2>1, <2>2, <2>3, <2>4
<1>9. /\ \A k \in Tasks \ {t} : step'[k] = step[k] /\ lv'[k] = lv[k]
      /\ step'[t] = l /\ lv'[t] = IF l = "user" THEN Local ELSE lv[t]
  BY <1>5 DEF ForkTypes
<1>10. /\ \A k \in Tasks \ {p} : vfork_done'[k] = vfork_done[k]
       /\ l = "vfork" => vfork_done'[p] = t
       /\ l = "user" => vfork_done'[p] = vfork_done[p]
  <2>1. CASE l = "vfork"
    BY <1>5, <2>1 DEF ForkTypes
  <2>2. CASE l = "user"
    BY <1>5, <2>2 DEF ForkTypes
  <2> QED
    BY <1>6, <2>1, <2>2
<1>11. \A k \in Tasks : vfork_done[k] # t
  BY <1>1 DEF VforkValid, Shape
<1>12. VforkValid'
  <2> SUFFICES ASSUME NEW k \in Tasks, NEW u \in Tasks
               PROVE  /\ vfork_done'[k] = u => step'[u] \in VforkPcs /\ lv'[u].p = k
                      /\ step'[u] = "vfork" /\ lv'[u].p = k => done'[u] \/ vfork_done'[k] = u
    BY DEF VforkValid, VforkPcs
  <2>1. CASE u = t
    <3>1. l = "user" => lv'[t].p = None
      BY <1>9, LocalType
    <3> QED
      BY <1>2, <1>6, <1>9, <1>10, <1>11, <2>1, <3>1
  <2>2. CASE u # t
    <3>1. /\ vfork_done[k] = u => step[u] \in VforkPcs /\ lv[u].p = k
          /\ step[u] = "vfork" /\ lv[u].p = k => done[u] \/ vfork_done[k] = u
      BY DEF VforkValid, Shape, VforkPcs
    <3>2. k = p => lv[u].p # k /\ vfork_done[k] # u
      BY <1>3, <2>2
    <3>3. k # p => vfork_done'[k] = vfork_done[k]
      BY <1>10
    <3>4. k = p => vfork_done'[k] # u
      BY <1>3, <1>6, <1>10, <2>2
    <3> QED
      BY <1>5, <1>9, <2>2, <3>1, <3>2, <3>3, <3>4
  <2> QED
    BY <2>1, <2>2
<1>13. DoneShape'
  <2> SUFFICES ASSUME NEW u \in Tasks, done'[u]
               PROVE  step'[u] \in VforkPcs /\ \A k \in Tasks : vfork_done'[k] # u
    BY DEF DoneShape
  <2>1. done[u] /\ u # t
    BY <1>3, <1>5
  <2>2. step[u] \in VforkPcs /\ \A k \in Tasks : vfork_done[k] # u
    BY <2>1 DEF DoneShape, Shape
  <2> QED
    BY <1>6, <1>9, <1>10, <2>1, <2>2
<1>14. l # "wake"
  BY <1>6
<1> HIDE DEF ForkInv
<1> QED
  BY <1>7, <1>8, <1>12, <1>13, <1>14, ParentQuietKept

\* The wait is over: the completion is not t's any more, or was taken away.
WaitEnds(t, p) ==
  /\ step[t] \in VforkPcs /\ p = lv[t].p /\ state[t] = "live"
  /\ step' = [step EXCEPT ![t] = "user"] /\ lv' = [lv EXCEPT ![t] = Local]
  /\ usage' = [usage EXCEPT ![p] = @ - 1] /\ done' = [done EXCEPT ![t] = FALSE]
  /\ \/ done[t] /\ UNCHANGED vfork_done
     \/ vfork_done' = [vfork_done EXCEPT ![p] = None]
  /\ UNCHANGED <<own, todo, state, live, nr_threads, killed, parts, users, in_exec, bug>>

LEMMA WaitEndsKept ==
  ASSUME ForkConstantsOK, ForkInv, NEW t \in Tasks, NEW p \in Tasks, WaitEnds(t, p)
  PROVE  ForkInv'
<1> USE DEF ForkInv
<1>1. /\ step[t] \in VforkPcs /\ p = lv[t].p /\ state[t] = "live"
      /\ step' = [step EXCEPT ![t] = "user"] /\ lv' = [lv EXCEPT ![t] = Local]
      /\ usage' = [usage EXCEPT ![p] = @ - 1] /\ done' = [done EXCEPT ![t] = FALSE]
      /\ \/ done[t] /\ UNCHANGED vfork_done
         \/ vfork_done' = [vfork_done EXCEPT ![p] = None]
      /\ UNCHANGED <<own, todo, state, live, nr_threads, killed, parts, users, in_exec, bug>>
  BY DEF WaitEnds
<1>2. PICK l \in Pcs : l = "user"
  BY DEF Pcs
<1>3. l \notin VforkPcs /\ step[t] \in ParentPcs /\ None \notin Tasks /\ l # "wake"
  BY <1>1, <1>2 DEF VforkPcs, ParentPcs, ForkConstantsOK
<1>4. ParentQuiet(t, p, l)
  <2>1. usage[p] \in Int /\ usage \in [Tasks -> Int]
    BY DEF ForkTypes
  <2>2. /\ usage'[p] = usage[p] - One(step[t] \in VforkPcs) + One(l \in VforkPcs)
        /\ \A k \in Tasks \ {p} : usage'[k] = usage[k]
    BY <1>1, <1>3, <2>1 DEF One
  <2>3. lv' = [lv EXCEPT ![t] = IF l = "user" THEN Local ELSE lv[t]]
    BY <1>1, <1>2
  <2>4. ParentMoves(t, p, l)
    BY <1>1, <1>2, <1>3, <2>3 DEF ParentMoves
  <2> QED
    BY <1>1, <2>2, <2>4 DEF ParentQuiet
<1>5. /\ \A k \in Tasks \ {t} : step'[k] = step[k] /\ lv'[k] = lv[k] /\ done'[k] = done[k]
      /\ step'[t] = "user" /\ lv'[t] = Local /\ ~done'[t]
  BY <1>1 DEF ForkTypes
<1>6. /\ \A k \in Tasks : vfork_done'[k] \in {vfork_done[k], None}
      /\ \A k \in Tasks \ {p} : vfork_done'[k] = vfork_done[k]
      /\ \A k \in Tasks : vfork_done'[k] # t
  <2>1. \A k \in Tasks : vfork_done[k] = t => k = p
    BY <1>1 DEF VforkValid, Shape
  <2>2. done[t] => \A k \in Tasks : vfork_done[k] # t
    BY DEF DoneShape, Shape
  <2> QED
    BY <1>1, <1>3, <2>1, <2>2 DEF ForkTypes
<1>7. \A u \in Tasks \ {t} : lv[u].p # p
  BY <1>1, <1>3 DEF ParentsShape, Shape
<1>8. VforkValid'
  <2> SUFFICES ASSUME NEW k \in Tasks, NEW u \in Tasks
               PROVE  /\ vfork_done'[k] = u => step'[u] \in VforkPcs /\ lv'[u].p = k
                      /\ step'[u] = "vfork" /\ lv'[u].p = k => done'[u] \/ vfork_done'[k] = u
    BY DEF VforkValid, VforkPcs
  <2>1. CASE u = t
    BY <1>5, <1>6, <2>1
  <2>2. CASE u # t
    <3>1. /\ vfork_done[k] = u => step[u] \in VforkPcs /\ lv[u].p = k
          /\ step[u] = "vfork" /\ lv[u].p = k => done[u] \/ vfork_done[k] = u
      BY DEF VforkValid, Shape, VforkPcs
    <3>2. vfork_done'[k] = u => vfork_done[k] = u
      BY <1>3, <1>6
    <3>3. lv[u].p = k => vfork_done'[k] = vfork_done[k]
      BY <1>6, <1>7, <2>2
    <3> QED
      BY <1>5, <2>2, <3>1, <3>2, <3>3
  <2> QED
    BY <2>1, <2>2
<1>9. DoneShape'
  <2> SUFFICES ASSUME NEW u \in Tasks, done'[u]
               PROVE  step'[u] \in VforkPcs /\ \A k \in Tasks : vfork_done'[k] # u
    BY DEF DoneShape
  <2>1. done[u] /\ u # t
    BY <1>5
  <2>2. step[u] \in VforkPcs /\ \A k \in Tasks : vfork_done[k] # u
    BY <2>1 DEF DoneShape, Shape
  <2> QED
    BY <1>3, <1>5, <1>6, <2>1, <2>2
<1>10. /\ state' \in [Tasks -> {"free", "new", "visible", "live"}] /\ usage' \in [Tasks -> Int]
       /\ vfork_done' \in [Tasks -> Tasks \cup {None}] /\ done' \in [Tasks -> BOOLEAN]
  <2>1. /\ state \in [Tasks -> {"free", "new", "visible", "live"}] /\ usage \in [Tasks -> Int]
        /\ vfork_done \in [Tasks -> Tasks \cup {None}] /\ done \in [Tasks -> BOOLEAN]
    BY DEF ForkTypes
  <2> HIDE DEF ForkInv
  <2>2. usage' \in [Tasks -> Int] /\ done' \in [Tasks -> BOOLEAN]
    BY <1>1, <2>1
  <2>3. vfork_done' \in [Tasks -> Tasks \cup {None}]
    BY <1>1, <2>1
  <2> QED
    BY <1>1, <2>1, <2>2, <2>3
<1> HIDE DEF ForkInv
<1> QED
  BY <1>3, <1>4, <1>8, <1>9, <1>10, ParentQuietKept

\* The signal cuts the wait short; the completion is still the child's.
LEMMA VforkCutKept ==
  ASSUME ForkConstantsOK, ForkInv, NEW t \in Tasks, step[t] = "vfork", state[t] = "live", ~done[t],
         step' = [step EXCEPT ![t] = "vfork_killed"], UNCHANGED <<usage, done, lv>>,
         UNCHANGED <<own, vfork_done, todo, state, live, nr_threads, killed, parts, users, in_exec, bug>>
  PROVE  ForkInv'
<1> USE DEF ForkInv
<1>1. PICK l \in Pcs : l = "vfork_killed"
  BY DEF Pcs, ParentPcs
<1>2. /\ l \in VforkPcs /\ step[t] \in VforkPcs /\ step[t] \in ParentPcs /\ None \notin Tasks
      /\ l # "wake" /\ l # "user"
  BY <1>1 DEF VforkPcs, ParentPcs, ForkConstantsOK
<1>3. PICK p \in Tasks : p = lv[t].p
  BY <1>2 DEF ParentsShape, Shape
<1>4. lv' = [lv EXCEPT ![t] = lv[t]]
  BY DEF ForkTypes
<1>5. ParentQuiet(t, p, l)
  <2>1. usage[p] \in Int
    BY DEF ForkTypes
  <2>2. usage'[p] = usage[p] - One(step[t] \in VforkPcs) + One(l \in VforkPcs)
    BY <1>2, <2>1 DEF One
  <2>3. ParentMoves(t, p, l)
    BY <1>1, <1>2, <1>3, <1>4 DEF ParentMoves
  <2> QED
    BY <2>2, <2>3 DEF ParentQuiet
<1>6. /\ \A k \in Tasks \ {t} : step'[k] = step[k]
      /\ step'[t] = "vfork_killed"
  BY DEF ForkTypes
<1>7. VforkValid' /\ DoneShape'
  BY <1>2, <1>6 DEF VforkValid, DoneShape, Shape, VforkPcs
<1>8. /\ state' \in [Tasks -> {"free", "new", "visible", "live"}] /\ usage' \in [Tasks -> Int]
      /\ vfork_done' \in [Tasks -> Tasks \cup {None}] /\ done' \in [Tasks -> BOOLEAN]
  BY DEF ForkTypes
<1> HIDE DEF ForkInv
<1> QED
  BY <1>2, <1>5, <1>7, <1>8, ParentQuietKept

LEMMA VforkWaitStep ==
  ASSUME ForkConstantsOK, ForkInv, NEW t \in Tasks, VforkWait(t) \/ VforkKilled(t)
  PROVE  ForkInv'
<1>1. /\ step[t] \in VforkPcs /\ state[t] = "live"
      /\ UNCHANGED <<own, todo, state, live, nr_threads, killed, parts, users, in_exec, bug>>
  BY DEF VforkWait, VforkKilled, InStep, VforkPcs, NoLife, NoParting
<1>2. PICK p \in Tasks : p = lv[t].p
  BY <1>1 DEF ForkInv, ParentsShape, Shape, VforkPcs, ParentPcs
<1>3. CASE VforkKilled(t)
  <2>1. WaitEnds(t, p)
    BY <1>1, <1>2, <1>3 DEF VforkKilled, WaitEnds, DropsCompletion, End, Move, Keep
  <2> QED
    BY <2>1, WaitEndsKept
<1>4. CASE VforkWait(t) /\ done[t]
  <2>1. WaitEnds(t, p)
    BY <1>1, <1>2, <1>4 DEF VforkWait, WaitEnds, End, Move, Keep
  <2> QED
    BY <2>1, WaitEndsKept
<1>5. CASE VforkWait(t) /\ ~done[t]
  <2>1. /\ step[t] = "vfork" /\ step' = [step EXCEPT ![t] = "vfork_killed"]
        /\ UNCHANGED <<usage, done, lv, vfork_done>>
    BY <1>5 DEF VforkWait, InStep, Move
  <2> QED
    BY <1>1, <1>5, <2>1, VforkCutKept
<1> QED
  BY <1>3, <1>4, <1>5

\* A task_struct that nobody uses is no parent's child.
LEMMA UnusedTask ==
  ASSUME ForkConstantsOK, ForkTypes, Shape, NEW p \in Tasks, usage[p] = 0
  PROVE  /\ state[p] = "free" /\ step[p] = "user" /\ ~Awaited(p) /\ lv[p] = Local
         /\ \A u \in Tasks : lv[u].p # p /\ vfork_done[u] # p
<1>1. state[p] = "free" /\ ~Awaited(p)
  BY DEF Shape, UsageExact
<1>2. step[p] = "user" /\ lv[p] = Local
  BY <1>1 DEF Shape, TaskShape
<1>3. \A u \in Tasks : lv[u].p # p
  <2> SUFFICES ASSUME NEW u \in Tasks, lv[u].p = p PROVE FALSE
    OBVIOUS
  <2>1. step[u] \in ParentPcs
    BY DEF Shape, ParentsShape, ForkConstantsOK
  <2>2. step[u] \in {"copy", "undo", "wake"} => state[p] \in {"new", "visible"}
    BY DEF Shape, ParentsShape
  <2>3. step[u] \in VforkPcs => Awaited(p)
    BY DEF Awaited
  <2> QED
    BY <1>1, <2>1, <2>2, <2>3 DEF ParentPcs, VforkPcs
<1>4. \A u \in Tasks : vfork_done[u] # p
  BY <1>2 DEF Shape, VforkValid
<1> QED
  BY <1>1, <1>2, <1>3, <1>4

\* The task_struct p for a copy of t.
Dups(t, p, r) ==
  /\ state[t] = "live" /\ step[t] = "user" /\ usage[p] = 0
  /\ r.p = p /\ r.i = 1 /\ r.new = NoParts
  /\ state' = [state EXCEPT ![p] = "new"] /\ parts' = [parts EXCEPT ![p] = parts[t]]
  /\ own' = [own EXCEPT ![p] = {"task"}] /\ usage' = [usage EXCEPT ![p] = 1]
  /\ vfork_done' = [vfork_done EXCEPT ![p] = None]
  /\ lv' = [lv EXCEPT ![t] = r] /\ step' = [step EXCEPT ![t] = "copy"]
  /\ UNCHANGED <<users, live, nr_threads, in_exec, done, killed, bug>>

LEMMA DupsKept ==
  ASSUME ForkConstantsOK, ForkInv, NEW t \in Tasks, NEW p \in Tasks, NEW r \in Locals, Dups(t, p, r),
         todo' \in [Tasks -> Seq(Calls)]
  PROVE  ForkInv'
<1> USE DEF ForkInv
<1>1. /\ state[t] = "live" /\ step[t] = "user" /\ usage[p] = 0
      /\ r.p = p /\ r.i = 1 /\ r.new = NoParts
      /\ state' = [state EXCEPT ![p] = "new"] /\ parts' = [parts EXCEPT ![p] = parts[t]]
      /\ own' = [own EXCEPT ![p] = {"task"}] /\ usage' = [usage EXCEPT ![p] = 1]
      /\ vfork_done' = [vfork_done EXCEPT ![p] = None]
      /\ lv' = [lv EXCEPT ![t] = r] /\ step' = [step EXCEPT ![t] = "copy"]
      /\ UNCHANGED <<users, live, nr_threads, in_exec, done, killed, bug>>
  BY DEF Dups
<1>2. /\ state[p] = "free" /\ step[p] = "user" /\ ~Awaited(p) /\ lv[p] = Local /\ p # t
      /\ \A u \in Tasks : lv[u].p # p /\ vfork_done[u] # p
      /\ None \notin Tasks
  BY <1>1, UnusedTask DEF ForkConstantsOK
<1>3. /\ "signal" \in Kinds /\ "fs" \in Kinds /\ "task" \notin Kinds /\ "task" \in Takes
      /\ Gone("user") = {} /\ Gone("copy") = {}
  BY KindsAre, UndosAre DEF Gone, Takes
<1>4. /\ \A m \in Kinds : parts[t][m] # None
      /\ \A m \in Kinds : parts[p][m] = None
  BY <1>1, <1>2, <1>3, LocalType DEF Shape, TaskShape
<1>5. /\ \A k \in Tasks \ {p} : /\ state'[k] = state[k] /\ parts'[k] = parts[k] /\ own'[k] = own[k]
                                /\ usage'[k] = usage[k] /\ vfork_done'[k] = vfork_done[k]
      /\ state'[p] = "new" /\ parts'[p] = parts[t] /\ own'[p] = {"task"} /\ usage'[p] = 1
      /\ vfork_done'[p] = None
  BY <1>1, <1>3 DEF ForkTypes
<1>6. /\ \A k \in Tasks \ {t} : step'[k] = step[k] /\ lv'[k] = lv[k]
      /\ step'[t] = "copy" /\ lv'[t] = r /\ lv[t] = Local
  BY <1>1 DEF ForkTypes, Shape, TaskShape
<1>7. \A k \in Tasks : lv'[k].new = lv[k].new /\ (step'[k] \in ExitPcs <=> step[k] \in ExitPcs)
  BY <1>1, <1>6, LocalType DEF ExitPcs
<1>8. /\ \A m \in Kinds : ~Counted(p, m) /\ ~Counted(p, m)'
      /\ \A k \in Tasks \ {p} : \A m \in Kinds : Counted(k, m)' <=> Counted(k, m)
  BY <1>3, <1>4, <1>5 DEF Counted
<1>9. ForkTypes'
  <2>1. state' \in [Tasks -> {"free", "new", "visible", "live"}] /\ usage' \in [Tasks -> Int]
    BY <1>1 DEF ForkTypes
  <2>2. parts' \in [Tasks -> [Kinds -> OrNone]] /\ own' \in [Tasks -> SUBSET Takes]
    BY <1>1, <1>3 DEF ForkTypes
  <2>3. vfork_done' \in [Tasks -> Tasks \cup {None}]
    BY <1>1 DEF ForkTypes
  <2>4. lv' \in [Tasks -> Locals] /\ step' \in [Tasks -> Pcs]
    BY <1>1 DEF ForkTypes, Pcs, ParentPcs
  <2> QED
    BY <1>1, <2>1, <2>2, <2>3, <2>4 DEF ForkTypes
<1>10. UsersExact' /\ LiveExact' /\ ThreadsExact'
  <2>1. ASSUME NEW m \in Kinds, NEW id PROVE Having(m, id)' = Having(m, id) /\ Making(m, id)' = Making(m, id)
    <3>1. \A k \in Tasks : (parts'[k][m] = id /\ Counted(k, m)') <=> (parts[k][m] = id /\ Counted(k, m))
      BY <1>5, <1>8
    <3>2. \A k \in Tasks : lv'[k].new[m] = lv[k].new[m]
      BY <1>7
    <3> QED
      BY <3>1, <3>2 DEF Having, Making
  <2>2. ASSUME NEW id PROVE LiveIn(id)' = LiveIn(id)
    <3>1. \A k \in Tasks : (parts'[k].signal = id /\ Counted(k, "signal")')
                            <=> (parts[k].signal = id /\ Counted(k, "signal"))
      BY <1>3, <1>5, <1>8
    <3> QED
      BY <1>7, <3>1 DEF LiveIn
  <2>3. Threads' = Threads
    BY <1>2, <1>5 DEF Threads
  <2> QED
    BY <1>1, <2>1, <2>2, <2>3 DEF UsersExact, LiveExact, ThreadsExact
<1>11. TaskShape'
  <2>1. \A k \in Tasks \ {p, t} :
          /\ step'[k] = "user" => lv'[k] = Local
          /\ step'[k] # "user" => state'[k] = "live"
          /\ state'[k] # "new" => own'[k] = {}
          /\ state'[k] = "free" => parts'[k] = NoParts
          /\ state'[k] # "free" => \A kind \in Kinds : parts'[k][kind] = None <=> kind \in Gone(step'[k])
    <3>1. \A k \in Tasks \ {p, t} : /\ step'[k] = step[k] /\ lv'[k] = lv[k] /\ own'[k] = own[k]
                                    /\ state'[k] = state[k] /\ parts'[k] = parts[k]
      BY <1>5, <1>6
    <3> QED
      BY <3>1 DEF TaskShape, Shape
  <2>2. /\ state'[t] = "live" /\ own'[t] = {} /\ step'[t] = "copy"
        /\ \A kind \in Kinds : parts'[t][kind] = None <=> kind \in Gone("copy")
    BY <1>1, <1>2, <1>3, <1>4, <1>5, <1>6 DEF TaskShape, Shape
  <2>3. /\ step'[p] = "user" /\ lv'[p] = Local /\ state'[p] = "new"
        /\ \A kind \in Kinds : parts'[p][kind] = None <=> kind \in Gone("user")
    BY <1>2, <1>3, <1>4, <1>5, <1>6
  <2> QED
    BY <2>1, <2>2, <2>3 DEF TaskShape
<1>12. MadeShape'
  BY <1>1, <1>6, LocalType DEF MadeShape, Shape
<1>13. ParentsShape'
  <2>1. \A u \in Tasks \ {t} : /\ step[u] \in ParentPcs => lv[u].p \in Tasks /\ lv[u].p # p
                               /\ step[u] \notin ParentPcs => lv[u].p = None
                               /\ step[u] \in {"copy", "undo"} => state[lv[u].p] = "new"
                               /\ step[u] = "wake" => state[lv[u].p] = "visible"
    BY <1>2 DEF ParentsShape, Shape
  <2>2. \A u \in Tasks :
          /\ step'[u] \in ParentPcs => lv'[u].p \in Tasks
          /\ step'[u] \notin ParentPcs => lv'[u].p = None
          /\ step'[u] \in {"copy", "undo"} => state'[lv'[u].p] = "new"
          /\ step'[u] = "wake" => state'[lv'[u].p] = "visible"
    <3>1. ASSUME NEW u \in Tasks \ {t}
          PROVE  /\ step'[u] \in ParentPcs => lv'[u].p \in Tasks
                 /\ step'[u] \notin ParentPcs => lv'[u].p = None
                 /\ step'[u] \in {"copy", "undo"} => state'[lv'[u].p] = "new"
                 /\ step'[u] = "wake" => state'[lv'[u].p] = "visible"
      <4>1. step'[u] = step[u] /\ lv'[u] = lv[u]
        BY <1>6
      <4>2. step[u] \in {"copy", "undo", "wake"} => step[u] \in ParentPcs
        BY DEF ParentPcs
      <4>3. step[u] \in ParentPcs => state'[lv[u].p] = state[lv[u].p]
        BY <1>5, <2>1
      <4> QED
        BY <2>1, <4>1, <4>2, <4>3
    <3>2. /\ lv'[t].p \in Tasks /\ state'[lv'[t].p] = "new" /\ step'[t] = "copy"
          /\ step'[t] \in ParentPcs
      BY <1>1, <1>5, <1>6 DEF ParentPcs
    <3> QED
      BY <3>1, <3>2
  <2>3. \A u, w \in Tasks : lv'[u].p # None /\ lv'[u].p = lv'[w].p => u = w
    BY <1>1, <1>2, <1>6 DEF ParentsShape, Shape
  <2> QED
    BY <2>2, <2>3 DEF ParentsShape
<1>14. UsageExact'
  <2>1. \A k \in Tasks : Awaited(k)' <=> Awaited(k)
    BY <1>1, <1>6 DEF Awaited, VforkPcs
  <2> QED
    BY <1>2, <1>5, <2>1, SMTT(20) DEF UsageExact, Shape
<1>15. VforkValid'
  <2> SUFFICES ASSUME NEW k \in Tasks, NEW u \in Tasks
               PROVE  /\ vfork_done'[k] = u => step'[u] \in VforkPcs /\ lv'[u].p = k
                      /\ step'[u] = "vfork" /\ lv'[u].p = k => done'[u] \/ vfork_done'[k] = u
    BY DEF VforkValid, VforkPcs
  <2>1. /\ vfork_done[k] = u => step[u] \in VforkPcs /\ lv[u].p = k
        /\ step[u] = "vfork" /\ lv[u].p = k => done[u] \/ vfork_done[k] = u
    BY DEF VforkValid, Shape, VforkPcs
  <2>2. CASE u = t
    <3>1. step[t] \notin VforkPcs /\ step'[t] # "vfork" /\ t # None
      BY <1>1, <1>2, <1>6 DEF VforkPcs
    <3>2. vfork_done'[k] # t
      BY <1>5, <2>1, <2>2, <3>1
    <3> QED
      BY <2>2, <3>1, <3>2
  <2>3. CASE u # t
    <3>1. step'[u] = step[u] /\ lv'[u] = lv[u] /\ done'[u] = done[u]
      BY <1>1, <1>6, <2>3
    <3>2. k = p => vfork_done'[k] # u /\ lv[u].p # k
      BY <1>2, <1>5
    <3>3. k # p => vfork_done'[k] = vfork_done[k]
      BY <1>5
    <3> QED
      BY <2>1, <3>1, <3>2, <3>3
  <2> QED
    BY <2>2, <2>3
<1>16. DoneShape'
  <2> SUFFICES ASSUME NEW u \in Tasks, done'[u]
               PROVE  step'[u] \in VforkPcs /\ \A k \in Tasks : vfork_done'[k] # u
    BY DEF DoneShape
  <2>1. done[u]
    BY <1>1
  <2>2. step[u] \in VforkPcs /\ \A k \in Tasks : vfork_done[k] # u
    BY <2>1 DEF DoneShape, Shape
  <2>3. u # t
    BY <1>1, <2>2 DEF VforkPcs
  <2> QED
    BY <1>2, <1>5, <1>6, <2>2, <2>3
<1>17. ASSUME NEW u \in Tasks PROVE CopyAt(u)' /\ UndoAt(u)'
  <2>1. CASE u = t
    <3>1. Taken(1) = {"task"} /\ "task" \notin NotOwned
      BY DEF Taken, NotOwned
    <3>2. Has(t, "task")'
      BY DEF Has
    <3>3. lv'[t].i = 1 /\ lv'[t].p = p /\ parts'[t] = parts[t] /\ step'[t] = "copy"
      BY <1>1, <1>2, <1>5, <1>6
    <3>4. own'[p] = {s \in Taken(1) \ NotOwned : Has(t, s)'}
      BY <1>5, <3>1, <3>2
    <3> QED
      BY <1>5, <2>1, <3>3, <3>4 DEF CopyAt, UndoAt
  <2>2. CASE u # t
    <3>1. CopyAt(u) /\ UndoAt(u)
      BY DEF Shape, CopyShape, UndoShape
    <3>2. step'[u] = step[u] /\ lv'[u] = lv[u] /\ \A s : Has(u, s)' <=> Has(u, s)
      BY <1>6, <2>2 DEF Has
    <3>3. CASE step[u] \in {"copy", "undo"}
      <4>1. lv[u].p \in Tasks /\ lv[u].p # p /\ u # p
        BY <1>2, <3>3 DEF Shape, ParentsShape, ParentPcs
      <4>2. /\ own'[lv[u].p] = own[lv[u].p] /\ parts'[lv[u].p] = parts[lv[u].p]
            /\ parts'[u] = parts[u]
        BY <1>5, <4>1
      <4> QED
        BY <3>1, <3>2, <4>2 DEF CopyAt, UndoAt
    <3>4. CASE step[u] \notin {"copy", "undo"}
      BY <3>2, <3>4 DEF CopyAt, UndoAt
    <3> QED
      BY <3>3, <3>4
  <2> QED
    BY <2>1, <2>2
<1>18. SignalShape'
  <2> SUFFICES ASSUME NEW k \in Tasks, NEW u \in Tasks, state'[k] = "new", "signal" \in own'[k], u # k,
                      Counted(u, "signal")'
               PROVE  parts'[u].signal # parts'[k].signal
    BY DEF SignalShape
  <2>1. k # p /\ u # p
    BY <1>3, <1>5, <1>8
  <2> QED
    BY <1>3, <1>5, <1>8, <2>1, SMTT(20) DEF SignalShape, Shape
<1>19. ExecShape'
  <2>1. \A k \in Tasks : step'[k] \in ExecPcs => step[k] \in ExecPcs /\ lv'[k] = lv[k] /\ k # p
    BY <1>2, <1>6 DEF ExecPcs
  <2>2. \A k \in Tasks : Counted(k, "fs")' => k # p
    BY <1>3, <1>8
  <2> QED
    BY <1>1, <1>3, <1>5, <1>7, <1>8, <2>1, <2>2, ExecKept
<1> QED
  BY <1>1, <1>9, <1>10, <1>11, <1>12, <1>13, <1>14, <1>15, <1>16, <1>17, <1>18, <1>19
  DEF Shape, CopyShape, UndoShape

LEMMA CloneStep ==
  ASSUME ForkConstantsOK, ForkInv, NEW t \in Tasks, Clone(t)
  PROVE  ForkInv'
<1>1. /\ todo' \in [Tasks -> Seq(Calls)] /\ Head(todo[t]) \in Calls
      /\ Head(todo[t]).call = "clone" /\ state[t] = "live" /\ step[t] = "user"
  BY Beginning DEF Clone, ForkInv
<1>2. CASE UNCHANGED <<state, parts, own, usage, vfork_done, step, lv>>
  <2>1. step' = [step EXCEPT ![t] = "user"] /\ "user" \in Pcs
    BY <1>1, <1>2 DEF ForkInv, ForkTypes, Pcs
  <2>2. /\ killed' \subseteq Tasks /\ UNCHANGED lv
        /\ UNCHANGED <<state, parts, users, live, nr_threads, in_exec, own, usage, vfork_done, done, bug>>
    BY <1>2 DEF Clone, ForkInv, ForkTypes
  <2> QED
    BY <1>1, <2>1, <2>2, MovesOn
<1>3. CASE ~UNCHANGED <<state, parts, own, usage, vfork_done, step, lv>>
  <2>1. PICK p \in Tasks :
          /\ usage[p] = 0
          /\ state' = [state EXCEPT ![p] = "new"] /\ parts' = [parts EXCEPT ![p] = parts[t]]
          /\ own' = [own EXCEPT ![p] = {"task"}] /\ usage' = [usage EXCEPT ![p] = 1]
          /\ vfork_done' = [vfork_done EXCEPT ![p] = None]
          /\ lv' = [lv EXCEPT ![t] = [Local EXCEPT !.p = p, !.flags = Head(todo[t]).flags, !.i = 1]]
          /\ step' = [step EXCEPT ![t] = "copy"]
    BY <1>3 DEF Clone, Keep, Move
  <2>2. UNCHANGED <<users, live, nr_threads, in_exec, done, killed, bug>>
    BY DEF Clone
  <2>3. PICK r : r = [Local EXCEPT !.p = p, !.flags = Head(todo[t]).flags, !.i = 1]
    OBVIOUS
  <2>4. Head(todo[t]).flags \in SUBSET Sharing
    BY <1>1, FlagsType
  <2>5. r \in Locals /\ r.p = p /\ r.i = 1 /\ r.new = NoParts
    BY <2>3, <2>4, LocalType DEF Locals, Local
  <2>6. Dups(t, p, r)
    BY <1>1, <2>1, <2>2, <2>3, <2>5 DEF Dups
  <2> QED
    BY <1>1, <2>5, <2>6, DupsKept
<1> QED
  BY <1>2, <1>3

-----------------------------------------------------------------------------
(* The initial states, the stutters, every step, and the theorem.            *)

LEMMA InitHolds ==
  ASSUME ForkConstantsOK, ForkInit
  PROVE  ForkInv
<1>1. PICK first \in Firsts :
        /\ parts = first
        /\ state = [k \in Tasks |-> IF first[k] = NoParts THEN "free" ELSE "live"]
        /\ users = [kind \in Kinds |-> [id \in Ids |->
                      Cardinality({k \in Tasks : first[k][kind] = id})]]
        /\ live = [id \in Ids |-> Cardinality({k \in Tasks : first[k].signal = id})]
        /\ nr_threads = Cardinality({k \in Tasks : first[k] # NoParts})
        /\ usage = [k \in Tasks |-> IF first[k] = NoParts THEN 0 ELSE 1]
  BY DEF ForkInit
<1>2. /\ in_exec = [id \in Ids |-> FALSE] /\ own = [k \in Tasks |-> {}]
      /\ vfork_done = [k \in Tasks |-> None] /\ done = [k \in Tasks |-> FALSE]
      /\ killed = {} /\ step = [k \in Tasks |-> "user"] /\ lv = [k \in Tasks |-> Local]
      /\ todo \in Scripts /\ bug = FALSE
  BY DEF ForkInit
<1>3. /\ first \in [Tasks -> [Kinds -> OrNone]]
      /\ \A k \in Tasks : first[k] = NoParts \/ \A kind \in Kinds : first[k][kind] # None
      /\ todo \in [Tasks -> Seq(Calls)] /\ None \notin Tasks /\ None \notin Ids
      /\ IsFiniteSet(Tasks)
  BY <1>2 DEF ForkConstantsOK, OrNone
<1>4. /\ \A k \in Tasks : /\ step[k] = "user" /\ lv[k] = Local /\ own[k] = {}
                          /\ vfork_done[k] = None /\ done[k] = FALSE
                          /\ lv[k].p = None /\ lv[k].new = NoParts
      /\ \A k \in Tasks : state[k] = IF parts[k] = NoParts THEN "free" ELSE "live"
      /\ \A kind \in Kinds : NoParts[kind] = None
      /\ "user" \notin ParentPcs \cup VforkPcs \cup MadeFsPcs \cup MadeFilesPcs
                       \cup ExecPcs \cup ExitPcs
      /\ "signal" \in Kinds
  BY <1>1, <1>2, LocalType, KindsAre
     DEF ParentPcs, VforkPcs, MadeFsPcs, MadeFilesPcs, ExecPcs, ExitPcs
<1>5. \A S \in SUBSET Tasks : Cardinality(S) \in Nat
  BY <1>3, FS_Subset, FS_CardinalityType
<1>6. ForkTypes
  <2>1. users \in [Kinds -> [Ids -> Int]]
    <3>1. \A kind \in Kinds, id \in Ids : {k \in Tasks : first[k][kind] = id} \in SUBSET Tasks
      OBVIOUS
    <3>2. \A kind \in Kinds, id \in Ids : Cardinality({k \in Tasks : first[k][kind] = id}) \in Int
      BY <1>5, <3>1
    <3> QED
      BY <1>1, <3>2
  <2>2. live \in [Ids -> Int]
    <3>1. \A id \in Ids : {k \in Tasks : first[k].signal = id} \in SUBSET Tasks
      OBVIOUS
    <3>2. \A id \in Ids : Cardinality({k \in Tasks : first[k].signal = id}) \in Int
      BY <1>5, <3>1
    <3> QED
      BY <1>1, <3>2
  <2>3. nr_threads \in Int
    BY <1>1, <1>5
  <2>4. state \in [Tasks -> {"free", "new", "visible", "live"}] /\ usage \in [Tasks -> Int]
    BY <1>1
  <2>5. step \in [Tasks -> Pcs] /\ lv \in [Tasks -> Locals]
    BY <1>2, LocalType DEF Pcs
  <2> QED
    BY <1>1, <1>2, <1>3, <2>1, <2>2, <2>3, <2>4, <2>5 DEF ForkTypes
<1>7. \A k \in Tasks : state[k] \in {"free", "live"} /\ (state[k] = "free" <=> parts[k] = NoParts)
  BY <1>4
<1>8. \A k \in Tasks : \A kind \in Kinds : Counted(k, kind) <=> parts[k][kind] # None
  BY <1>7 DEF Counted
<1>9. TaskShape
  <2>1. Gone("user") = {}
    BY DEF Gone
  <2> QED
    BY <1>1, <1>3, <1>4, <1>7, <2>1 DEF TaskShape
<1>10. MadeShape
  BY <1>4 DEF MadeShape
<1>11. ParentsShape
  BY <1>4 DEF ParentsShape, ParentPcs
<1>12. UsageExact
  <2>1. \A k \in Tasks : ~Awaited(k)
    BY <1>4 DEF Awaited
  <2> QED
    BY <1>1, <1>4, <2>1 DEF UsageExact
<1>13. VforkValid /\ DoneShape
  BY <1>3, <1>4 DEF VforkValid, DoneShape, VforkPcs
<1>14. CopyShape /\ UndoShape
  BY <1>4 DEF CopyShape, UndoShape, CopyAt, UndoAt, ParentPcs
<1>15. SignalShape
  BY <1>7 DEF SignalShape
<1>16. ExecShape
  BY <1>4 DEF ExecShape
<1>17. UsersExact
  <2> SUFFICES ASSUME NEW kind \in Kinds, NEW id \in Ids
               PROVE  users[kind][id] = Cardinality(Having(kind, id)) + Cardinality(Making(kind, id))
    BY DEF UsersExact
  <2>1. Having(kind, id) = {k \in Tasks : first[k][kind] = id}
    BY <1>1, <1>3, <1>8 DEF Having
  <2>2. Making(kind, id) = {}
    BY <1>3, <1>4 DEF Making
  <2>3. users[kind][id] = Cardinality(Having(kind, id))
    BY <1>1, <2>1
  <2>4. Cardinality(Having(kind, id)) \in Nat
    BY HavingFinite
  <2> QED
    BY <2>2, <2>3, <2>4, FS_EmptySet
<1>18. LiveExact
  <2> SUFFICES ASSUME NEW id \in Ids PROVE live[id] = Cardinality(LiveIn(id))
    BY DEF LiveExact
  <2>1. LiveIn(id) = {k \in Tasks : first[k].signal = id}
    BY <1>1, <1>3, <1>4, <1>8 DEF LiveIn
  <2> QED
    BY <1>1, <2>1
<1>19. ThreadsExact
  <2>1. Threads = {k \in Tasks : first[k] # NoParts}
    BY <1>1, <1>7 DEF Threads
  <2> QED
    BY <1>1, <2>1 DEF ThreadsExact
<1> QED
  BY <1>2, <1>6, <1>9, <1>10, <1>11, <1>12, <1>13, <1>14, <1>15, <1>16, <1>17, <1>18, <1>19
     DEF ForkInv, Shape

LEMMA StutterKeeps ==
  ASSUME ForkInv, UNCHANGED forkVars
  PROVE  ForkInv'
<1>1. UNCHANGED <<state, parts, users, live, nr_threads, in_exec, own, usage, vfork_done,
                  done, killed, step, lv, todo, bug>>
  BY DEF forkVars
<1>2. ForkTypes' /\ UsersExact' /\ LiveExact' /\ ThreadsExact' /\ bug' = FALSE
  <2>1. ForkTypes' /\ bug' = FALSE
    BY <1>1 DEF ForkInv, ForkTypes
  <2>2. \A kind, id : Having(kind, id)' = Having(kind, id) /\ Making(kind, id)' = Making(kind, id)
    BY <1>1 DEF Having, Making, Counted
  <2>3. Threads' = Threads /\ \A id : LiveIn(id)' = LiveIn(id)
    BY <1>1 DEF Threads, LiveIn, Counted
  <2>4. UsersExact'
    BY <1>1, <2>2 DEF ForkInv, UsersExact
  <2>5. LiveExact' /\ ThreadsExact'
    BY <1>1, <2>3 DEF ForkInv, LiveExact, ThreadsExact
  <2> QED
    BY <2>1, <2>4, <2>5
<1>3. TaskShape' /\ MadeShape' /\ ParentsShape' /\ UsageExact' /\ VforkValid' /\ DoneShape'
  BY <1>1 DEF ForkInv, Shape, TaskShape, MadeShape, ParentsShape, UsageExact, VforkValid, DoneShape,
              Awaited
<1>4. CopyShape' /\ UndoShape' /\ SignalShape' /\ ExecShape'
  BY <1>1 DEF ForkInv, Shape, CopyShape, UndoShape, CopyAt, UndoAt, Has, SignalShape, ExecShape,
              Counted
<1> QED
  BY <1>2, <1>3, <1>4 DEF ForkInv, Shape

\* Every operation of every task keeps ForkInv.
LEMMA NextKeeps ==
  ASSUME ForkConstantsOK, ForkInv, [ForkNext]_forkVars
  PROVE  ForkInv'
<1>1. CASE UNCHANGED forkVars
  BY <1>1, StutterKeeps
<1>2. ASSUME NEW t \in Tasks, ForkStep(t) PROVE ForkInv'
  <2>1. CASE CopyPrivate(t)
    BY <2>1, CopyPrivateStep
  <2>2. CASE CopyPart(t)
    BY <2>2, CopyPartStep
  <2>3. CASE Publish(t)
    BY <2>3, PublishStep
  <2>4. CASE CopyFails(t)
    BY <2>4, CopyFailsStep
  <2>5. CASE Undo(t)
    BY <2>5, UndoStep
  <2>6. CASE Wake(t)
    BY <2>6, WakeStep
  <2>7. CASE VforkWait(t) \/ VforkKilled(t)
    BY <2>7, VforkWaitStep
  <2>8. CASE UnshareFs(t) \/ UnshareFd(t)
    BY <2>8, UnshareCopyStep
  <2>9. CASE UnshareRest(t)
    BY <2>9, UnshareRestStep
  <2>10. CASE UnshareSwap(t)
    BY <2>10, UnshareSwapStep
  <2>11. CASE UnshareCleanup(t)
    BY <2>11, UnshareCleanupStep
  <2>12. CASE ExecOpen(t)
    BY <2>12, ExecOpenStep
  <2>13. CASE KillOthers(t)
    BY <2>13, KillOthersStep
  <2>14. CASE ExecFiles(t) \/ ExecMm(t) \/ ExecSighand(t)
    BY <2>14, ExecOwnStep
  <2>15. CASE ExecEnd(t)
    BY <2>15, ExecEndStep
  <2>16. CASE ExitMm(t) \/ ExitFiles(t) \/ ExitFs(t)
    BY <2>16, ExitPartStep
  <2>17. CASE Release(t)
    BY <2>17, ReleaseStep
  <2> QED
    BY <1>2, <2>1, <2>2, <2>3, <2>4, <2>5, <2>6, <2>7, <2>8, <2>9, <2>10, <2>11, <2>12,
       <2>13, <2>14, <2>15, <2>16, <2>17 DEF ForkStep
<1>3. ASSUME NEW t \in Tasks, Call(t) PROVE ForkInv'
  <2>1. CASE Clone(t)
    BY <2>1, CloneStep
  <2>2. CASE Unshare(t)
    BY <2>2, UnshareStep
  <2>3. CASE ExecCheck(t)
    BY <2>3, ExecCheckStep
  <2>4. CASE Exit(t)
    BY <2>4, ExitStep
  <2>5. CASE KillGroup(t)
    BY <2>5, KillGroupStep
  <2> QED
    BY <1>3, <2>1, <2>2, <2>3, <2>4, <2>5 DEF Call
<1> QED
  BY <1>1, <1>2, <1>3 DEF ForkNext

LEMMA InvSound ==
  ASSUME ForkInv
  PROVE  SharingSound
<1>1. CountsExact
  BY DEF ForkInv, Shape, UsersExact, LiveExact, ThreadsExact, Having, Making, LiveIn, Threads,
         TaskShape, CountsExact
<1>2. VforkValid
  BY DEF ForkInv, Shape
<1>3. ExecFsPrivate
  BY DEF ForkInv, Shape, ExecShape, ExecFsPrivate
<1> QED
  BY <1>1, <1>2, <1>3 DEF SharingSound

\* Whoever clones, unshares, execs, exits or is killed, in whatever order, and whatever
\* stage of copy_process() fails: each structure is counted once for each task that has
\* it and for each call that has made it, and put once; a child completes only the wait
\* of the parent that waits for it; and the fs_struct of an exec that found it unshared
\* stays with its group until the exec ends (copy_process, kernel_clone, ksys_unshare,
\* check_unsafe_exec, begin_new_exec, do_exit).
THEOREM CopySharingSound ==
  ASSUME ForkConstantsOK
  PROVE  ForkSpec => []SharingSound
<1>1. ForkInit => ForkInv
  BY InitHolds
<1>2. ForkInv /\ [ForkNext]_forkVars => ForkInv'
  BY NextKeeps
<1>3. ForkInv => SharingSound
  BY InvSound
<1> QED
  BY <1>1, <1>2, <1>3, PTL DEF ForkSpec
=============================================================================
