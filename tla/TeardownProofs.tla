--------------------------- MODULE TeardownProofs ---------------------------
(***************************************************************************)
(* The two ways of tearing an address space down later, for every set of   *)
(* tasks and address spaces.                                               *)
(*                                                                         *)
(* The async_mm module: no address space is torn down while one of its     *)
(* tasks runs in it, and no mm_struct is freed while somebody uses it.     *)
(* MmUsersExact: mm_users is the number of the tasks that have yet to drop *)
(* it and of the work items, on the list or in hand, that hold the         *)
(* handler's extra reference; so the put that finds 1 finds its caller     *)
(* alone, and whoever tears down comes after it (Emptied).  CountCovers:   *)
(* mm_count is at least one for each reader and work item and one for the  *)
(* users together.  It may be more, since the worker's dec does not look   *)
(* for zero.  FinalOnce: mmput() finds zero once.                          *)
(*                                                                         *)
(* The deferred teardown: an address space is torn down at most once and   *)
(* by nobody but the owner of its last reference, and the pending counter  *)
(* covers the work.  UsersExact: mm_users is the number of the tasks that  *)
(* are still in the address space.  So the task that takes it to 0 is the  *)
(* last (OwnerAlone), and hands that role to the work item, or ends it     *)
(* (NobodyAfter).  PendingExact: each unit of the counter is a work item   *)
(* or a task that is about to queue one; QueueWork moves a unit from the   *)
(* latter to the former, as the item cannot be under way already.          *)
(* StatInv, on top of it: each statistic is that of the items that have    *)
(* passed its step since it was last reset.                                *)
(***************************************************************************)
EXTENDS AsyncMm, DeferredMmput, FiniteSetTheorems, TLAPS

-----------------------------------------------------------------------------
(* mmput() under the async_mm module                                        *)

HolderPcs == {"in_mm", "probe", "grab", "inc", "queue", "dec"}
FinalPcs == {"exit_mmap", "mmdrop"}
ItemPcs == {"inc", "queue"}
Pcs == HolderPcs \cup FinalPcs \cup {"unborn", "outside", "put", "done"}
WorkPcs == {"exit_mmap", "dec", "mmdrop"}
UndroppedPcs == {"exit_mmap", "dec"}

At(m, P) == {t \in AllTasks : SpaceOf[t] = m /\ at[t] \in P}
Looking(m) == {t \in Readers : SpaceOf[t] = m /\ at[t] # "done"}
InList(m) == {i \in 1 .. Len(list) : list[i] = m}
Hand(m, P) == IF item = m /\ (worker \in P \/ module \in P) THEN 1 ELSE 0

UserRefs(m) ==
  Cardinality(At(m, HolderPcs)) + Cardinality(At(m, {"queue"}))
    + Cardinality(InList(m)) + Hand(m, UndroppedPcs)
ItemRefs(m) ==
  Cardinality(At(m, ItemPcs)) + Cardinality(InList(m)) + Hand(m, WorkPcs)
Base(m) == IF mm_users[m] > 0 \/ At(m, FinalPcs) # {} THEN 1 ELSE 0

AsyncTypes ==
  /\ at \in [AllTasks -> Pcs] /\ \A t \in Owners : at[t] # "outside"
  /\ mm_users \in [Spaces -> Int] /\ mm_count \in [Spaces -> Int] /\ exits \in [Spaces -> Nat]
  /\ list \in Seq(Spaces)
  /\ worker \in {"top", "wait", "drain", "stopped"} \cup WorkPcs
  /\ module \in {"loaded", "unregistering", "stopping", "unloaded"} \cup WorkPcs

\* The worker and the module exit do not work at the same time.
OneWork ==
  /\ module \in WorkPcs => worker = "stopped"
  /\ IF worker \in WorkPcs \/ module \in WorkPcs THEN item \in Spaces ELSE item = NoMm

MmUsersExact == \A m \in Spaces : mm_users[m] = UserRefs(m)
CountCovers ==
  \A m \in Spaces : mm_count[m] >= Cardinality(Looking(m)) + ItemRefs(m) + Base(m)
FinalOnce ==
  \A t \in AllTasks : at[t] \in FinalPcs =>
    /\ mm_users[SpaceOf[t]] = 0
    /\ \A u \in AllTasks \ {t} : SpaceOf[u] = SpaceOf[t] => at[u] \notin FinalPcs
Emptied ==
  \A m \in Spaces :
    \/ At(m, {"grab", "inc", "queue", "exit_mmap"}) # {}
    \/ InList(m) # {} \/ Hand(m, WorkPcs) = 1 \/ exits[m] > 0
    => \A t \in Owners : SpaceOf[t] = m => at[t] # "in_mm"

AsyncInv == AsyncTypes /\ OneWork /\ MmUsersExact /\ CountCovers /\ FinalOnce /\ Emptied

-----------------------------------------------------------------------------
(* Counting: the tasks at some places, and the items of the list.            *)

LEMMA AtFinite ==
  ASSUME AsyncConstantsOK, NEW m, NEW P
  PROVE  IsFiniteSet(At(m, P)) /\ Cardinality(At(m, P)) \in Nat
BY FS_Subset, FS_CardinalityType DEF At, AsyncConstantsOK

LEMMA LookingFinite ==
  ASSUME AsyncConstantsOK, NEW m
  PROVE  IsFiniteSet(Looking(m)) /\ Cardinality(Looking(m)) \in Nat
<1>1. Looking(m) \in SUBSET AllTasks
  BY DEF Looking, AllTasks
<1> QED BY <1>1, FS_Subset, FS_CardinalityType DEF AsyncConstantsOK

LEMMA InListFinite ==
  ASSUME list \in Seq(Spaces), NEW m
  PROVE  IsFiniteSet(InList(m)) /\ Cardinality(InList(m)) \in Nat
<1>1. IsFiniteSet(1 .. Len(list)) /\ InList(m) \in SUBSET (1 .. Len(list))
  BY FS_Interval DEF InList
<1> QED BY <1>1, FS_Subset, FS_CardinalityType

\* What the step of one task changes in the number of the tasks at P.
Change(t, l, m, P) ==
  IF SpaceOf[t] # m \/ (l \in P <=> at[t] \in P) THEN 0 ELSE IF l \in P THEN 1 ELSE -1

LEMMA AtMoved ==
  ASSUME AsyncConstantsOK, at \in [AllTasks -> Pcs], NEW t \in AllTasks, NEW l,
         at' = [at EXCEPT ![t] = l], NEW m, NEW P
  PROVE  Cardinality(At(m, P)') = Cardinality(At(m, P)) + Change(t, l, m, P)
<1>1. IsFiniteSet(At(m, P)) /\ Cardinality(At(m, P)) \in Nat
  BY AtFinite
<1>2. CASE Change(t, l, m, P) = 0
  <2>1. At(m, P)' = At(m, P)
    BY <1>2 DEF At, Change
  <2> QED BY <1>1, <1>2, <2>1
<1>3. CASE SpaceOf[t] = m /\ l \in P /\ at[t] \notin P
  <2>1. At(m, P)' = At(m, P) \cup {t} /\ t \notin At(m, P)
    BY <1>3 DEF At
  <2>2. Cardinality(At(m, P)') = Cardinality(At(m, P)) + 1
    BY <1>1, <2>1, FS_AddElement
  <2> QED BY <1>3, <2>2 DEF Change
<1>4. CASE SpaceOf[t] = m /\ l \notin P /\ at[t] \in P
  <2>1. At(m, P)' = At(m, P) \ {t} /\ t \in At(m, P)
    BY <1>4 DEF At
  <2>2. Cardinality(At(m, P)') = Cardinality(At(m, P)) - 1
    BY <1>1, <2>1, FS_RemoveElement
  <2> QED BY <1>1, <1>4, <2>2 DEF Change
<1> QED BY <1>2, <1>3, <1>4 DEF Change

LEMMA Appended ==
  ASSUME list \in Seq(Spaces), NEW x \in Spaces, list' = Append(list, x), NEW m
  PROVE  /\ Cardinality(InList(m)') = Cardinality(InList(m)) + (IF m = x THEN 1 ELSE 0)
         /\ m # x => InList(m)' = InList(m)
<1>1. /\ Len(list) \in Nat /\ Len(list') = Len(list) + 1
      /\ \A i \in 1 .. Len(list) : list'[i] = list[i]
      /\ list'[Len(list) + 1] = x
  OBVIOUS
<1>2. IsFiniteSet(InList(m)) /\ Cardinality(InList(m)) \in Nat
  BY InListFinite
<1>3. CASE m = x
  <2>1. /\ InList(m)' = InList(m) \cup {Len(list) + 1}
        /\ Len(list) + 1 \notin InList(m)
    BY <1>1, <1>3 DEF InList
  <2> QED BY <1>2, <1>3, <2>1, FS_AddElement
<1>4. CASE m # x
  <2>1. InList(m)' = InList(m)
    BY <1>1, <1>4 DEF InList
  <2> QED BY <1>2, <1>4, <2>1
<1> QED BY <1>3, <1>4

LEMMA Taken ==
  ASSUME list \in Seq(Spaces), list # <<>>, list' = Tail(list), NEW m
  PROVE  /\ Cardinality(InList(m)') = Cardinality(InList(m)) - (IF m = Head(list) THEN 1 ELSE 0)
         /\ InList(m)' # {} => InList(m) # {}
         /\ InList(Head(list)) # {} /\ Head(list) \in Spaces
<1>1. /\ Len(list) \in Nat \ {0} /\ Len(list') = Len(list) - 1
      /\ Head(list) = list[1] /\ Head(list) \in Spaces
      /\ \A i \in 1 .. (Len(list) - 1) : list'[i] = list[i + 1]
  OBVIOUS
<1>2. IsFiniteSet(InList(m)) /\ Cardinality(InList(m)) \in Nat
  BY InListFinite
<1> DEFINE rest == InList(m) \ {1}
           f == [i \in rest |-> i - 1]
<1>3. rest \subseteq 2 .. Len(list)
  BY <1>1 DEF InList
<1>4. \A i \in rest : i - 1 \in InList(m)'
  BY <1>1, <1>3 DEF InList
<1>5. \A j \in InList(m)' : j + 1 \in rest /\ j \in Int
  BY <1>1 DEF InList
<1>6. f \in Bijection(rest, InList(m)')
  <2>1. f \in [rest -> InList(m)']
    BY <1>4
  <2>2. \A a, c \in rest : f[a] = f[c] => a = c
    BY <1>3
  <2>3. \A j \in InList(m)' : \E i \in rest : f[i] = j
    BY <1>5
  <2> QED BY <2>1, <2>2, <2>3 DEF Bijection, Injection, Surjection, IsInjective
<1>7. /\ IsFiniteSet(rest)
      /\ Cardinality(rest) = Cardinality(InList(m)) - (IF m = Head(list) THEN 1 ELSE 0)
  <2>1. 1 \in InList(m) <=> m = Head(list)
    BY <1>1 DEF InList
  <2> QED BY <1>2, <2>1, FS_RemoveElement
<1>8. Cardinality(InList(m)') = Cardinality(rest)
  BY <1>6, <1>7, FS_Bijection DEF ExistsBijection
<1>9. InList(Head(list)) # {}
  BY <1>1 DEF InList
<1> QED BY <1>1, <1>4, <1>5, <1>7, <1>8, <1>9

-----------------------------------------------------------------------------
(* What the counts say of who is where.                                      *)

LEMMA RefsNat ==
  ASSUME AsyncConstantsOK, AsyncTypes, NEW m \in Spaces
  PROVE  UserRefs(m) \in Nat /\ ItemRefs(m) \in Nat /\ Base(m) \in {0, 1}
<1>1. /\ Cardinality(At(m, HolderPcs)) \in Nat /\ Cardinality(At(m, {"queue"})) \in Nat
      /\ Cardinality(At(m, ItemPcs)) \in Nat /\ Cardinality(InList(m)) \in Nat
  BY AtFinite, InListFinite DEF AsyncTypes
<1> QED BY <1>1 DEF UserRefs, ItemRefs, Base, Hand

\* A task that has yet to drop mm_users, or a work item in hand, is counted.
LEMMA Holds ==
  ASSUME AsyncConstantsOK, AsyncTypes, NEW m \in Spaces
  PROVE  /\ \A t \in AllTasks : SpaceOf[t] = m /\ at[t] \in HolderPcs => UserRefs(m) >= 1
         /\ Hand(m, UndroppedPcs) = 1 => UserRefs(m) >= 1
<1>1. /\ IsFiniteSet(At(m, HolderPcs)) /\ Cardinality(At(m, HolderPcs)) \in Nat
      /\ Cardinality(At(m, {"queue"})) \in Nat /\ Cardinality(InList(m)) \in Nat
      /\ Hand(m, UndroppedPcs) \in {0, 1}
  BY AtFinite, InListFinite DEF AsyncTypes, Hand
<1>2. ASSUME NEW t \in AllTasks, SpaceOf[t] = m, at[t] \in HolderPcs
      PROVE  UserRefs(m) >= 1
  <2>1. At(m, HolderPcs) # {}
    BY <1>2 DEF At
  <2>2. Cardinality(At(m, HolderPcs)) # 0
    BY <1>1, <2>1, FS_EmptySet
  <2> QED BY <1>1, <2>2 DEF UserRefs
<1> QED BY <1>1, <1>2 DEF UserRefs

\* The put that finds one reference finds its caller alone.
LEMMA Sole ==
  ASSUME AsyncConstantsOK, AsyncTypes, NEW t \in AllTasks, at[t] \in HolderPcs, UserRefs(SpaceOf[t]) = 1
  PROVE  \A u \in AllTasks \ {t} : SpaceOf[u] = SpaceOf[t] => at[u] \notin HolderPcs
<1> DEFINE m == SpaceOf[t]
<1>1. m \in Spaces
  BY DEF AsyncConstantsOK
<1>2. /\ IsFiniteSet(At(m, HolderPcs)) /\ Cardinality(At(m, HolderPcs)) \in Nat
      /\ Cardinality(At(m, {"queue"})) \in Nat /\ Cardinality(InList(m)) \in Nat
      /\ Hand(m, UndroppedPcs) \in {0, 1}
  BY AtFinite, InListFinite DEF AsyncTypes, Hand
<1>3. t \in At(m, HolderPcs)
  BY DEF At
<1>4. Cardinality(At(m, HolderPcs)) # 0
  BY <1>2, <1>3, FS_EmptySet
<1>5. Cardinality(At(m, HolderPcs)) = 1
  BY <1>2, <1>4 DEF UserRefs
<1>6. PICK x : At(m, HolderPcs) = {x}
  BY <1>2, <1>5, FS_Singleton
<1> QED BY <1>3, <1>6 DEF At

\* Whoever uses an mm_struct is counted in mm_count.
LEMMA Uses ==
  ASSUME AsyncConstantsOK, AsyncTypes, OneWork, MmUsersExact, NEW m \in Spaces
  PROVE  /\ At(m, HolderPcs \cup FinalPcs) # {} => Base(m) = 1
         /\ Looking(m) # {} => Cardinality(Looking(m)) >= 1
         /\ InList(m) # {} \/ (item = m /\ item # NoMm) => ItemRefs(m) >= 1
<1>1. ASSUME At(m, HolderPcs \cup FinalPcs) # {} PROVE Base(m) = 1
  <2>1. PICK t \in AllTasks : SpaceOf[t] = m /\ at[t] \in HolderPcs \cup FinalPcs
    BY <1>1 DEF At
  <2>2. CASE at[t] \in HolderPcs
    <3>1. mm_users[m] >= 1 /\ mm_users[m] \in Int
      BY <2>1, <2>2, Holds DEF MmUsersExact, AsyncTypes
    <3> QED BY <3>1 DEF Base
  <2>3. CASE at[t] \in FinalPcs
    <3>1. t \in At(m, FinalPcs)
      BY <2>1, <2>3 DEF At
    <3> QED BY <3>1 DEF Base
  <2> QED BY <2>1, <2>2, <2>3
<1>2. ASSUME Looking(m) # {} PROVE Cardinality(Looking(m)) >= 1
  <2>1. IsFiniteSet(Looking(m)) /\ Cardinality(Looking(m)) \in Nat
    BY LookingFinite
  <2>2. Cardinality(Looking(m)) # 0
    BY <1>2, <2>1, FS_EmptySet
  <2> QED BY <2>1, <2>2
<1>3. ASSUME InList(m) # {} \/ (item = m /\ item # NoMm) PROVE ItemRefs(m) >= 1
  <2>1. /\ IsFiniteSet(InList(m)) /\ Cardinality(InList(m)) \in Nat
        /\ Cardinality(At(m, ItemPcs)) \in Nat /\ Hand(m, WorkPcs) \in {0, 1}
    BY AtFinite, InListFinite DEF AsyncTypes, Hand
  <2>2. CASE InList(m) # {}
    <3>1. Cardinality(InList(m)) # 0
      BY <2>1, <2>2, FS_EmptySet
    <3> QED BY <2>1, <3>1 DEF ItemRefs
  <2>3. CASE item = m /\ item # NoMm
    <3>1. Hand(m, WorkPcs) = 1
      BY <2>3 DEF OneWork, Hand
    <3> QED BY <2>1, <3>1 DEF ItemRefs
  <2> QED BY <1>3, <2>2, <2>3
<1> QED BY <1>1, <1>2, <1>3

-----------------------------------------------------------------------------
LEMMA AsyncInitially ==
  ASSUME AsyncConstantsOK, AsyncInit
  PROVE  AsyncInv
<1>1. /\ \A m \in Spaces : UsersAtStart(m) \in Nat /\ ReadersOf(m) \in Nat
      /\ Starting \subseteq AllTasks /\ Readers \subseteq AllTasks
  <2>1. \A S \in SUBSET AllTasks : Cardinality(S) \in Nat
    BY FS_Subset, FS_CardinalityType DEF AsyncConstantsOK
  <2> QED BY <2>1 DEF UsersAtStart, ReadersOf, AsyncConstantsOK, AllTasks
<1>2. AsyncTypes /\ OneWork
  <2>1. at \in [AllTasks -> Pcs]
    BY DEF AsyncInit, Pcs, HolderPcs
  <2>2. \A t \in Owners : at[t] # "outside"
    BY DEF AsyncInit, AllTasks
  <2>3. OneWork
    BY DEF AsyncInit, OneWork, WorkPcs
  <2> QED BY <1>1, <2>1, <2>2, <2>3 DEF AsyncInit, AsyncTypes
<1>3. ASSUME NEW m \in Spaces
      PROVE  /\ At(m, HolderPcs) = {t \in Starting : SpaceOf[t] = m}
             /\ At(m, {"queue"}) = {} /\ At(m, ItemPcs) = {} /\ At(m, FinalPcs) = {}
             /\ Looking(m) = {t \in Readers : SpaceOf[t] = m}
             /\ InList(m) = {}
             /\ Hand(m, UndroppedPcs) = 0 /\ Hand(m, WorkPcs) = 0
  BY <1>1 DEF AsyncInit, At, Looking, InList, Hand, HolderPcs, ItemPcs, FinalPcs, WorkPcs,
              UndroppedPcs, AsyncConstantsOK, AllTasks
<1>4. ASSUME NEW m \in Spaces
      PROVE  UserRefs(m) = UsersAtStart(m) /\ ItemRefs(m) = 0
  <2>1. Cardinality({}) = 0
    BY FS_EmptySet
  <2>2. Cardinality(At(m, HolderPcs)) = UsersAtStart(m) /\ UsersAtStart(m) \in Nat
    BY <1>1, <1>3 DEF UsersAtStart
  <2>3. /\ Cardinality(At(m, {"queue"})) = 0 /\ Cardinality(At(m, ItemPcs)) = 0
        /\ Cardinality(InList(m)) = 0
        /\ Hand(m, UndroppedPcs) = 0 /\ Hand(m, WorkPcs) = 0
    BY <1>3, <2>1
  <2> QED BY <2>2, <2>3 DEF UserRefs, ItemRefs
<1>5. MmUsersExact
  BY <1>4 DEF AsyncInit, MmUsersExact
<1>6. CountCovers
  <2> SUFFICES ASSUME NEW m \in Spaces
               PROVE  mm_count[m] >= Cardinality(Looking(m)) + ItemRefs(m) + Base(m)
    BY DEF CountCovers
  <2>1. Cardinality(Looking(m)) = ReadersOf(m) /\ Base(m) \in {0, 1}
    BY <1>3 DEF ReadersOf, Base
  <2>2. mm_count[m] = 1 + ReadersOf(m)
    BY DEF AsyncInit
  <2> QED BY <1>1, <1>4, <2>1, <2>2
<1>7. FinalOnce
  BY DEF AsyncInit, FinalOnce, FinalPcs
<1>8. Emptied
  <2> SUFFICES ASSUME NEW m \in Spaces
               PROVE  /\ At(m, {"grab", "inc", "queue", "exit_mmap"}) = {}
                      /\ InList(m) = {} /\ Hand(m, WorkPcs) # 1 /\ ~(exits[m] > 0)
    BY DEF Emptied
  <2> QED BY <1>3 DEF AsyncInit, At
<1> QED BY <1>2, <1>5, <1>6, <1>7, <1>8 DEF AsyncInv

-----------------------------------------------------------------------------
(* The tasks.                                                                *)

LEMMA PcStep ==
  ASSUME AsyncConstantsOK, AsyncTypes, NEW t \in AllTasks, NEW l \in Pcs, at' = [at EXCEPT ![t] = l],
         UNCHANGED <<list, worker, item, module>>, NEW m \in Spaces
  PROVE  /\ UserRefs(m)' = UserRefs(m) + Change(t, l, m, HolderPcs) + Change(t, l, m, {"queue"})
         /\ ItemRefs(m)' = ItemRefs(m) + Change(t, l, m, ItemPcs)
         /\ InList(m)' = InList(m) /\ Hand(m, WorkPcs)' = Hand(m, WorkPcs)
<1>1. /\ Cardinality(At(m, HolderPcs)) \in Nat /\ Cardinality(At(m, {"queue"})) \in Nat
      /\ Cardinality(At(m, ItemPcs)) \in Nat /\ Cardinality(InList(m)) \in Nat
      /\ Hand(m, WorkPcs) \in {0, 1} /\ Hand(m, UndroppedPcs) \in {0, 1}
  BY AtFinite, InListFinite DEF AsyncTypes, Hand
<1>2. /\ Cardinality(At(m, HolderPcs)') = Cardinality(At(m, HolderPcs)) + Change(t, l, m, HolderPcs)
      /\ Cardinality(At(m, {"queue"})') = Cardinality(At(m, {"queue"})) + Change(t, l, m, {"queue"})
      /\ Cardinality(At(m, ItemPcs)') = Cardinality(At(m, ItemPcs)) + Change(t, l, m, ItemPcs)
  BY AtMoved DEF AsyncTypes
<1>3. /\ InList(m)' = InList(m) /\ Hand(m, WorkPcs)' = Hand(m, WorkPcs)
      /\ Hand(m, UndroppedPcs)' = Hand(m, UndroppedPcs)
  BY DEF InList, Hand
<1>4. /\ Change(t, l, m, HolderPcs) \in Int /\ Change(t, l, m, {"queue"}) \in Int
      /\ Change(t, l, m, ItemPcs) \in Int
  BY DEF Change
<1> QED BY <1>1, <1>2, <1>3, <1>4 DEF UserRefs, ItemRefs

\* A step of one task before the end of its mmput(), or into the address space.
TaskGoes(t, l, du, dc) ==
  /\ l \in Pcs \ {"done", "mmdrop", "outside"} /\ du \in Int /\ dc \in Int
  /\ Move(t, l) /\ AddUser(SpaceOf[t], du) /\ AddCount(SpaceOf[t], dc)
  /\ UNCHANGED <<exits, list, worker, item, module>>
  /\ at[t] \notin FinalPcs \cup {"done"} /\ mm_users[SpaceOf[t]] > 0
  /\ du = Change(t, l, SpaceOf[t], HolderPcs) + Change(t, l, SpaceOf[t], {"queue"})
  /\ dc = Change(t, l, SpaceOf[t], ItemPcs)
  /\ IF l = "exit_mmap" THEN mm_users[SpaceOf[t]] + du = 0 ELSE mm_users[SpaceOf[t]] + du > 0
  /\ l = "in_mm" => t \in Readers \/ \E o \in Owners : SpaceOf[o] = SpaceOf[t] /\ at[o] = "in_mm"
  /\ l \in {"grab", "exit_mmap"} => mm_users[SpaceOf[t]] = 1 /\ at[t] \in HolderPcs
  /\ l \in {"inc", "queue"} => at[t] \in {"grab", "inc", "queue"}

LEMMA TaskStep ==
  ASSUME AsyncConstantsOK, AsyncInv, NEW t \in AllTasks, NEW l, NEW du, NEW dc, TaskGoes(t, l, du, dc)
  PROVE  AsyncInv'
<1> USE DEF TaskGoes, Move, AddUser, AddCount
<1> DEFINE m == SpaceOf[t]
<1>1. m \in Spaces
  BY DEF AsyncConstantsOK
<1>2. AsyncTypes'
  BY <1>1 DEF AsyncInv, AsyncTypes
<1>3. OneWork'
  BY DEF AsyncInv, OneWork
<1>4. \A n \in Spaces :
         /\ UserRefs(n)' = UserRefs(n) + (IF n = m THEN du ELSE 0)
         /\ ItemRefs(n)' = ItemRefs(n) + (IF n = m THEN dc ELSE 0)
         /\ UserRefs(n) \in Nat /\ ItemRefs(n) \in Nat
         /\ InList(n)' = InList(n) /\ Hand(n, WorkPcs)' = Hand(n, WorkPcs)
  <2> SUFFICES ASSUME NEW n \in Spaces
               PROVE  /\ UserRefs(n)' = UserRefs(n) + (IF n = m THEN du ELSE 0)
                      /\ ItemRefs(n)' = ItemRefs(n) + (IF n = m THEN dc ELSE 0)
                      /\ UserRefs(n) \in Nat /\ ItemRefs(n) \in Nat
                      /\ InList(n)' = InList(n) /\ Hand(n, WorkPcs)' = Hand(n, WorkPcs)
    OBVIOUS
  <2>1. /\ UserRefs(n)' = UserRefs(n) + Change(t, l, n, HolderPcs) + Change(t, l, n, {"queue"})
        /\ ItemRefs(n)' = ItemRefs(n) + Change(t, l, n, ItemPcs)
        /\ InList(n)' = InList(n) /\ Hand(n, WorkPcs)' = Hand(n, WorkPcs)
    BY PcStep DEF AsyncInv
  <2>2. UserRefs(n) \in Nat /\ ItemRefs(n) \in Nat
    BY RefsNat DEF AsyncInv
  <2>3. n # m => /\ Change(t, l, n, HolderPcs) = 0 /\ Change(t, l, n, {"queue"}) = 0
                 /\ Change(t, l, n, ItemPcs) = 0
    BY DEF Change
  <2>4. /\ Change(t, l, n, HolderPcs) \in Int /\ Change(t, l, n, {"queue"}) \in Int
        /\ Change(t, l, n, ItemPcs) \in Int
    BY DEF Change
  <2> QED BY <2>1, <2>2, <2>3, <2>4
<1>5. MmUsersExact'
  BY <1>1, <1>4 DEF AsyncInv, AsyncTypes, MmUsersExact
<1>6. \A n \in Spaces : Looking(n)' = Looking(n)
  BY DEF Looking, AsyncInv, AsyncTypes
<1>7. \A n \in Spaces : Base(n)' = Base(n)
  <2> SUFFICES ASSUME NEW n \in Spaces PROVE Base(n)' = Base(n)
    OBVIOUS
  <2>1. CASE n # m
    <3>1. At(n, FinalPcs)' = At(n, FinalPcs) /\ mm_users'[n] = mm_users[n]
      BY <1>1, <2>1 DEF At, AsyncInv, AsyncTypes
    <3> QED BY <3>1 DEF Base
  <2>2. CASE n = m /\ l = "exit_mmap"
    <3>1. t \in At(n, FinalPcs)'
      BY <2>2 DEF At, FinalPcs, AsyncInv, AsyncTypes
    <3> QED BY <2>2, <3>1 DEF Base
  <2>3. CASE n = m /\ l # "exit_mmap"
    <3>1. mm_users'[n] > 0
      BY <1>1, <2>3 DEF AsyncInv, AsyncTypes
    <3> QED BY <2>3, <3>1 DEF Base
  <2> QED BY <2>1, <2>2, <2>3
<1>8. CountCovers'
  <2> SUFFICES ASSUME NEW n \in Spaces
               PROVE  mm_count'[n] >= Cardinality(Looking(n)') + ItemRefs(n)' + Base(n)'
    BY DEF CountCovers
  <2>1. /\ mm_count[n] >= Cardinality(Looking(n)) + ItemRefs(n) + Base(n)
        /\ mm_count[n] \in Int /\ Cardinality(Looking(n)) \in Nat /\ Base(n) \in Int
    BY LookingFinite, RefsNat DEF AsyncInv, CountCovers, AsyncTypes
  <2>2. mm_count'[n] = mm_count[n] + (IF n = m THEN dc ELSE 0)
    BY <1>1, <2>1 DEF AsyncInv, AsyncTypes
  <2> QED BY <1>4, <1>6, <1>7, <2>1, <2>2
<1>9. FinalOnce'
  <2>1. \A u \in AllTasks : SpaceOf[u] = m => at[u] \notin FinalPcs
    BY DEF AsyncInv, FinalOnce
  <2>2. l \in FinalPcs => l = "exit_mmap" /\ mm_users'[m] = 0
    BY <1>1 DEF FinalPcs, AsyncInv, AsyncTypes
  <2>3. ASSUME NEW u \in AllTasks, at'[u] \in FinalPcs
        PROVE  /\ mm_users'[SpaceOf[u]] = 0
               /\ \A v \in AllTasks \ {u} : SpaceOf[v] = SpaceOf[u] => at'[v] \notin FinalPcs
    <3>1. CASE u = t
      <4>1. mm_users'[m] = 0
        BY <2>2, <2>3, <3>1 DEF AsyncInv, AsyncTypes
      <4> QED BY <2>1, <3>1, <4>1 DEF AsyncInv, AsyncTypes
    <3>2. CASE u # t
      <4>1. at[u] \in FinalPcs /\ SpaceOf[u] # m /\ SpaceOf[u] \in Spaces
        BY <2>1, <2>3, <3>2 DEF AsyncInv, AsyncTypes, AsyncConstantsOK
      <4>2. /\ mm_users[SpaceOf[u]] = 0
            /\ \A v \in AllTasks \ {u} : SpaceOf[v] = SpaceOf[u] => at[v] \notin FinalPcs
        BY <4>1 DEF AsyncInv, FinalOnce
      <4> QED BY <1>1, <4>1, <4>2 DEF AsyncInv, AsyncTypes
    <3> QED BY <3>1, <3>2
  <2> QED BY <2>3 DEF FinalOnce
<1>10. Emptied'
  <2> SUFFICES ASSUME NEW n \in Spaces,
                      \/ At(n, {"grab", "inc", "queue", "exit_mmap"})' # {}
                      \/ InList(n) # {} \/ Hand(n, WorkPcs) = 1 \/ exits[n] > 0,
                      NEW o \in Owners, SpaceOf[o] = n
               PROVE  at'[o] # "in_mm"
    BY <1>4 DEF Emptied
  <2>1. o \in AllTasks /\ (o = t => t \notin Readers)
    BY DEF AllTasks, AsyncConstantsOK
  <2>2. CASE \/ At(n, {"grab", "inc", "queue", "exit_mmap"}) # {}
             \/ InList(n) # {} \/ Hand(n, WorkPcs) = 1 \/ exits[n] > 0
    <3>1. \A v \in Owners : SpaceOf[v] = n => at[v] # "in_mm"
      BY <2>2 DEF AsyncInv, Emptied
    <3> QED BY <2>1, <3>1 DEF AsyncInv, AsyncTypes
  <2>3. CASE ~(\/ At(n, {"grab", "inc", "queue", "exit_mmap"}) # {}
               \/ InList(n) # {} \/ Hand(n, WorkPcs) = 1 \/ exits[n] > 0)
    <3>1. n = m /\ l \in {"grab", "exit_mmap"}
      BY <2>3 DEF At, AsyncInv, AsyncTypes
    <3>2. UserRefs(m) = 1
      BY <1>1, <3>1 DEF AsyncInv, MmUsersExact
    <3>3. \A u \in AllTasks \ {t} : SpaceOf[u] = m => at[u] \notin HolderPcs
      BY <3>1, <3>2, Sole DEF AsyncInv
    <3> QED BY <2>1, <3>1, <3>3 DEF HolderPcs, AsyncInv, AsyncTypes
  <2> QED BY <2>2, <2>3
<1> QED BY <1>2, <1>3, <1>5, <1>8, <1>9, <1>10 DEF AsyncInv

LEMMA CloneStep ==
  ASSUME AsyncConstantsOK, AsyncInv, NEW t \in AllTasks, NEW u \in AllTasks, AsyncClone(t, u)
  PROVE  AsyncInv'
<1>1. /\ at[u] = "unborn" /\ Move(u, "in_mm")
      /\ t \in Owners /\ at[t] = "in_mm" /\ SpaceOf[u] = SpaceOf[t]
      /\ AddUser(SpaceOf[u], 1)
      /\ UNCHANGED <<mm_count, exits, list, worker, item, module>>
  BY DEF AsyncClone, modVars
<1>2. SpaceOf[u] \in Spaces /\ mm_users[SpaceOf[u]] \in Int /\ mm_count[SpaceOf[u]] \in Int
  BY DEF AsyncConstantsOK, AsyncInv, AsyncTypes
<1>3. mm_users[SpaceOf[u]] > 0
  BY <1>1, <1>2, Holds DEF AsyncInv, MmUsersExact, HolderPcs
<1>4. AddCount(SpaceOf[u], 0)
  BY <1>1, <1>2 DEF AddUser, AddCount, AsyncInv, AsyncTypes
<1>5. /\ Change(u, "in_mm", SpaceOf[u], HolderPcs) = 1
      /\ Change(u, "in_mm", SpaceOf[u], {"queue"}) = 0
      /\ Change(u, "in_mm", SpaceOf[u], ItemPcs) = 0
  BY <1>1 DEF Change, HolderPcs, ItemPcs
<1>6. "in_mm" \in Pcs \ {"done", "mmdrop", "outside"} /\ at[u] \notin FinalPcs \cup {"done"}
  BY <1>1 DEF Pcs, HolderPcs, FinalPcs
<1>10. TaskGoes(u, "in_mm", 1, 0)
  BY <1>1, <1>2, <1>3, <1>4, <1>5, <1>6 DEF TaskGoes
<1> QED BY <1>10, TaskStep

LEMMA GetStep ==
  ASSUME AsyncConstantsOK, AsyncInv, NEW t \in AllTasks, MmGetNotZero(t)
  PROVE  AsyncInv'
<1>1. /\ at[t] = "outside" /\ Move(t, "in_mm")
      /\ t \in Readers /\ mm_users[SpaceOf[t]] > 0
      /\ AddUser(SpaceOf[t], 1)
      /\ UNCHANGED <<mm_count, exits, list, worker, item, module>>
  BY DEF MmGetNotZero, modVars
<1>2. SpaceOf[t] \in Spaces /\ mm_users[SpaceOf[t]] \in Int /\ mm_count[SpaceOf[t]] \in Int
  BY DEF AsyncConstantsOK, AsyncInv, AsyncTypes
<1>3. AddCount(SpaceOf[t], 0)
  BY <1>1, <1>2 DEF AddUser, AddCount, AsyncInv, AsyncTypes
<1>4. /\ Change(t, "in_mm", SpaceOf[t], HolderPcs) = 1
      /\ Change(t, "in_mm", SpaceOf[t], {"queue"}) = 0
      /\ Change(t, "in_mm", SpaceOf[t], ItemPcs) = 0
  BY <1>1 DEF Change, HolderPcs, ItemPcs
<1>5. "in_mm" \in Pcs \ {"done", "mmdrop", "outside"} /\ at[t] \notin FinalPcs \cup {"done"}
  BY <1>1 DEF Pcs, HolderPcs, FinalPcs
<1>10. TaskGoes(t, "in_mm", 1, 0)
  BY <1>1, <1>2, <1>3, <1>4, <1>5 DEF TaskGoes
<1> QED BY <1>10, TaskStep

\* The steps of mmput() up to the list, between which mm_users is positive.
LEMMA ProbeStep ==
  ASSUME AsyncConstantsOK, AsyncInv, NEW t \in AllTasks,
         MmPut(t) \/ Probe(t) \/ ProbeGrab(t) \/ ProbeInc(t)
  PROVE  AsyncInv'
<1>1. SpaceOf[t] \in Spaces /\ mm_users[SpaceOf[t]] \in Int /\ mm_count[SpaceOf[t]] \in Int
  BY DEF AsyncConstantsOK, AsyncInv, AsyncTypes
<1>2. /\ at[t] \in {"in_mm", "probe", "grab", "inc"}
      /\ UNCHANGED <<exits, list, worker, item, module>>
  BY DEF MmPut, Probe, ProbeGrab, ProbeInc, mmVars, modVars
<1>3. mm_users[SpaceOf[t]] > 0
  BY <1>1, <1>2, Holds DEF AsyncInv, MmUsersExact, HolderPcs
<1>4. at[t] \notin FinalPcs \cup {"done"} /\ at[t] \in HolderPcs
  BY <1>2 DEF FinalPcs, HolderPcs
<1>5. ASSUME NEW l \in {"probe", "dec", "grab"}, at[t] \in {"in_mm", "probe"},
             Move(t, l), UNCHANGED <<mm_users, mm_count>>,
             l = "grab" => mm_users[SpaceOf[t]] = 1
      PROVE  AsyncInv'
  <2>1. /\ AddUser(SpaceOf[t], 0)
        /\ AddCount(SpaceOf[t], 0)
    BY <1>1, <1>5 DEF AddUser, AddCount, AsyncInv, AsyncTypes
  <2>2. /\ Change(t, l, SpaceOf[t], HolderPcs) = 0 /\ Change(t, l, SpaceOf[t], {"queue"}) = 0
        /\ Change(t, l, SpaceOf[t], ItemPcs) = 0
    BY <1>5 DEF Change, HolderPcs, ItemPcs
  <2>3. l \in Pcs \ {"done", "mmdrop", "outside"} /\ l # "in_mm" /\ l # "exit_mmap"
        /\ l \notin {"inc", "queue"}
    BY <1>5 DEF Pcs, HolderPcs
  <2>9. TaskGoes(t, l, 0, 0)
    BY <1>1, <1>2, <1>3, <1>4, <1>5, <2>1, <2>2, <2>3 DEF TaskGoes
  <2> QED BY <2>9, TaskStep
<1>6. ASSUME MmPut(t) \/ Probe(t) PROVE AsyncInv'
  BY <1>5, <1>6 DEF MmPut, Probe, FinalPut, mmVars
<1>7. ASSUME ProbeGrab(t) PROVE AsyncInv'
  <2>1. /\ at[t] = "grab" /\ Move(t, "inc")
        /\ AddCount(SpaceOf[t], 1) /\ mm_users' = mm_users
    BY <1>7 DEF ProbeGrab, Grab
  <2>2. AddUser(SpaceOf[t], 0)
    BY <1>1, <2>1 DEF AddUser, AddCount, AsyncInv, AsyncTypes
  <2>3. /\ Change(t, "inc", SpaceOf[t], HolderPcs) = 0
        /\ Change(t, "inc", SpaceOf[t], {"queue"}) = 0
        /\ Change(t, "inc", SpaceOf[t], ItemPcs) = 1
    BY <2>1 DEF Change, HolderPcs, ItemPcs
  <2>4. "inc" \in Pcs \ {"done", "mmdrop", "outside"}
    BY DEF Pcs, HolderPcs
  <2>9. TaskGoes(t, "inc", 0, 1)
    BY <1>1, <1>2, <1>3, <1>4, <2>1, <2>2, <2>3, <2>4 DEF TaskGoes
  <2> QED BY <2>9, TaskStep
<1>8. ASSUME ProbeInc(t) PROVE AsyncInv'
  <2>1. /\ at[t] = "inc" /\ Move(t, "queue")
        /\ AddUser(SpaceOf[t], 1) /\ mm_count' = mm_count
    BY <1>8 DEF ProbeInc
  <2>2. AddCount(SpaceOf[t], 0)
    BY <1>1, <2>1 DEF AddUser, AddCount, AsyncInv, AsyncTypes
  <2>3. /\ Change(t, "queue", SpaceOf[t], HolderPcs) = 0
        /\ Change(t, "queue", SpaceOf[t], {"queue"}) = 1
        /\ Change(t, "queue", SpaceOf[t], ItemPcs) = 0
    BY <2>1 DEF Change, HolderPcs, ItemPcs
  <2>4. "queue" \in Pcs \ {"done", "mmdrop", "outside"}
    BY DEF Pcs, HolderPcs
  <2>9. TaskGoes(t, "queue", 1, 0)
    BY <1>1, <1>2, <1>3, <1>4, <2>1, <2>2, <2>3, <2>4 DEF TaskGoes
  <2> QED BY <2>9, TaskStep
<1> QED BY <1>6, <1>7, <1>8

LEMMA PutDecStep ==
  ASSUME AsyncConstantsOK, AsyncInv, NEW t \in AllTasks, MmPutDec(t)
  PROVE  AsyncInv'
<1>1. SpaceOf[t] \in Spaces /\ mm_users[SpaceOf[t]] \in Int /\ mm_count[SpaceOf[t]] \in Int
  BY DEF AsyncConstantsOK, AsyncInv, AsyncTypes
<1>2. /\ at[t] = "dec" /\ AddUser(SpaceOf[t], -1)
      /\ UNCHANGED <<mm_count, exits, list, worker, item, module>>
      /\ \E l \in {"exit_mmap", "put"} :
           Move(t, l) /\ (l = "exit_mmap" <=> mm_users[SpaceOf[t]] = 1)
  BY DEF MmPutDec, modVars
<1>3. mm_users[SpaceOf[t]] > 0 /\ at[t] \in HolderPcs
  BY <1>1, <1>2, Holds DEF AsyncInv, MmUsersExact, HolderPcs
<1>4. AddCount(SpaceOf[t], 0)
  BY <1>1, <1>2 DEF AddUser, AddCount, AsyncInv, AsyncTypes
<1>5. PICK l \in {"exit_mmap", "put"} :
        Move(t, l) /\ (l = "exit_mmap" <=> mm_users[SpaceOf[t]] = 1)
  BY <1>2
<1>6. /\ Change(t, l, SpaceOf[t], HolderPcs) = -1 /\ Change(t, l, SpaceOf[t], {"queue"}) = 0
      /\ Change(t, l, SpaceOf[t], ItemPcs) = 0
  BY <1>2, <1>5 DEF Change, HolderPcs, ItemPcs
<1>7. l \in Pcs \ {"done", "mmdrop", "outside"} /\ at[t] \notin FinalPcs \cup {"done"}
      /\ l \notin {"in_mm", "grab", "inc", "queue"}
  BY <1>2, <1>5 DEF Pcs, FinalPcs
<1>8. IF l = "exit_mmap" THEN mm_users[SpaceOf[t]] + (-1) = 0 ELSE mm_users[SpaceOf[t]] + (-1) > 0
  BY <1>1, <1>3, <1>5
<1>10. TaskGoes(t, l, -1, 0)
  BY <1>1, <1>2, <1>3, <1>4, <1>5, <1>6, <1>7, <1>8 DEF TaskGoes
<1> QED BY <1>10, TaskStep

\* The list takes over the reference and the count of the work item.
LEMMA PutQueueStep ==
  ASSUME AsyncConstantsOK, AsyncInv, NEW t \in AllTasks, ProbeQueue(t)
  PROVE  AsyncInv'
<1>1. /\ at[t] = "queue" /\ at' = [at EXCEPT ![t] = "dec"] /\ list' = Append(list, SpaceOf[t])
      /\ UNCHANGED <<mm_users, mm_count, exits, worker, item, module>>
  BY DEF ProbeQueue, Move, mmVars, modVars
<1>2. SpaceOf[t] \in Spaces /\ list \in Seq(Spaces) /\ at \in [AllTasks -> Pcs] /\ "dec" \in Pcs
  BY DEF AsyncConstantsOK, AsyncInv, AsyncTypes, Pcs, HolderPcs
<1>3. AsyncTypes' /\ OneWork'
  BY <1>1, <1>2 DEF AsyncInv, AsyncTypes, OneWork
<1>4. ASSUME NEW m \in Spaces
      PROVE  /\ UserRefs(m)' = UserRefs(m) /\ ItemRefs(m)' = ItemRefs(m)
             /\ Base(m)' = Base(m) /\ Looking(m)' = Looking(m)
             /\ Hand(m, WorkPcs)' = Hand(m, WorkPcs)
  <2>1. /\ Cardinality(At(m, HolderPcs)') = Cardinality(At(m, HolderPcs)) + Change(t, "dec", m, HolderPcs)
        /\ Cardinality(At(m, {"queue"})') = Cardinality(At(m, {"queue"})) + Change(t, "dec", m, {"queue"})
        /\ Cardinality(At(m, ItemPcs)') = Cardinality(At(m, ItemPcs)) + Change(t, "dec", m, ItemPcs)
    BY <1>1, <1>2, AtMoved
  <2>2. /\ Change(t, "dec", m, HolderPcs) = 0
        /\ Change(t, "dec", m, {"queue"}) = (IF m = SpaceOf[t] THEN -1 ELSE 0)
        /\ Change(t, "dec", m, ItemPcs) = (IF m = SpaceOf[t] THEN -1 ELSE 0)
    BY <1>1 DEF Change, HolderPcs, ItemPcs
  <2>3. Cardinality(InList(m)') = Cardinality(InList(m)) + (IF m = SpaceOf[t] THEN 1 ELSE 0)
    BY <1>1, <1>2, Appended
  <2>4. /\ Cardinality(At(m, HolderPcs)) \in Nat /\ Cardinality(At(m, {"queue"})) \in Nat
        /\ Cardinality(At(m, ItemPcs)) \in Nat /\ Cardinality(InList(m)) \in Nat
        /\ Hand(m, WorkPcs) \in {0, 1} /\ Hand(m, UndroppedPcs) \in {0, 1}
    BY <1>2, AtFinite, InListFinite DEF Hand
  <2>5. Hand(m, WorkPcs)' = Hand(m, WorkPcs) /\ Hand(m, UndroppedPcs)' = Hand(m, UndroppedPcs)
    BY <1>1 DEF Hand
  <2>6. Looking(m)' = Looking(m)
    BY <1>1, <1>2 DEF Looking
  <2>7. At(m, FinalPcs)' = At(m, FinalPcs)
    BY <1>1, <1>2 DEF At, FinalPcs
  <2>8. Base(m)' = Base(m)
    BY <1>1, <2>7 DEF Base
  <2> QED BY <2>1, <2>2, <2>3, <2>4, <2>5, <2>6, <2>8 DEF UserRefs, ItemRefs
<1>5. MmUsersExact' /\ CountCovers'
  BY <1>1, <1>4 DEF AsyncInv, MmUsersExact, CountCovers
<1>6. FinalOnce'
  BY <1>1, <1>2 DEF AsyncInv, FinalOnce, FinalPcs
<1>7. Emptied'
  <2> SUFFICES ASSUME NEW m \in Spaces,
                      \/ At(m, {"grab", "inc", "queue", "exit_mmap"})' # {}
                      \/ InList(m)' # {} \/ Hand(m, WorkPcs)' = 1 \/ exits'[m] > 0
               PROVE  \A o \in Owners : SpaceOf[o] = m => at'[o] # "in_mm"
    BY DEF Emptied
  <2>1. CASE m = SpaceOf[t]
    <3>1. t \in At(m, {"grab", "inc", "queue", "exit_mmap"})
      BY <1>1, <2>1 DEF At
    <3> QED BY <1>1, <1>2, <3>1 DEF AsyncInv, Emptied
  <2>2. CASE m # SpaceOf[t]
    <3>1. At(m, {"grab", "inc", "queue", "exit_mmap"})' = At(m, {"grab", "inc", "queue", "exit_mmap"})
      BY <1>1, <1>2, <2>2 DEF At
    <3>2. InList(m)' = InList(m)
      BY <1>1, <1>2, <2>2, Appended
    <3> QED BY <1>1, <1>2, <1>4, <3>1, <3>2 DEF AsyncInv, Emptied
  <2> QED BY <2>1, <2>2
<1> QED BY <1>3, <1>5, <1>6, <1>7 DEF AsyncInv

\* __mmput(), by the one task whose decrement found zero, and the last mm_count
\* of a reader.
LEMMA FinishStep ==
  ASSUME AsyncConstantsOK, AsyncInv, NEW t \in AllTasks,
         MmPutTeardown(t) \/ MmPutDrop(t) \/ ReaderDrop(t)
  PROVE  AsyncInv'
<1> DEFINE m == SpaceOf[t]
<1>1. /\ m \in Spaces /\ at \in [AllTasks -> Pcs] /\ mm_count \in [Spaces -> Int] /\ exits \in [Spaces -> Nat]
      /\ UNCHANGED <<mm_users, list, worker, item, module>>
  BY DEF AsyncConstantsOK, AsyncInv, AsyncTypes, MmPutTeardown, MmPutDrop, ReaderDrop, modVars
<1>2. PICK l \in {"mmdrop", "put", "done"} :
        /\ at' = [at EXCEPT ![t] = l]
        /\ \/ /\ l = "mmdrop" /\ at[t] = "exit_mmap"
              /\ exits' = [exits EXCEPT ![m] = @ + 1] /\ mm_count' = mm_count
           \/ /\ l = "put" /\ at[t] = "mmdrop" /\ exits' = exits
              /\ mm_count' = [mm_count EXCEPT ![m] = @ - 1]
           \/ /\ l = "done" /\ t \in Readers /\ at[t] \in {"outside", "put"} /\ exits' = exits
              /\ mm_count' = [mm_count EXCEPT ![m] = @ - 1]
  BY <1>1 DEF MmPutTeardown, MmPutDrop, ReaderDrop, Move, AddCount
<1>3. l \in Pcs
  BY DEF Pcs, FinalPcs
<1>4. AsyncTypes' /\ OneWork'
  <2>1. mm_count' \in [Spaces -> Int] /\ exits' \in [Spaces -> Nat]
    BY <1>1, <1>2
  <2>2. at' \in [AllTasks -> Pcs] /\ \A o \in Owners : at'[o] # "outside"
    BY <1>1, <1>2, <1>3 DEF AsyncInv, AsyncTypes
  <2> QED BY <1>1, <2>1, <2>2 DEF AsyncInv, AsyncTypes, OneWork
<1>5. ASSUME NEW n \in Spaces
      PROVE  /\ UserRefs(n)' = UserRefs(n) /\ ItemRefs(n)' = ItemRefs(n)
             /\ InList(n)' = InList(n) /\ Hand(n, WorkPcs)' = Hand(n, WorkPcs)
  <2>1. /\ UserRefs(n)' = UserRefs(n) + Change(t, l, n, HolderPcs) + Change(t, l, n, {"queue"})
        /\ ItemRefs(n)' = ItemRefs(n) + Change(t, l, n, ItemPcs)
        /\ InList(n)' = InList(n) /\ Hand(n, WorkPcs)' = Hand(n, WorkPcs)
    BY <1>1, <1>2, <1>3, PcStep DEF AsyncInv
  <2>2. /\ Change(t, l, n, HolderPcs) = 0 /\ Change(t, l, n, {"queue"}) = 0
        /\ Change(t, l, n, ItemPcs) = 0
    BY <1>2 DEF Change, HolderPcs, ItemPcs
  <2> QED BY <2>1, <2>2, RefsNat DEF AsyncInv
<1>6. MmUsersExact'
  BY <1>1, <1>5 DEF AsyncInv, MmUsersExact
<1>7. \A u \in AllTasks \ {t} : SpaceOf[u] = m /\ at[t] \in FinalPcs => at[u] \notin FinalPcs
  BY DEF AsyncInv, FinalOnce
<1>8. FinalOnce'
  <2>1. ASSUME NEW u \in AllTasks, at'[u] \in FinalPcs
        PROVE  at[u] \in FinalPcs
    BY <1>1, <1>2, <2>1 DEF FinalPcs
  <2> QED BY <1>1, <2>1 DEF AsyncInv, FinalOnce
<1>9. ASSUME NEW n \in Spaces
      PROVE  mm_count'[n] >= Cardinality(Looking(n)') + ItemRefs(n)' + Base(n)'
  <2>1. /\ mm_count[n] >= Cardinality(Looking(n)) + ItemRefs(n) + Base(n)
        /\ mm_count[n] \in Int /\ ItemRefs(n) \in Nat /\ Base(n) \in {0, 1}
        /\ IsFiniteSet(Looking(n)) /\ Cardinality(Looking(n)) \in Nat
    BY <1>1, LookingFinite, RefsNat DEF AsyncInv, CountCovers
  <2>2. CASE n # m
    <3>1. Looking(n)' = Looking(n) /\ At(n, FinalPcs)' = At(n, FinalPcs) /\ mm_count'[n] = mm_count[n]
      BY <1>1, <1>2, <2>2 DEF Looking, At
    <3> QED BY <1>1, <1>5, <2>1, <3>1 DEF Base
  <2>3. CASE n = m /\ l = "mmdrop"
    <3>1. Looking(n)' = Looking(n) /\ At(n, FinalPcs)' = At(n, FinalPcs) /\ mm_count' = mm_count
      BY <1>1, <1>2, <2>3 DEF Looking, At, FinalPcs
    <3> QED BY <1>1, <1>5, <2>1, <3>1 DEF Base
  <2>4. CASE n = m /\ l = "put"
    <3>1. Looking(n)' = Looking(n) /\ mm_count'[n] = mm_count[n] - 1
      BY <1>1, <1>2, <2>4 DEF Looking
    <3>2. t \in At(n, FinalPcs) /\ mm_users[n] = 0
      BY <1>2, <2>4 DEF At, FinalPcs, AsyncInv, FinalOnce
    <3>3. At(n, FinalPcs)' = {}
      BY <1>1, <1>2, <1>7, <2>4 DEF At, FinalPcs
    <3>4. Base(n) = 1 /\ Base(n)' = 0
      BY <1>1, <3>2, <3>3 DEF Base
    <3> QED BY <1>5, <2>1, <3>1, <3>4
  <2>5. CASE n = m /\ l = "done"
    <3>1. Looking(n)' = Looking(n) \ {t} /\ t \in Looking(n) /\ mm_count'[n] = mm_count[n] - 1
      BY <1>1, <1>2, <2>5 DEF Looking
    <3>2. Cardinality(Looking(n)') = Cardinality(Looking(n)) - 1
      BY <2>1, <3>1, FS_RemoveElement
    <3>3. At(n, FinalPcs)' = At(n, FinalPcs)
      BY <1>1, <1>2, <2>5 DEF At, FinalPcs
    <3>4. Base(n)' = Base(n)
      BY <1>1, <3>3 DEF Base
    <3> QED BY <1>5, <2>1, <3>1, <3>2, <3>4
  <2> QED BY <1>2, <2>2, <2>3, <2>4, <2>5
<1>10. CountCovers'
  BY <1>9 DEF CountCovers
<1>11. Emptied'
  <2> SUFFICES ASSUME NEW n \in Spaces,
                      \/ At(n, {"grab", "inc", "queue", "exit_mmap"})' # {}
                      \/ InList(n)' # {} \/ Hand(n, WorkPcs)' = 1 \/ exits'[n] > 0
               PROVE  \A o \in Owners : SpaceOf[o] = n => at'[o] # "in_mm"
    BY DEF Emptied
  <2>1. At(n, {"grab", "inc", "queue", "exit_mmap"})' \subseteq At(n, {"grab", "inc", "queue", "exit_mmap"})
    BY <1>1, <1>2 DEF At
  <2>2. exits'[n] > 0 => exits[n] > 0 \/ t \in At(n, {"grab", "inc", "queue", "exit_mmap"})
    BY <1>1, <1>2 DEF At
  <2>3. \A o \in Owners : SpaceOf[o] = n => at[o] # "in_mm"
    BY <1>5, <2>1, <2>2 DEF AsyncInv, Emptied
  <2> QED BY <1>1, <1>2, <2>3
<1> QED BY <1>4, <1>6, <1>8, <1>10, <1>11 DEF AsyncInv

-----------------------------------------------------------------------------
(* The worker and the module exit, which take the same steps.                *)

\* Steps that leave the references alone.
LEMMA QuietStep ==
  ASSUME AsyncInv, UNCHANGED <<at, mm_users, mm_count, exits, list, item>>,
         \/ /\ worker \in {"top", "wait", "drain"} /\ module' = module
            /\ worker' \in {"top", "wait", "drain", "stopped"}
         \/ /\ module \notin WorkPcs /\ worker' = worker
            /\ module' \in {"unregistering", "stopping", "unloaded"}
  PROVE  AsyncInv'
<1>1. AsyncTypes' /\ OneWork'
  BY DEF AsyncInv, AsyncTypes, OneWork, WorkPcs
<1>2. ASSUME NEW m \in Spaces
      PROVE  /\ Hand(m, WorkPcs)' = Hand(m, WorkPcs)
             /\ Hand(m, UndroppedPcs)' = Hand(m, UndroppedPcs)
  BY DEF Hand, WorkPcs, UndroppedPcs
<1>3. ASSUME NEW m, NEW P PROVE At(m, P)' = At(m, P)
  BY DEF At
<1>4. ASSUME NEW m PROVE Looking(m)' = Looking(m) /\ InList(m)' = InList(m)
  BY DEF Looking, InList
<1>5. ASSUME NEW m \in Spaces
      PROVE  /\ UserRefs(m)' = UserRefs(m) /\ ItemRefs(m)' = ItemRefs(m)
             /\ Base(m)' = Base(m)
  BY <1>2, <1>3, <1>4 DEF UserRefs, ItemRefs, Base
<1>6. MmUsersExact' /\ CountCovers'
  BY <1>4, <1>5 DEF AsyncInv, MmUsersExact, CountCovers
<1>7. FinalOnce'
  BY DEF AsyncInv, FinalOnce
<1>8. Emptied'
  BY <1>2, <1>3, <1>4 DEF AsyncInv, Emptied
<1> QED BY <1>1, <1>6, <1>7, <1>8 DEF AsyncInv

\* The reference of the first item moves from the list into hand.
LEMMA TakeStep ==
  ASSUME AsyncConstantsOK, AsyncInv, list # <<>>, item' = Head(list), list' = Tail(list),
         UNCHANGED <<at, mm_users, mm_count, exits>>,
         \/ worker = "drain" /\ worker' = "exit_mmap" /\ module' = module
         \/ /\ worker = "stopped" /\ worker' = worker
            /\ module = "stopping" /\ module' = "exit_mmap"
  PROVE  AsyncInv'
<1>1. list \in Seq(Spaces) /\ Head(list) \in Spaces /\ list' \in Seq(Spaces)
  BY DEF AsyncInv, AsyncTypes
<1>2. worker \notin WorkPcs /\ module \notin WorkPcs /\ item = NoMm
  BY DEF AsyncInv, OneWork, WorkPcs
<1>3. AsyncTypes' /\ OneWork'
  BY <1>1, <1>2 DEF AsyncInv, AsyncTypes, OneWork, WorkPcs
<1>4. ASSUME NEW m \in Spaces
      PROVE  /\ Hand(m, WorkPcs) = 0 /\ Hand(m, UndroppedPcs) = 0
             /\ Hand(m, WorkPcs)' = (IF m = Head(list) THEN 1 ELSE 0)
             /\ Hand(m, UndroppedPcs)' = (IF m = Head(list) THEN 1 ELSE 0)
  BY <1>2 DEF Hand, WorkPcs, UndroppedPcs, AsyncConstantsOK
<1>5. ASSUME NEW m, NEW P PROVE At(m, P)' = At(m, P)
  BY DEF At
<1>6. ASSUME NEW m PROVE Looking(m)' = Looking(m)
  BY DEF Looking
<1>7. ASSUME NEW m \in Spaces
      PROVE  /\ UserRefs(m)' = UserRefs(m) /\ ItemRefs(m)' = ItemRefs(m)
             /\ Base(m)' = Base(m)
  <2>1. Cardinality(InList(m)') = Cardinality(InList(m)) - (IF m = Head(list) THEN 1 ELSE 0)
    BY <1>1, Taken
  <2>2. /\ Cardinality(At(m, HolderPcs)) \in Nat /\ Cardinality(At(m, {"queue"})) \in Nat
        /\ Cardinality(At(m, ItemPcs)) \in Nat /\ Cardinality(InList(m)) \in Nat
    BY <1>1, AtFinite, InListFinite
  <2>3. /\ Cardinality(At(m, HolderPcs)') = Cardinality(At(m, HolderPcs))
        /\ Cardinality(At(m, {"queue"})') = Cardinality(At(m, {"queue"}))
        /\ Cardinality(At(m, ItemPcs)') = Cardinality(At(m, ItemPcs))
    BY DEF At
  <2>4. Base(m)' = Base(m)
    BY <1>5 DEF Base
  <2> QED BY <1>4, <2>1, <2>2, <2>3, <2>4 DEF UserRefs, ItemRefs
<1>8. MmUsersExact' /\ CountCovers'
  BY <1>6, <1>7 DEF AsyncInv, MmUsersExact, CountCovers
<1>9. FinalOnce'
  BY DEF AsyncInv, FinalOnce
<1>10. Emptied'
  <2>1. ASSUME NEW m \in Spaces
        PROVE  /\ InList(m)' # {} => InList(m) # {}
               /\ Hand(m, WorkPcs)' = 1 => InList(m) # {}
    BY <1>1, <1>4, Taken
  <2> QED BY <1>5, <2>1 DEF AsyncInv, Emptied
<1> QED BY <1>3, <1>8, <1>9, <1>10 DEF AsyncInv

\* Who tears down for a work item holds its reference.
LEMMA TeardownStep ==
  ASSUME AsyncInv, exits' = [exits EXCEPT ![item] = @ + 1],
         UNCHANGED <<at, mm_users, mm_count, list, item>>,
         \/ worker = "exit_mmap" /\ worker' = "dec" /\ module' = module
         \/ module = "exit_mmap" /\ module' = "dec" /\ worker' = worker
  PROVE  AsyncInv'
<1>1. item \in Spaces /\ (worker \notin WorkPcs \/ module \notin WorkPcs)
  BY DEF AsyncInv, OneWork, WorkPcs
<1>2. AsyncTypes' /\ OneWork'
  BY <1>1 DEF AsyncInv, AsyncTypes, OneWork, WorkPcs
<1>3. ASSUME NEW m
      PROVE  /\ Hand(m, WorkPcs)' = Hand(m, WorkPcs)
             /\ Hand(m, UndroppedPcs)' = Hand(m, UndroppedPcs)
             /\ m = item => Hand(m, WorkPcs) = 1
  BY <1>1 DEF Hand, WorkPcs, UndroppedPcs
<1>4. ASSUME NEW m, NEW P PROVE At(m, P)' = At(m, P)
  BY DEF At
<1>5. ASSUME NEW m PROVE Looking(m)' = Looking(m) /\ InList(m)' = InList(m)
  BY DEF Looking, InList
<1>6. ASSUME NEW m \in Spaces
      PROVE  /\ UserRefs(m)' = UserRefs(m) /\ ItemRefs(m)' = ItemRefs(m)
             /\ Base(m)' = Base(m)
  BY <1>3, <1>4, <1>5 DEF UserRefs, ItemRefs, Base
<1>7. MmUsersExact' /\ CountCovers'
  BY <1>5, <1>6 DEF AsyncInv, MmUsersExact, CountCovers
<1>8. FinalOnce'
  BY DEF AsyncInv, FinalOnce
<1>9. Emptied'
  <2>1. \A m \in Spaces : exits'[m] > 0 => exits[m] > 0 \/ m = item
    BY <1>1 DEF AsyncInv, AsyncTypes
  <2> QED BY <1>3, <1>4, <1>5, <2>1 DEF AsyncInv, Emptied
<1> QED BY <1>2, <1>7, <1>8, <1>9 DEF AsyncInv

\* atomic_dec(&mm->mm_users): the reference of the item in hand is dropped.
LEMMA DropUserStep ==
  ASSUME AsyncConstantsOK, AsyncInv, mm_users' = [mm_users EXCEPT ![item] = @ - 1],
         UNCHANGED <<at, mm_count, exits, list, item>>,
         \/ worker = "dec" /\ worker' = "mmdrop" /\ module' = module
         \/ module = "dec" /\ module' = "mmdrop" /\ worker' = worker
  PROVE  AsyncInv'
<1>1. item \in Spaces /\ (worker \notin WorkPcs \/ module \notin WorkPcs)
  BY DEF AsyncInv, OneWork, WorkPcs
<1>2. AsyncTypes' /\ OneWork'
  BY <1>1 DEF AsyncInv, AsyncTypes, OneWork, WorkPcs
<1>3. ASSUME NEW m
      PROVE  /\ Hand(m, WorkPcs)' = Hand(m, WorkPcs)
             /\ Hand(m, UndroppedPcs) = (IF m = item THEN 1 ELSE 0)
             /\ Hand(m, UndroppedPcs)' = 0
  BY <1>1 DEF Hand, WorkPcs, UndroppedPcs
<1>4. ASSUME NEW m, NEW P PROVE At(m, P)' = At(m, P)
  BY DEF At
<1>5. ASSUME NEW m PROVE Looking(m)' = Looking(m) /\ InList(m)' = InList(m)
  BY DEF Looking, InList
<1>6. /\ mm_users \in [Spaces -> Int]
      /\ \A m \in Spaces : mm_users'[m] = mm_users[m] - (IF m = item THEN 1 ELSE 0)
  BY <1>1 DEF AsyncInv, AsyncTypes
<1>7. ASSUME NEW m \in Spaces
      PROVE  /\ UserRefs(m)' = UserRefs(m) - (IF m = item THEN 1 ELSE 0)
             /\ ItemRefs(m)' = ItemRefs(m) /\ Base(m)' <= Base(m)
  <2>1. /\ Cardinality(At(m, HolderPcs)) \in Nat /\ Cardinality(At(m, {"queue"})) \in Nat
        /\ Cardinality(InList(m)) \in Nat
    BY AtFinite, InListFinite DEF AsyncInv, AsyncTypes
  <2>2. /\ Cardinality(At(m, HolderPcs)') = Cardinality(At(m, HolderPcs))
        /\ Cardinality(At(m, {"queue"})') = Cardinality(At(m, {"queue"}))
        /\ Cardinality(InList(m)') = Cardinality(InList(m))
    BY DEF At, InList
  <2>3. UserRefs(m)' = UserRefs(m) - (IF m = item THEN 1 ELSE 0)
    BY <1>3, <2>1, <2>2 DEF UserRefs
  <2>4. ItemRefs(m)' = ItemRefs(m)
    BY <1>3, <1>4, <1>5 DEF ItemRefs
  <2>5. mm_users'[m] > 0 => mm_users[m] > 0
    BY <1>6
  <2> QED BY <1>4, <2>3, <2>4, <2>5 DEF Base
<1>8. MmUsersExact'
  BY <1>6, <1>7 DEF AsyncInv, MmUsersExact
<1>9. CountCovers'
  <2> SUFFICES ASSUME NEW m \in Spaces
               PROVE  mm_count'[m] >= Cardinality(Looking(m)') + ItemRefs(m)' + Base(m)'
    BY DEF CountCovers
  <2>1. /\ mm_count[m] >= Cardinality(Looking(m)) + ItemRefs(m) + Base(m)
        /\ mm_count[m] \in Int /\ ItemRefs(m) \in Nat /\ Base(m) \in {0, 1}
        /\ Cardinality(Looking(m)) \in Nat
    BY LookingFinite, RefsNat DEF AsyncInv, CountCovers, AsyncTypes
  <2>2. Base(m)' \in {0, 1}
    BY DEF Base
  <2> QED BY <1>5, <1>7, <2>1, <2>2
<1>10. FinalOnce'
  <2>1. UserRefs(item) >= 1
    BY <1>1, <1>3, Holds DEF AsyncInv
  <2>2. mm_users[item] >= 1
    BY <1>1, <2>1 DEF AsyncInv, MmUsersExact
  <2>3. ASSUME NEW u \in AllTasks, at[u] \in FinalPcs
        PROVE  mm_users'[SpaceOf[u]] = 0
    <3>1. mm_users[SpaceOf[u]] = 0 /\ SpaceOf[u] \in Spaces
      BY <2>3 DEF AsyncInv, FinalOnce, AsyncConstantsOK
    <3> QED BY <1>6, <2>2, <3>1
  <2> QED BY <2>3 DEF AsyncInv, FinalOnce
<1>11. Emptied'
  BY <1>3, <1>4, <1>5 DEF AsyncInv, Emptied
<1> QED BY <1>2, <1>8, <1>9, <1>10, <1>11 DEF AsyncInv

\* mmdrop(): the item is done with.
LEMMA DropCountStep ==
  ASSUME AsyncConstantsOK, AsyncInv, mm_count' = [mm_count EXCEPT ![item] = @ - 1], item' = NoMm,
         UNCHANGED <<at, mm_users, exits, list>>,
         \/ worker = "mmdrop" /\ worker' = "drain" /\ module' = module
         \/ module = "mmdrop" /\ module' = "stopping" /\ worker' = worker
  PROVE  AsyncInv'
<1>1. item \in Spaces /\ (worker \notin WorkPcs \/ module \notin WorkPcs)
  BY DEF AsyncInv, OneWork, WorkPcs
<1>2. AsyncTypes' /\ OneWork'
  BY <1>1 DEF AsyncInv, AsyncTypes, OneWork, WorkPcs
<1>3. ASSUME NEW m \in Spaces
      PROVE  /\ Hand(m, WorkPcs) = (IF m = item THEN 1 ELSE 0) /\ Hand(m, WorkPcs)' = 0
             /\ Hand(m, UndroppedPcs) = 0 /\ Hand(m, UndroppedPcs)' = 0
  BY <1>1 DEF Hand, WorkPcs, UndroppedPcs, AsyncConstantsOK
<1>4. ASSUME NEW m, NEW P PROVE At(m, P)' = At(m, P)
  BY DEF At
<1>5. ASSUME NEW m PROVE Looking(m)' = Looking(m) /\ InList(m)' = InList(m)
  BY DEF Looking, InList
<1>6. \A m \in Spaces : mm_count'[m] = mm_count[m] - (IF m = item THEN 1 ELSE 0)
  BY <1>1 DEF AsyncInv, AsyncTypes
<1>7. ASSUME NEW m \in Spaces
      PROVE  /\ UserRefs(m)' = UserRefs(m) /\ Base(m)' = Base(m)
             /\ ItemRefs(m)' = ItemRefs(m) - (IF m = item THEN 1 ELSE 0)
  <2>1. Cardinality(At(m, ItemPcs)) \in Nat /\ Cardinality(InList(m)) \in Nat
    BY AtFinite, InListFinite DEF AsyncInv, AsyncTypes
  <2>2. /\ Cardinality(At(m, ItemPcs)') = Cardinality(At(m, ItemPcs))
        /\ Cardinality(InList(m)') = Cardinality(InList(m))
    BY DEF At, InList
  <2>3. ItemRefs(m)' = ItemRefs(m) - (IF m = item THEN 1 ELSE 0)
    BY <1>3, <2>1, <2>2 DEF ItemRefs
  <2> QED BY <1>3, <1>4, <1>5, <2>3 DEF UserRefs, Base
<1>8. MmUsersExact'
  BY <1>7 DEF AsyncInv, MmUsersExact
<1>9. CountCovers'
  <2> SUFFICES ASSUME NEW m \in Spaces
               PROVE  mm_count'[m] >= Cardinality(Looking(m)') + ItemRefs(m)' + Base(m)'
    BY DEF CountCovers
  <2>1. /\ mm_count[m] >= Cardinality(Looking(m)) + ItemRefs(m) + Base(m)
        /\ mm_count[m] \in Int /\ ItemRefs(m) \in Nat /\ Base(m) \in {0, 1}
        /\ Cardinality(Looking(m)) \in Nat
    BY LookingFinite, RefsNat DEF AsyncInv, CountCovers, AsyncTypes
  <2> QED BY <1>5, <1>6, <1>7, <2>1
<1>10. FinalOnce'
  BY DEF AsyncInv, FinalOnce
<1>11. Emptied'
  BY <1>3, <1>4, <1>5 DEF AsyncInv, Emptied
<1> QED BY <1>2, <1>8, <1>9, <1>10, <1>11 DEF AsyncInv

-----------------------------------------------------------------------------
LEMMA StutterStep ==
  ASSUME AsyncInv, UNCHANGED asyncVars
  PROVE  AsyncInv'
BY DEF asyncVars, mmVars, modVars, AsyncInv, AsyncTypes, OneWork, MmUsersExact, CountCovers, FinalOnce, Emptied,
       UserRefs, ItemRefs, Base, At, Looking, InList, Hand

LEMMA AsyncEveryStep ==
  ASSUME AsyncConstantsOK, AsyncInv, [AsyncNext]_asyncVars
  PROVE  AsyncInv'
<1>1. ASSUME NEW t \in AllTasks, MmPut(t) \/ Put(t) \/ MmGetNotZero(t) \/ ReaderDrop(t)
      PROVE  AsyncInv'
  BY <1>1, ProbeStep, PutQueueStep, PutDecStep, FinishStep, GetStep DEF Put
<1>2. ASSUME NEW t \in AllTasks, NEW u \in AllTasks, AsyncClone(t, u) PROVE AsyncInv'
  BY <1>2, CloneStep
<1>3. ASSUME WorkerTop \/ WorkerWait \/ Unregister \/ StopWorker PROVE AsyncInv'
  BY <1>3, QuietStep DEF WorkerTop, WorkerWait, Unregister, StopWorker, mmVars, WorkPcs
<1>4. ASSUME WorkerTake \/ ExitTake PROVE AsyncInv'
  <2>1. CASE list = <<>>
    BY <1>4, <2>1, QuietStep DEF WorkerTake, ExitTake, Drained, mmVars, WorkPcs
  <2>2. CASE list # <<>>
    BY <1>4, <2>2, TakeStep DEF WorkerTake, ExitTake, Drained, mmVars
  <2> QED BY <2>1, <2>2
<1>5. ASSUME WorkerTeardown \/ ExitTeardown PROVE AsyncInv'
  BY <1>5, TeardownStep DEF WorkerTeardown, ExitTeardown
<1>6. ASSUME WorkerDec \/ ExitDec PROVE AsyncInv'
  <2>1. item \in Spaces /\ mm_users[item] \in Int
    BY <1>6 DEF WorkerDec, ExitDec, AsyncInv, OneWork, WorkPcs, AsyncTypes
  <2>2. mm_users' = [mm_users EXCEPT ![item] = @ - 1]
    BY <1>6, <2>1 DEF WorkerDec, ExitDec, AddUser
  <2> QED BY <1>6, <2>2, DropUserStep DEF WorkerDec, ExitDec
<1>7. ASSUME WorkerDrop \/ ExitDrop PROVE AsyncInv'
  <2>1. item \in Spaces /\ mm_count[item] \in Int
    BY <1>7 DEF WorkerDrop, ExitDrop, AsyncInv, OneWork, WorkPcs, AsyncTypes
  <2>2. mm_count' = [mm_count EXCEPT ![item] = @ - 1]
    BY <1>7, <2>1 DEF WorkerDrop, ExitDrop, AddCount
  <2> QED BY <1>7, <2>2, DropCountStep DEF WorkerDrop, ExitDrop
<1>8. ASSUME UNCHANGED asyncVars PROVE AsyncInv'
  BY <1>8, StutterStep
<1> QED
  BY <1>1, <1>2, <1>3, <1>4, <1>5, <1>6, <1>7, <1>8 DEF AsyncNext, Worker, ModuleExit

\* The references are counted right at every step of the probe handler, mmput(),
\* the worker and the module exit (mmput_pre_handler, mm_destroy_worker).
THEOREM AsyncInvariant == ASSUME AsyncConstantsOK PROVE AsyncSpec => []AsyncInv
<1>1. AsyncInit => AsyncInv
  BY AsyncInitially
<1>2. AsyncInv /\ [AsyncNext]_asyncVars => AsyncInv'
  BY AsyncEveryStep
<1> QED BY <1>1, <1>2, PTL DEF AsyncSpec

\* No address space is torn down, by __mmput(), mm_destroy_worker() or
\* async_mm_exit(), while one of its tasks runs in it.
THEOREM AsyncNoTeardownInUse == ASSUME AsyncConstantsOK PROVE AsyncSpec => []NoTeardownInUse
<1>1. AsyncInv => NoTeardownInUse
  BY DEF AsyncInv, Emptied, NoTeardownInUse, InMm
<1> QED BY <1>1, AsyncInvariant, PTL

\* mmdrop() frees no mm_struct that a task, a work item, the worker or the
\* module exit still uses.
THEOREM AsyncNoUseAfterFree == ASSUME AsyncConstantsOK PROVE AsyncSpec => []NoUseAfterFree
<1>1. ASSUME AsyncInv, NEW m \in Spaces, mm_count[m] <= 0
      PROVE  Touching(m) = {} /\ ~Queued(m)
  <2>1. /\ mm_count[m] >= Cardinality(Looking(m)) + ItemRefs(m) + Base(m)
        /\ mm_count[m] \in Int /\ ItemRefs(m) \in Nat /\ Base(m) \in {0, 1}
        /\ Cardinality(Looking(m)) \in Nat
    BY <1>1, LookingFinite, RefsNat DEF AsyncInv, CountCovers, AsyncTypes
  <2>2. Cardinality(Looking(m)) = 0 /\ ItemRefs(m) = 0 /\ Base(m) = 0
    BY <1>1, <2>1
  <2>3. At(m, HolderPcs \cup FinalPcs) = {} /\ Looking(m) = {} /\ InList(m) = {}
        /\ ~(item = m /\ item # NoMm)
    BY <1>1, <2>2, Uses DEF AsyncInv
  <2>4. Touching(m) = {}
    <3>1. ASSUME NEW t \in AllTasks, SpaceOf[t] = m, at[t] \notin {"unborn", "put", "done"}
          PROVE  FALSE
      <4>1. at[t] = "outside" \/ at[t] \in HolderPcs \cup FinalPcs
        BY <1>1, <3>1 DEF AsyncInv, AsyncTypes, Pcs
      <4>2. CASE at[t] = "outside"
        BY <1>1, <2>3, <3>1, <4>2 DEF AsyncInv, AsyncTypes, Looking, AllTasks
      <4>3. CASE at[t] \in HolderPcs \cup FinalPcs
        BY <2>3, <3>1, <4>3 DEF At
      <4> QED BY <4>1, <4>2, <4>3
    <3> QED BY <3>1 DEF Touching
  <2>5. ~Queued(m)
    <3>1. m # item
      BY <2>3 DEF AsyncConstantsOK
    <3>2. DOMAIN list = 1 .. Len(list)
      BY <1>1 DEF AsyncInv, AsyncTypes
    <3>3. \A i \in DOMAIN list : list[i] # m
      BY <2>3, <3>2 DEF InList
    <3> QED BY <3>1, <3>3 DEF Queued
  <2> QED BY <2>4, <2>5
<1>2. AsyncInv => NoUseAfterFree
  BY <1>1 DEF NoUseAfterFree
<1> QED BY <1>2, AsyncInvariant, PTL

\* Neither an address space nor its mm_struct goes away under a task, a reader,
\* the worker or the module exit that still uses it.
THEOREM AsyncNoUseAfterTeardown ==
  ASSUME AsyncConstantsOK PROVE AsyncSpec => []NoUseAfterTeardown
<1>1. NoTeardownInUse /\ NoUseAfterFree => NoUseAfterTeardown
  BY DEF NoUseAfterTeardown
<1> QED BY <1>1, AsyncNoTeardownInUse, AsyncNoUseAfterFree, PTL

-----------------------------------------------------------------------------
(* exec_deferred_mmput()                                                    *)

OwnerPcs == {"mmput", "gate", "inc", "queue", "sync"}
Inside(m) == {t \in Tasks : MmOf[t] = m /\ tpc[t] = "in_mm"}
Queueing == {t \in Tasks : tpc[t] = "queue"}

Types ==
  /\ tpc \in [Tasks -> OwnerPcs \cup {"in_mm", "count_async", "done"}]
  /\ work \in [Mms -> {"none", "queued", "total", "max", "cmpxchg", "bucket",
                       "dec", "finished"}]
  /\ users \in [Mms -> Int]
  /\ torn \in [Mms -> {0, 1}]
  /\ pending \in Int

UsersExact == \A m \in Mms : users[m] = Cardinality(Inside(m))

OwnerAlone ==
  \A t \in Tasks : tpc[t] \in OwnerPcs =>
    /\ work[MmOf[t]] = "none" /\ torn[MmOf[t]] = 0
    /\ \A u \in Tasks \ {t} : MmOf[u] = MmOf[t] => tpc[u] \in {"count_async", "done"}

NobodyAfter ==
  \A m \in Mms :
    /\ work[m] # "none" \/ torn[m] = 1 =>
         \A t \in Tasks : MmOf[t] = m => tpc[t] \in {"count_async", "done"}
    /\ work[m] = "queued" => torn[m] = 0

PendingExact == pending = Cardinality(InFlight) + Cardinality(Queueing)

Inv == Types /\ UsersExact /\ OwnerAlone /\ NobodyAfter /\ PendingExact

-----------------------------------------------------------------------------
\* The sets that are counted are finite.
LEMMA Finite ==
  ASSUME DeferredConstantsOK
  PROVE  /\ \A S \in SUBSET Tasks : IsFiniteSet(S) /\ Cardinality(S) \in Nat
         /\ \A S \in SUBSET Mms : IsFiniteSet(S) /\ Cardinality(S) \in Nat
<1>1. \A S \in SUBSET Tasks : IsFiniteSet(S)
  BY FS_Subset DEF DeferredConstantsOK
<1>2. \A S \in SUBSET Mms : IsFiniteSet(S)
  BY FS_Subset DEF DeferredConstantsOK
<1> QED BY <1>1, <1>2, FS_CardinalityType

LEMMA Initially ==
  ASSUME DeferredConstantsOK, DeferredInit
  PROVE  Inv
<1>1. Types /\ OwnerAlone /\ NobodyAfter
  <2>1. \A m \in Mms : Cardinality({t \in Tasks : MmOf[t] = m}) \in Int
    BY Finite
  <2> QED BY <2>1 DEF DeferredInit, Types, OwnerAlone, NobodyAfter, OwnerPcs
<1>2. UsersExact
  <2> SUFFICES ASSUME NEW m \in Mms PROVE users[m] = Cardinality(Inside(m))
    BY DEF UsersExact
  <2>1. Inside(m) = {t \in Tasks : MmOf[t] = m}
    BY DEF DeferredInit, Inside
  <2> QED BY <2>1 DEF DeferredInit
<1>3. PendingExact
  <2>1. InFlight = {} /\ Queueing = {}
    BY DEF DeferredInit, InFlight, Queueing
  <2> QED BY <2>1, FS_EmptySet DEF DeferredInit, PendingExact
<1> QED BY <1>1, <1>2, <1>3 DEF Inv

-----------------------------------------------------------------------------
(* A task leaves: the last one owns the address space.                       *)

LEMMA LeaveStep ==
  ASSUME DeferredConstantsOK, Inv, NEW t \in Tasks, Exit(t) \/ ExecDec(t)
  PROVE  Inv'
<1> DEFINE m == MmOf[t]
           l == tpc'[t]
<1>1. /\ m \in Mms /\ tpc[t] = "in_mm"
      /\ users' = [users EXCEPT ![m] = @ - 1]
      /\ tpc' = [tpc EXCEPT ![t] = l]
      /\ l \in {"mmput", "gate", "done"} /\ (l # "done" => users[m] = 1)
      /\ UNCHANGED <<work, torn, pending>>
  BY DEF Exit, ExecDec, TaskGoto, LastUser, DeferredConstantsOK, Inv, Types, OwnerPcs
<1> HIDE DEF m, l
<1>2. Types'
  BY <1>1 DEF Inv, Types, OwnerPcs
<1>3. UsersExact'
  <2> SUFFICES ASSUME NEW n \in Mms PROVE users'[n] = Cardinality(Inside(n)')
    BY DEF UsersExact
  <2>1. CASE n = m
    <3>1. Inside(n)' = Inside(n) \ {t} /\ t \in Inside(n)
      BY <1>1, <2>1 DEF Inside, Inv, Types, m
    <3>2. IsFiniteSet(Inside(n)) /\ Cardinality(Inside(n)) \in Nat
      BY Finite DEF Inside
    <3>3. Cardinality(Inside(n)') = Cardinality(Inside(n)) - 1
      BY <3>1, <3>2, FS_RemoveElement
    <3> QED BY <1>1, <2>1, <3>2, <3>3 DEF Inv, Types, UsersExact
  <2>2. CASE n # m
    <3>1. Inside(n)' = Inside(n)
      BY <1>1, <2>2 DEF Inside, Inv, Types, m
    <3> QED BY <1>1, <2>2, <3>1 DEF Inv, Types, UsersExact
  <2> QED BY <2>1, <2>2
<1>4. l # "done" => \A u \in Tasks \ {t} : MmOf[u] = m => tpc[u] \in {"count_async", "done"}
  <2> SUFFICES ASSUME l # "done", NEW u \in Tasks \ {t}, MmOf[u] = m
               PROVE  tpc[u] \in {"count_async", "done"}
    OBVIOUS
  <2>1. tpc[u] # "in_mm"
    <3>1. IsFiniteSet(Inside(m)) /\ Cardinality(Inside(m)) = 1
      BY <1>1, Finite DEF Inside, Inv, UsersExact
    <3>2. PICK x : Inside(m) = {x}
      BY <3>1, FS_Singleton
    <3> QED BY <1>1, <3>2 DEF Inside, m
  <2>2. tpc[u] \notin OwnerPcs
    BY <1>1 DEF Inv, OwnerAlone, m
  <2> QED BY <2>1, <2>2 DEF Inv, Types
<1>5. OwnerAlone'
  BY <1>1, <1>4 DEF Inv, Types, OwnerAlone, NobodyAfter, OwnerPcs, m
<1>6. NobodyAfter'
  BY <1>1 DEF Inv, Types, NobodyAfter, m
<1>7. PendingExact'
  <2>1. Queueing' = Queueing /\ InFlight' = InFlight
    BY <1>1 DEF Queueing, InFlight, Inv, Types
  <2> QED BY <1>1, <2>1 DEF Inv, PendingExact
<1> QED BY <1>2, <1>3, <1>5, <1>6, <1>7 DEF Inv

-----------------------------------------------------------------------------
(* The owner: the gates, the queueing and the teardown at once.              *)

\* A task that was not inside and goes to l leaves the users as they are.
LEMMA UsersKept ==
  ASSUME Inv, UNCHANGED users,
         \A t \in Tasks : tpc'[t] = "in_mm" <=> tpc[t] = "in_mm"
  PROVE  UsersExact'
<1>1. \A m \in Mms : Inside(m)' = Inside(m)
  BY DEF Inside
<1> QED BY <1>1 DEF Inv, UsersExact

LEMMA GateStep ==
  ASSUME DeferredConstantsOK, Inv, NEW t \in Tasks, Gate(t) \/ CountAsync(t)
  PROVE  Inv'
<1>1. /\ tpc' = [tpc EXCEPT ![t] = tpc'[t]]
      /\ \/ tpc[t] = "gate" /\ tpc'[t] \in {"sync", "inc"}
         \/ tpc[t] = "count_async" /\ tpc'[t] = "done"
      /\ UNCHANGED <<work, users, torn, pending>>
  BY DEF Gate, CountAsync, TaskGoto, Inv, Types, statVars
<1>2. Types'
  BY <1>1 DEF Inv, Types, OwnerPcs
<1>3. UsersExact'
  BY <1>1, UsersKept DEF Inv, Types
<1>4. OwnerAlone' /\ NobodyAfter'
  BY <1>1 DEF Inv, Types, OwnerAlone, NobodyAfter, OwnerPcs, DeferredConstantsOK
<1>5. PendingExact'
  <2>1. Queueing' = Queueing /\ InFlight' = InFlight
    BY <1>1 DEF Queueing, InFlight, Inv, Types
  <2> QED BY <1>1, <2>1 DEF Inv, PendingExact
<1> QED BY <1>2, <1>3, <1>4, <1>5 DEF Inv

LEMMA IncStep ==
  ASSUME DeferredConstantsOK, Inv, NEW t \in Tasks, IncPending(t)
  PROVE  Inv'
<1>1. /\ tpc[t] = "inc" /\ tpc' = [tpc EXCEPT ![t] = "queue"]
      /\ pending' = pending + 1
      /\ UNCHANGED <<work, users, torn>>
  BY DEF IncPending, TaskGoto
<1>2. Types'
  BY <1>1 DEF Inv, Types, OwnerPcs
<1>3. UsersExact'
  BY <1>1, UsersKept DEF Inv, Types
<1>4. OwnerAlone' /\ NobodyAfter'
  BY <1>1 DEF Inv, Types, OwnerAlone, NobodyAfter, OwnerPcs, DeferredConstantsOK
<1>5. PendingExact'
  <2>1. Queueing' = Queueing \cup {t} /\ t \notin Queueing /\ InFlight' = InFlight
    BY <1>1 DEF Queueing, InFlight, Inv, Types
  <2>2. /\ IsFiniteSet(Queueing) /\ Cardinality(Queueing) \in Nat
        /\ Cardinality(InFlight) \in Nat
    BY Finite DEF Queueing, InFlight
  <2>3. Cardinality(Queueing') = Cardinality(Queueing) + 1
    BY <2>1, <2>2, FS_AddElement
  <2> QED BY <1>1, <2>1, <2>2, <2>3 DEF Inv, PendingExact
<1> QED BY <1>2, <1>3, <1>4, <1>5 DEF Inv

LEMMA QueueStep ==
  ASSUME DeferredConstantsOK, Inv, NEW t \in Tasks, QueueWork(t)
  PROVE  Inv'
<1>1. /\ tpc[t] = "queue" /\ tpc' = [tpc EXCEPT ![t] = "count_async"]
      /\ work' = [work EXCEPT ![MmOf[t]] = "queued"]
      /\ MmOf[t] \in Mms /\ work[MmOf[t]] = "none" /\ torn[MmOf[t]] = 0
      /\ UNCHANGED <<users, torn, pending>>
  BY DEF QueueWork, TaskGoto, WorkGoto, DeferredConstantsOK, Inv, OwnerAlone, OwnerPcs
<1>2. Types'
  BY <1>1 DEF Inv, Types, OwnerPcs
<1>3. UsersExact'
  BY <1>1, UsersKept DEF Inv, Types
<1>4. OwnerAlone'
  BY <1>1 DEF Inv, Types, OwnerAlone, OwnerPcs, DeferredConstantsOK
<1>5. NobodyAfter'
  BY <1>1 DEF Inv, Types, OwnerAlone, NobodyAfter, OwnerPcs, DeferredConstantsOK
<1>6. PendingExact'
  <2>1. /\ Queueing' = Queueing \ {t} /\ t \in Queueing
        /\ InFlight' = InFlight \cup {MmOf[t]} /\ MmOf[t] \notin InFlight
    BY <1>1 DEF Queueing, InFlight, Inv, Types
  <2>2. /\ IsFiniteSet(Queueing) /\ Cardinality(Queueing) \in Nat
        /\ IsFiniteSet(InFlight) /\ Cardinality(InFlight) \in Nat
    BY Finite DEF Queueing, InFlight
  <2>3. /\ Cardinality(Queueing') = Cardinality(Queueing) - 1
        /\ Cardinality(InFlight') = Cardinality(InFlight) + 1
    BY <2>1, <2>2, FS_AddElement, FS_RemoveElement
  <2> QED BY <1>1, <2>2, <2>3 DEF Inv, PendingExact
<1> QED BY <1>2, <1>3, <1>4, <1>5, <1>6 DEF Inv

LEMMA SyncStep ==
  ASSUME DeferredConstantsOK, Inv, NEW t \in Tasks, SyncTeardown(t)
  PROVE  Inv'
<1>1. /\ tpc[t] \in {"mmput", "sync"} /\ tpc' = [tpc EXCEPT ![t] = "done"]
      /\ MmOf[t] \in Mms /\ torn[MmOf[t]] = 0 /\ work[MmOf[t]] = "none"
      /\ torn' = [torn EXCEPT ![MmOf[t]] = 1]
      /\ UNCHANGED <<work, users, pending>>
  <2>1. /\ tpc[t] \in {"mmput", "sync"} /\ tpc' = [tpc EXCEPT ![t] = "done"]
        /\ torn' = [torn EXCEPT ![MmOf[t]] = torn[MmOf[t]] + 1]
        /\ UNCHANGED <<work, users, pending>>
    BY DEF SyncTeardown, TearDown, TaskGoto
  <2>2. MmOf[t] \in Mms /\ torn[MmOf[t]] = 0 /\ work[MmOf[t]] = "none"
    BY <2>1 DEF DeferredConstantsOK, Inv, OwnerAlone, OwnerPcs
  <2>3. torn[MmOf[t]] + 1 = 1
    BY <2>2
  <2> QED BY <2>1, <2>2, <2>3
<1>2. Types'
  BY <1>1 DEF Inv, Types, OwnerPcs
<1>3. UsersExact'
  BY <1>1, UsersKept DEF Inv, Types
<1>4. OwnerAlone'
  BY <1>1 DEF Inv, Types, OwnerAlone, OwnerPcs, DeferredConstantsOK
<1>5. NobodyAfter'
  BY <1>1 DEF Inv, Types, OwnerAlone, NobodyAfter, OwnerPcs, DeferredConstantsOK
<1>6. PendingExact'
  <2>1. Queueing' = Queueing /\ InFlight' = InFlight
    BY <1>1 DEF Queueing, InFlight, Inv, Types
  <2> QED BY <1>1, <2>1 DEF Inv, PendingExact
<1> QED BY <1>2, <1>3, <1>4, <1>5, <1>6 DEF Inv

-----------------------------------------------------------------------------
(* The work item.                                                            *)

\* A step of the work item before its last leaves it under way.
LEMMA RunningStep ==
  ASSUME DeferredConstantsOK, Inv, NEW m \in Mms,
         \/ WorkTeardown(m) \/ WorkTotal(m) \/ WorkReadMax(m) \/ WorkCmpxchg(m)
         \/ WorkBucket(m)
  PROVE  Inv'
<1>1. /\ work' = [work EXCEPT ![m] = work'[m]]
      /\ work[m] \notin {"none", "finished"}
      /\ work'[m] \in {"total", "max", "cmpxchg", "bucket", "dec"}
      /\ \/ work[m] = "queued" /\ torn[m] = 0 /\ torn' = [torn EXCEPT ![m] = 1]
         \/ torn' = torn
      /\ UNCHANGED <<tpc, users, pending>>
  BY DEF WorkTeardown, WorkTotal, WorkReadMax, WorkCmpxchg, WorkBucket, WorkGoto,
         TearDown, Inv, Types, NobodyAfter
<1>2. Types'
  BY <1>1 DEF Inv, Types
<1>3. UsersExact'
  BY <1>1, UsersKept
<1>4. OwnerAlone' /\ NobodyAfter'
  BY <1>1 DEF Inv, Types, OwnerAlone, NobodyAfter, OwnerPcs, DeferredConstantsOK
<1>5. PendingExact'
  <2>1. Queueing' = Queueing /\ InFlight' = InFlight
    BY <1>1 DEF Queueing, InFlight, Inv, Types
  <2> QED BY <1>1, <2>1 DEF Inv, PendingExact
<1> QED BY <1>2, <1>3, <1>4, <1>5 DEF Inv

LEMMA DecStep ==
  ASSUME DeferredConstantsOK, Inv, NEW m \in Mms, WorkDec(m)
  PROVE  Inv'
<1>1. /\ work[m] = "dec" /\ work' = [work EXCEPT ![m] = "finished"]
      /\ pending' = pending - 1
      /\ UNCHANGED <<tpc, users, torn>>
  BY DEF WorkDec, WorkGoto
<1>2. Types'
  BY <1>1 DEF Inv, Types
<1>3. UsersExact'
  BY <1>1, UsersKept
<1>4. OwnerAlone' /\ NobodyAfter'
  BY <1>1 DEF Inv, Types, OwnerAlone, NobodyAfter, OwnerPcs, DeferredConstantsOK
<1>5. PendingExact'
  <2>1. Queueing' = Queueing /\ InFlight' = InFlight \ {m} /\ m \in InFlight
    BY <1>1 DEF Queueing, InFlight, Inv, Types
  <2>2. /\ IsFiniteSet(InFlight) /\ Cardinality(InFlight) \in Nat
        /\ Cardinality(Queueing) \in Nat
    BY Finite DEF Queueing, InFlight
  <2>3. Cardinality(InFlight') = Cardinality(InFlight) - 1
    BY <2>1, <2>2, FS_RemoveElement
  <2> QED BY <1>1, <2>1, <2>2, <2>3 DEF Inv, PendingExact
<1> QED BY <1>2, <1>3, <1>4, <1>5 DEF Inv

\* A write to the statistics, and a step of nobody.
LEMMA OtherStep ==
  ASSUME Inv, UNCHANGED <<tpc, work, users, torn, pending>>
  PROVE  Inv'
<1>1. /\ \A m \in Mms : Inside(m)' = Inside(m)
      /\ InFlight' = InFlight /\ Queueing' = Queueing
  BY DEF Inside, InFlight, Queueing
<1> QED BY <1>1 DEF Inv, Types, UsersExact, OwnerAlone, NobodyAfter, PendingExact

LEMMA EveryStep ==
  ASSUME DeferredConstantsOK, Inv, [DeferredNext]_deferredVars
  PROVE  Inv'
<1>1. ASSUME NEW t \in Tasks, Exit(t) \/ ExecDec(t) PROVE Inv'
  BY <1>1, LeaveStep
<1>2. ASSUME NEW t \in Tasks, Leave(t) PROVE Inv'
  BY <1>2, GateStep, IncStep, QueueStep, SyncStep DEF Leave
<1>3. ASSUME NEW m \in Mms, Work(m) PROVE Inv'
  BY <1>3, RunningStep, DecStep DEF Work
<1>4. CASE Reset \/ UNCHANGED deferredVars
  BY <1>4, OtherStep
     DEF Reset, ResetCounts, ResetTotal, ResetMax, ResetBuckets, ResetTo, deferredVars
<1> QED BY <1>1, <1>2, <1>3, <1>4 DEF DeferredNext

\* The strengthening holds in every state, for every set of tasks and address
\* spaces and every limit (exec_deferred_mmput, exec_deferred_mmput_fn).
THEOREM DeferredInvariant ==
  ASSUME DeferredConstantsOK
  PROVE  DeferredSpec => []Inv
<1>1. DeferredInit => Inv
  BY Initially
<1>2. Inv /\ [DeferredNext]_deferredVars => Inv'
  BY EveryStep
<1> QED BY <1>1, <1>2, PTL DEF DeferredSpec

\* The page tables of an address space go at most once, and only when no task
\* is left in it (exec_deferred_mmput, mmput).
THEOREM DeferredTornDownAlone ==
  ASSUME DeferredConstantsOK
  PROVE  DeferredSpec => []TornDownAlone
<1>1. Inv => TornDownAlone
  BY DEF Inv, Types, NobodyAfter, TornDownAlone
<1> QED BY <1>1, DeferredInvariant, PTL

\* Every work item that is queued or running is in the pending counter
\* (exec_deferred_mmput, exec_deferred_mmput_fn).
THEOREM DeferredPendingCovers ==
  ASSUME DeferredConstantsOK
  PROVE  DeferredSpec => []PendingCoversWork
<1>1. Inv => PendingCoversWork
  <2>1. Cardinality(InFlight) \in Nat /\ Cardinality(Queueing) \in Nat
    BY Finite DEF InFlight, Queueing
  <2> QED BY <2>1 DEF Inv, Types, PendingExact, PendingCoversWork
<1> QED BY <1>1, DeferredInvariant, PTL
-----------------------------------------------------------------------------
(* The statistics.  While no write overlaps an accounting, each statistic is *)
(* that of the items that have passed its step since it was last set to 0:   *)
(* Totalled, Raised and Measured say which items those are.  A write that    *)
(* stays apart from the accounting meets nobody between two steps            *)
(* (Accounting) and nobody new (base), so each counter restarts over the     *)
(* empty set.  With no item in flight the three sets coincide.               *)

Counting == {t \in Tasks : tpc[t] = "count_async"}
Worked == {m \in Mms : work[m] # "none"}
Totalled == {m \in Mms : work[m] \in {"max", "cmpxchg", "bucket", "dec", "finished"}}
Raised == {m \in Mms : work[m] \in {"bucket", "dec", "finished"}}
InBucket(b) == {m \in Counted : BucketOf(us[m]) = b}

StatTypes ==
  /\ asyncCount \in Nat
  /\ us \in [Mms -> Nat] /\ oldMax \in [Mms -> Nat]
  /\ maxUs \in Nat /\ totalUs \in Nat
  /\ bucket \in [Buckets -> Nat]
  /\ reset \in {"none", "total", "max", "buckets"}
  /\ mixed \in BOOLEAN
  /\ base \subseteq Measured

\* An item exchanges only a maximum that it has found too small.
Improves == \A m \in Mms : work[m] = "cmpxchg" => us[m] > oldMax[m]

AsyncExact == asyncCount + Cardinality(Counting) = Cardinality(Worked \ base)

TotalExact ==
  reset # "total" => totalUs = Cardinality(Micros(Totalled \ base))

MaxExact ==
  reset \notin {"total", "max"} =>
    /\ \A m \in Raised \ base : us[m] <= maxUs
    /\ maxUs = 0 \/ \E m \in Raised \ base : us[m] = maxUs

BucketsExact ==
  reset = "none" => \A b \in Buckets : bucket[b] = Cardinality(InBucket(b))

StatInv ==
  /\ StatTypes /\ Improves
  /\ ~mixed => AsyncExact /\ TotalExact /\ MaxExact /\ BucketsExact

-----------------------------------------------------------------------------
\* The microseconds of one more item are those it has measured.
LEMMA MicrosAdd ==
  ASSUME DeferredConstantsOK, us \in [Mms -> Nat],
         NEW S \in SUBSET Mms, NEW m \in Mms \ S, IsFiniteSet(Micros(S))
  PROVE  /\ IsFiniteSet(Micros(S \cup {m}))
         /\ Cardinality(Micros(S \cup {m})) = Cardinality(Micros(S)) + us[m]
<1> DEFINE mine == {m} \X (1..us[m])
<1>1. Micros(S \cup {m}) = Micros(S) \cup mine
  BY DEF Micros
<1>2. Micros(S) \cap mine = {}
  BY DEF Micros
<1>3. IsFiniteSet({m}) /\ Cardinality({m}) = 1
  BY FS_Singleton
<1>4. us[m] \in Nat
  OBVIOUS
<1>5. IsFiniteSet(1..us[m]) /\ Cardinality(1..us[m]) = us[m]
  <2> DEFINE n == us[m]
  <2>1. n \in Nat
    BY <1>4
  <2> HIDE DEF n
  <2>2. IsFiniteSet(1..n) /\ Cardinality(1..n) = IF 1 > n THEN 0 ELSE n - 1 + 1
    BY <2>1, FS_Interval
  <2>3. (IF 1 > n THEN 0 ELSE n - 1 + 1) = n
    BY <2>1
  <2> QED BY <2>2, <2>3 DEF n
<1>6. IsFiniteSet(mine) /\ Cardinality(mine) = us[m]
  <2>1. IsFiniteSet(mine) /\ Cardinality(mine) = Cardinality({m}) * Cardinality(1..us[m])
    BY <1>3, <1>5, FS_Product
  <2>2. 1 * us[m] = us[m]
    BY <1>4
  <2> QED BY <2>1, <2>2, <1>3, <1>5
<1> HIDE DEF mine
<1>7. /\ IsFiniteSet(Micros(S) \cup mine)
      /\ Cardinality(Micros(S) \cup mine)
           = Cardinality(Micros(S)) + Cardinality(mine) - Cardinality(Micros(S) \cap mine)
  BY <1>6, FS_Union
<1>8. Cardinality(Micros(S) \cap mine) = 0 /\ Cardinality(Micros(S)) \in Nat
  BY <1>2, FS_EmptySet, FS_CardinalityType
<1>9. Cardinality(Micros(S)) + Cardinality(mine) - 0 = Cardinality(Micros(S)) + us[m]
  BY <1>4, <1>6, <1>8
<1>10. Cardinality(Micros(S \cup {m}))
         = Cardinality(Micros(S)) + Cardinality(mine) - 0
  BY <1>1, <1>7, <1>8
<1> QED BY <1>1, <1>7, <1>9, <1>10

\* Only finitely many microseconds are measured.
LEMMA MicrosFinite ==
  ASSUME DeferredConstantsOK, us \in [Mms -> Nat], NEW S \in SUBSET Mms
  PROVE  IsFiniteSet(Micros(S)) /\ Cardinality(Micros(S)) \in Nat
<1> DEFINE parts == {{m} \X (1..us[m]) : m \in S}
<1>1. IsFiniteSet(S)
  BY Finite
<1>2. \A part \in parts : IsFiniteSet(part)
  <2> SUFFICES ASSUME NEW m \in S PROVE IsFiniteSet({m} \X (1..us[m]))
    OBVIOUS
  <2>1. \A n \in Nat : IsFiniteSet(1..n)
    BY FS_Interval
  <2>2. IsFiniteSet(1..us[m]) /\ IsFiniteSet({m})
    BY <2>1, FS_Singleton
  <2> QED BY <2>2, FS_Product
<1>3. IsFiniteSet(parts)
  <2> DEFINE part == [m \in S |-> {m} \X (1..us[m])]
  <2>1. part \in Surjection(S, parts)
    BY DEF Surjection
  <2> QED BY <1>1, <2>1, FS_Surjection
<1> HIDE DEF parts
<1>4. IsFiniteSet(UNION parts)
  BY <1>2, <1>3, FS_UNION
<1> QED BY <1>4, FS_CardinalityType DEF Micros, parts

\* The histogram's branches are the number of limits a latency has reached
\* (update_latency_bucket).
LEMMA BucketIsRank ==
  ASSUME NEW l \in Nat
  PROVE  /\ BucketOf(l) \in Buckets
         /\ BucketOf(l) = Cardinality({i \in 1..4 : Limits[i] <= l})
<1> DEFINE Reached == {i \in 1..4 : Limits[i] <= l}
<1>1. /\ 1 \in Reached <=> 1000 <= l
      /\ 2 \in Reached <=> 5000 <= l
      /\ 3 \in Reached <=> 20000 <= l
      /\ 4 \in Reached <=> 100000 <= l
      /\ Reached \subseteq 1..4
  BY DEF Limits
<1> HIDE DEF Reached
<1> DEFINE k == BucketOf(l)
<1>2. /\ k \in 0..4
      /\ k >= 1 <=> 1000 <= l
      /\ k >= 2 <=> 5000 <= l
      /\ k >= 3 <=> 20000 <= l
      /\ k >= 4 <=> 100000 <= l
  BY DEF BucketOf
<1> HIDE DEF k
<1>3. \A i \in 1..4 : i \in Reached <=> i <= k
  BY <1>1, <1>2
<1>4. Reached = 1..k
  <2>1. Reached \subseteq 1..k
    BY <1>1, <1>2, <1>3
  <2>2. 1..k \subseteq Reached
    <3>1. 1..k \subseteq 1..4
      BY <1>2
    <3> QED BY <3>1, <1>3
  <2> QED BY <2>1, <2>2
<1>5. Cardinality(1..k) = IF 1 > k THEN 0 ELSE k - 1 + 1
  BY <1>2, FS_Interval
<1>6. Cardinality(1..k) = k
  BY <1>2, <1>5
<1>7. Cardinality(Reached) = k
  BY <1>4, <1>6
<1> QED BY <1>2, <1>7 DEF Reached, Buckets, k
-----------------------------------------------------------------------------
\* No item and no latency has changed.
LEMMA StatSetsKept ==
  ASSUME UNCHANGED <<work, us, base>>
  PROVE  /\ Measured' = Measured /\ Worked' = Worked /\ Totalled' = Totalled
         /\ Raised' = Raised /\ Counted' = Counted
         /\ Micros(Totalled \ base)' = Micros(Totalled \ base)
         /\ \A b \in Buckets : InBucket(b)' = InBucket(b)
BY DEF Measured, Worked, Totalled, Raised, Counted, Micros, InBucket

LEMMA StatInitially ==
  ASSUME DeferredConstantsOK, DeferredInit
  PROVE  StatInv
<1>1. Counting = {} /\ Worked = {} /\ Counted = {} /\ Totalled = {} /\ Raised = {}
  BY DEF DeferredInit, Counting, Worked, Counted, Measured, Totalled, Raised
<1>2. StatTypes /\ Improves
  BY DEF DeferredInit, StatTypes, Improves
<1>3. AsyncExact
  <2>1. Worked \ base = {}
    BY <1>1
  <2> QED BY <1>1, <2>1, FS_EmptySet DEF DeferredInit, AsyncExact
<1>4. TotalExact
  <2>1. Micros(Totalled \ base) = {}
    BY <1>1 DEF Micros
  <2> QED BY <2>1, FS_EmptySet DEF DeferredInit, TotalExact
<1>5. MaxExact
  BY <1>1 DEF DeferredInit, MaxExact
<1>6. BucketsExact
  <2> SUFFICES ASSUME NEW b \in Buckets PROVE bucket[b] = Cardinality(InBucket(b))
    BY DEF BucketsExact
  <2>1. InBucket(b) = {}
    BY <1>1 DEF InBucket
  <2> QED BY <2>1, FS_EmptySet DEF DeferredInit
<1> QED BY <1>2, <1>3, <1>4, <1>5, <1>6 DEF StatInv

\* A step outside the accounting.
LEMMA StatKept ==
  ASSUME StatInv, Counting' = Counting,
         UNCHANGED <<work, asyncCount, us, oldMax, maxUs, totalUs, bucket, resetVars>>
  PROVE  StatInv'
<1>1. UNCHANGED <<reset, base, mixed, us, work>>
  BY DEF resetVars
<1>2. StatTypes' /\ Improves'
  BY <1>1, StatSetsKept DEF StatInv, StatTypes, Improves
<1>3. ASSUME ~mixed PROVE AsyncExact' /\ TotalExact' /\ MaxExact' /\ BucketsExact'
  <2>1. AsyncExact /\ TotalExact /\ MaxExact /\ BucketsExact
    BY <1>3 DEF StatInv
  <2>2. AsyncExact'
    BY <1>1, <2>1, StatSetsKept DEF AsyncExact
  <2>3. TotalExact'
    BY <1>1, <2>1, StatSetsKept DEF TotalExact
  <2>4. MaxExact'
    BY <1>1, <2>1, StatSetsKept DEF MaxExact
  <2>5. BucketsExact'
    BY <1>1, <2>1, StatSetsKept DEF BucketsExact
  <2> QED BY <2>2, <2>3, <2>4, <2>5
<1> QED BY <1>1, <1>2, <1>3 DEF StatInv

LEMMA StatQueueStep ==
  ASSUME DeferredConstantsOK, Inv, StatInv, NEW t \in Tasks, QueueWork(t), UNCHANGED resetVars
  PROVE  StatInv'
<1> DEFINE m == MmOf[t]
<1>1. /\ tpc[t] = "queue" /\ tpc' = [tpc EXCEPT ![t] = "count_async"]
      /\ work' = [work EXCEPT ![m] = "queued"]
      /\ m \in Mms /\ work[m] = "none"
      /\ UNCHANGED <<asyncCount, us, oldMax, maxUs, totalUs, bucket, reset, base, mixed>>
  BY DEF QueueWork, TaskGoto, WorkGoto, DeferredConstantsOK, Inv, OwnerAlone, OwnerPcs, statVars,
         resetVars
<1> HIDE DEF m
<1>2. /\ Measured' = Measured /\ Totalled' = Totalled /\ Raised' = Raised
      /\ Worked' = Worked \cup {m} /\ m \notin Worked /\ m \notin Measured
      /\ Counting' = Counting \cup {t} /\ t \notin Counting
  BY <1>1 DEF Measured, Totalled, Raised, Worked, Counting, Inv, Types
<1>3. StatTypes'
  BY <1>1, <1>2 DEF StatInv, StatTypes
<1>4. Improves'
  BY <1>1 DEF StatInv, Improves, Inv, Types
<1>5. ASSUME ~mixed PROVE AsyncExact' /\ TotalExact' /\ MaxExact' /\ BucketsExact'
  <2>1. AsyncExact /\ TotalExact /\ MaxExact /\ BucketsExact
    BY <1>5 DEF StatInv
  <2>2. AsyncExact'
    <3>1. Worked' \ base' = (Worked \ base) \cup {m} /\ m \notin Worked \ base
      BY <1>1, <1>2 DEF StatInv, StatTypes
    <3>2. /\ IsFiniteSet(Worked \ base) /\ Cardinality(Worked \ base) \in Nat
          /\ IsFiniteSet(Counting) /\ Cardinality(Counting) \in Nat
      BY Finite DEF Worked, Counting
    <3>3. /\ Cardinality(Worked' \ base') = Cardinality(Worked \ base) + 1
          /\ Cardinality(Counting') = Cardinality(Counting) + 1
      BY <1>2, <3>1, <3>2, FS_AddElement
    <3> QED BY <1>1, <2>1, <3>2, <3>3 DEF AsyncExact, StatInv, StatTypes
  <2>3. TotalExact'
    BY <1>1, <1>2, <2>1 DEF TotalExact, Micros
  <2>4. MaxExact'
    BY <1>1, <1>2, <2>1 DEF MaxExact
  <2>5. BucketsExact'
    <3>1. \A b \in Buckets : InBucket(b)' = InBucket(b)
      BY <1>1, <1>2 DEF InBucket, Counted
    <3> QED BY <1>1, <2>1, <3>1 DEF BucketsExact
  <2> QED BY <2>2, <2>3, <2>4, <2>5
<1> QED BY <1>1, <1>3, <1>4, <1>5 DEF StatInv

LEMMA StatCountStep ==
  ASSUME DeferredConstantsOK, Inv, StatInv, NEW t \in Tasks, CountAsync(t), UNCHANGED resetVars
  PROVE  StatInv'
<1>1. /\ tpc[t] = "count_async" /\ tpc' = [tpc EXCEPT ![t] = "done"]
      /\ asyncCount' = asyncCount + 1
      /\ UNCHANGED <<work, us, oldMax, maxUs, totalUs, bucket, reset, base, mixed>>
  BY DEF CountAsync, TaskGoto, resetVars
<1>2. Counting' = Counting \ {t} /\ t \in Counting
  BY <1>1 DEF Counting, Inv, Types
<1>3. StatTypes' /\ Improves'
  BY <1>1, StatSetsKept DEF StatInv, StatTypes, Improves
<1>4. ASSUME ~mixed PROVE AsyncExact' /\ TotalExact' /\ MaxExact' /\ BucketsExact'
  <2>1. AsyncExact /\ TotalExact /\ MaxExact /\ BucketsExact
    BY <1>4 DEF StatInv
  <2>2. AsyncExact'
    <3>1. IsFiniteSet(Counting) /\ Cardinality(Counting) \in Nat
      BY Finite DEF Counting
    <3>2. Cardinality(Counting') = Cardinality(Counting) - 1
      BY <1>2, <3>1, FS_RemoveElement
    <3>3. Worked' \ base' = Worked \ base
      BY <1>1, StatSetsKept
    <3> QED BY <1>1, <2>1, <3>1, <3>2, <3>3 DEF AsyncExact, StatInv, StatTypes
  <2>3. TotalExact'
    BY <1>1, <2>1, StatSetsKept DEF TotalExact
  <2>4. MaxExact'
    BY <1>1, <2>1, StatSetsKept DEF MaxExact
  <2>5. BucketsExact'
    BY <1>1, <2>1, StatSetsKept DEF BucketsExact
  <2> QED BY <2>2, <2>3, <2>4, <2>5
<1> QED BY <1>1, <1>3, <1>4 DEF StatInv
-----------------------------------------------------------------------------
(* The work item goes through the statistics one by one.                     *)

\* A step of item m leaves the others where they are.
LEMMA StatItemStep ==
  ASSUME Inv, StatInv, NEW m \in Mms, work[m] \notin {"none", "dec", "finished"},
         NEW l \in {"total", "max", "cmpxchg", "bucket", "dec"},
         WorkGoto(m, l), UNCHANGED <<tpc, base>>
  PROVE  /\ m \notin base /\ m \notin Measured
         /\ Worked' = Worked /\ Counting' = Counting
         /\ Measured' = IF l = "dec" THEN Measured \cup {m} ELSE Measured
         /\ base' \subseteq Measured'
<1>1. work' = [work EXCEPT ![m] = l] /\ work \in [Mms -> {"none", "queued", "total",
        "max", "cmpxchg", "bucket", "dec", "finished"}]
  BY DEF WorkGoto, Inv, Types
<1>2. Measured' = IF l = "dec" THEN Measured \cup {m} ELSE Measured
  BY <1>1 DEF Measured
<1>3. Worked' = Worked /\ Counting' = Counting
  BY <1>1 DEF Worked, Counting
<1>4. m \notin Measured
  BY DEF Measured
<1> QED BY <1>2, <1>3, <1>4 DEF StatInv, StatTypes

LEMMA StatTeardownStep ==
  ASSUME DeferredConstantsOK, Inv, StatInv, NEW m \in Mms, WorkTeardown(m), UNCHANGED resetVars
  PROVE  StatInv'
<1>1. PICK l \in Latencies : us' = [us EXCEPT ![m] = l]
  BY DEF WorkTeardown
<1>2. /\ work[m] = "queued" /\ WorkGoto(m, "total")
      /\ work' = [work EXCEPT ![m] = "total"]
      /\ UNCHANGED <<tpc, asyncCount, oldMax, maxUs, totalUs, bucket, reset, base, mixed>>
  BY DEF WorkTeardown, WorkGoto, resetVars
<1>3. /\ m \notin base /\ m \notin Measured /\ Measured' = Measured
      /\ Worked' = Worked /\ Counting' = Counting
      /\ Totalled' = Totalled /\ Raised' = Raised
      /\ m \notin Totalled /\ m \notin Raised
  <2>1. /\ m \notin base /\ m \notin Measured /\ Measured' = Measured
        /\ Worked' = Worked /\ Counting' = Counting
    BY <1>2, StatItemStep
  <2>2. /\ Totalled' = Totalled /\ Raised' = Raised
        /\ m \notin Totalled /\ m \notin Raised
    BY <1>2 DEF Totalled, Raised, Inv, Types
  <2> QED BY <2>1, <2>2
<1>4. \A x \in Mms \ {m} : us'[x] = us[x]
  BY <1>1 DEF StatInv, StatTypes
<1>5. StatTypes' /\ Improves'
  <2>1. us' \in [Mms -> Nat]
    BY <1>1 DEF DeferredConstantsOK, StatInv, StatTypes
  <2>2. StatTypes'
    BY <1>2, <1>3, <2>1 DEF StatInv, StatTypes
  <2>3. Improves'
    BY <1>2, <1>4 DEF StatInv, Improves, Inv, Types
  <2> QED BY <2>2, <2>3
<1>6. ASSUME ~mixed PROVE AsyncExact' /\ TotalExact' /\ MaxExact' /\ BucketsExact'
  <2>1. AsyncExact /\ TotalExact /\ MaxExact /\ BucketsExact
    BY <1>6 DEF StatInv
  <2>2. AsyncExact'
    BY <1>2, <1>3, <2>1 DEF AsyncExact
  <2>3. TotalExact'
    <3>1. \A x \in Totalled \ base : us'[x] = us[x]
      BY <1>3, <1>4 DEF Totalled
    <3>2. Micros(Totalled \ base)' = Micros(Totalled \ base)
      BY <1>2, <1>3, <3>1 DEF Micros
    <3> QED BY <1>2, <2>1, <3>2 DEF TotalExact
  <2>4. MaxExact'
    <3>1. \A x \in Raised \ base : us'[x] = us[x]
      BY <1>3, <1>4 DEF Raised
    <3> QED BY <1>2, <1>3, <2>1, <3>1 DEF MaxExact
  <2>5. BucketsExact'
    <3>1. Counted' = Counted /\ \A x \in Counted : us'[x] = us[x]
      BY <1>2, <1>3, <1>4 DEF Counted, Measured
    <3>2. \A b \in Buckets : InBucket(b)' = InBucket(b)
      BY <3>1 DEF InBucket
    <3> QED BY <1>2, <2>1, <3>2 DEF BucketsExact
  <2> QED BY <2>2, <2>3, <2>4, <2>5
<1> QED BY <1>2, <1>5, <1>6 DEF StatInv

LEMMA StatTotalStep ==
  ASSUME DeferredConstantsOK, Inv, StatInv, NEW m \in Mms, WorkTotal(m), UNCHANGED resetVars
  PROVE  StatInv'
<1>1. /\ work[m] = "total" /\ WorkGoto(m, "max")
      /\ work' = [work EXCEPT ![m] = "max"]
      /\ totalUs' = totalUs + us[m]
      /\ UNCHANGED <<tpc, asyncCount, us, oldMax, maxUs, bucket, reset, base, mixed>>
  BY DEF WorkTotal, WorkGoto, resetVars
<1>2. /\ m \notin base /\ m \notin Measured /\ Measured' = Measured
      /\ Worked' = Worked /\ Counting' = Counting
  BY <1>1, StatItemStep
<1>3. Totalled' = Totalled \cup {m} /\ m \notin Totalled /\ Raised' = Raised
  BY <1>1 DEF Totalled, Raised, Inv, Types
<1>4. StatTypes' /\ Improves'
  <2>1. totalUs' \in Nat
    BY <1>1 DEF StatInv, StatTypes
  <2>2. StatTypes'
    BY <1>1, <1>2, <2>1 DEF StatInv, StatTypes
  <2> QED BY <1>1, <2>2 DEF StatInv, Improves, Inv, Types
<1>5. ASSUME ~mixed PROVE AsyncExact' /\ TotalExact' /\ MaxExact' /\ BucketsExact'
  <2>1. AsyncExact /\ TotalExact /\ MaxExact /\ BucketsExact
    BY <1>5 DEF StatInv
  <2>2. AsyncExact'
    BY <1>1, <1>2, <2>1 DEF AsyncExact
  <2>3. TotalExact'
    <3> DEFINE S == Totalled \ base
    <3>1. S \in SUBSET Mms /\ m \in Mms \ S /\ us \in [Mms -> Nat]
      BY <1>3 DEF Totalled, StatInv, StatTypes
    <3>2. IsFiniteSet(Micros(S)) /\ Cardinality(Micros(S)) \in Nat
      BY <3>1, MicrosFinite
    <3>3. Cardinality(Micros(S \cup {m})) = Cardinality(Micros(S)) + us[m]
      BY <3>1, <3>2, MicrosAdd
    <3>4. Totalled' \ base' = S \cup {m}
      BY <1>1, <1>2, <1>3
    <3>5. Micros(Totalled \ base)' = Micros(S \cup {m})
      BY <1>1, <3>4 DEF Micros
    <3> HIDE DEF S
    <3>6. reset # "total" => totalUs = Cardinality(Micros(S))
      BY <2>1 DEF TotalExact, S
    <3> QED BY <1>1, <3>3, <3>5, <3>6 DEF TotalExact
  <2>4. MaxExact'
    BY <1>1, <1>3, <2>1 DEF MaxExact
  <2>5. BucketsExact'
    <3>1. Counted' = Counted
      BY <1>1, <1>2 DEF Counted
    <3>2. \A b \in Buckets : InBucket(b)' = InBucket(b)
      BY <1>1, <3>1 DEF InBucket
    <3> QED BY <1>1, <2>1, <3>2 DEF BucketsExact
  <2> QED BY <2>2, <2>3, <2>4, <2>5
<1> QED BY <1>1, <1>4, <1>5 DEF StatInv

\* The loop that raises the maximum: the item leaves it at a maximum that is
\* at least its own latency, and an exchange never lowers it.
LEMMA StatMaxStep ==
  ASSUME DeferredConstantsOK, Inv, StatInv, NEW m \in Mms,
         WorkReadMax(m) \/ WorkCmpxchg(m), UNCHANGED resetVars
  PROVE  StatInv'
<1> DEFINE l == work'[m]
<1>1. /\ work[m] \in {"max", "cmpxchg"} /\ l \in {"max", "cmpxchg", "bucket"}
      /\ work' = [work EXCEPT ![m] = l]
      /\ UNCHANGED <<tpc, asyncCount, us, totalUs, bucket, reset, base, mixed>>
  BY DEF WorkReadMax, WorkCmpxchg, WorkGoto, resetVars, Inv, Types
<1>2. /\ maxUs' \in Nat /\ maxUs <= maxUs'
      /\ maxUs' = maxUs \/ (l = "bucket" /\ maxUs' = us[m])
      /\ l = "bucket" => us[m] <= maxUs'
      /\ \A x \in Mms \ {m} : oldMax'[x] = oldMax[x]
      /\ l = "cmpxchg" => us[m] > oldMax'[m]
      /\ oldMax' \in [Mms -> Nat]
  <2>0. us[m] \in Nat /\ maxUs \in Nat /\ oldMax \in [Mms -> Nat]
    BY DEF StatInv, StatTypes
  <2>1. CASE WorkReadMax(m)
    <3>1. maxUs' = maxUs /\ oldMax' = [oldMax EXCEPT ![m] = maxUs]
      BY <2>1 DEF WorkReadMax
    <3>2. l = IF us[m] > maxUs THEN "cmpxchg" ELSE "bucket"
      BY <2>1 DEF WorkReadMax, WorkGoto, Inv, Types
    <3> QED BY <2>0, <3>1, <3>2
  <2>2. CASE WorkCmpxchg(m)
    <3>1. work[m] = "cmpxchg" /\ us[m] > oldMax[m] /\ oldMax' = oldMax
      BY <2>2 DEF WorkCmpxchg, StatInv, Improves
    <3>2. /\ maxUs' = IF maxUs = oldMax[m] THEN us[m] ELSE maxUs
          /\ l = IF maxUs = oldMax[m] THEN "bucket" ELSE "max"
      BY <2>2 DEF WorkCmpxchg, WorkGoto, Unchanged, Inv, Types
    <3> QED BY <2>0, <3>1, <3>2
  <2> QED BY <2>1, <2>2
<1>3. WorkGoto(m, l)
  BY <1>1 DEF WorkGoto
<1> HIDE DEF l
<1>4. /\ m \notin base /\ m \notin Measured /\ Measured' = Measured
      /\ Worked' = Worked /\ Counting' = Counting
  <2>1. l # "dec"
    BY <1>1
  <2> QED BY <1>1, <1>3, <2>1, StatItemStep
<1>5. /\ Totalled' = Totalled /\ m \notin Raised
      /\ Raised' = IF l = "bucket" THEN Raised \cup {m} ELSE Raised
  BY <1>1 DEF Totalled, Raised, Inv, Types
<1>6. StatTypes' /\ Improves'
  <2>1. StatTypes'
    BY <1>1, <1>2, <1>4 DEF StatInv, StatTypes
  <2> QED BY <1>1, <1>2, <2>1 DEF StatInv, Improves, Inv, Types
<1>7. ASSUME ~mixed PROVE AsyncExact' /\ TotalExact' /\ MaxExact' /\ BucketsExact'
  <2>1. AsyncExact /\ TotalExact /\ MaxExact /\ BucketsExact
    BY <1>7 DEF StatInv
  <2>2. AsyncExact'
    BY <1>1, <1>4, <2>1 DEF AsyncExact
  <2>3. TotalExact'
    <3>1. Micros(Totalled \ base)' = Micros(Totalled \ base)
      BY <1>1, <1>5 DEF Micros
    <3> QED BY <1>1, <2>1, <3>1, <1>2 DEF TotalExact
  <2>4. MaxExact'
    <3> SUFFICES ASSUME reset \notin {"total", "max"}
                 PROVE  /\ \A x \in Raised' \ base : us[x] <= maxUs'
                        /\ maxUs' = 0 \/ \E x \in Raised' \ base : us[x] = maxUs'
      BY <1>1 DEF MaxExact
    <3>1. /\ \A x \in Raised \ base : us[x] <= maxUs
          /\ maxUs = 0 \/ \E x \in Raised \ base : us[x] = maxUs
      BY <2>1 DEF MaxExact
    <3>2. us \in [Mms -> Nat] /\ maxUs \in Nat /\ Raised \subseteq Mms
      BY DEF StatInv, StatTypes, Raised
    <3>3. \A x \in Raised' \ base : us[x] <= maxUs'
      BY <1>2, <1>5, <3>1, <3>2
    <3>4. maxUs' = 0 \/ \E x \in Raised' \ base : us[x] = maxUs'
      BY <1>2, <1>4, <1>5, <3>1
    <3> QED BY <3>3, <3>4
  <2>5. BucketsExact'
    <3>1. Counted' = Counted
      BY <1>1, <1>4 DEF Counted
    <3>2. \A b \in Buckets : InBucket(b)' = InBucket(b)
      BY <1>1, <3>1 DEF InBucket
    <3> QED BY <1>1, <2>1, <3>2 DEF BucketsExact
  <2> QED BY <2>2, <2>3, <2>4, <2>5
<1> QED BY <1>1, <1>6, <1>7 DEF StatInv
LEMMA StatBucketStep ==
  ASSUME DeferredConstantsOK, Inv, StatInv, NEW m \in Mms, WorkBucket(m), UNCHANGED resetVars
  PROVE  StatInv'
<1> DEFINE k == BucketOf(us[m])
<1>1. /\ work[m] = "bucket" /\ WorkGoto(m, "dec")
      /\ work' = [work EXCEPT ![m] = "dec"]
      /\ bucket' = [bucket EXCEPT ![k] = @ + 1]
      /\ UNCHANGED <<tpc, asyncCount, us, oldMax, maxUs, totalUs, reset, base, mixed>>
  BY DEF WorkBucket, WorkGoto, resetVars
<1>2. k \in Buckets
  <2>1. us[m] \in Nat
    BY DEF StatInv, StatTypes
  <2> QED BY <2>1, BucketIsRank
<1>3. k = BucketOf(us[m])
  OBVIOUS
<1> HIDE DEF k
<1>4. /\ m \notin base /\ m \notin Measured /\ Measured' = Measured \cup {m}
      /\ Worked' = Worked /\ Counting' = Counting /\ base' \subseteq Measured'
  BY <1>1, StatItemStep
<1>5. Totalled' = Totalled /\ Raised' = Raised
  BY <1>1 DEF Totalled, Raised, Inv, Types
<1>6. StatTypes' /\ Improves'
  <2>1. bucket' \in [Buckets -> Nat]
    BY <1>1, <1>2 DEF StatInv, StatTypes
  <2>2. StatTypes'
    BY <1>1, <1>4, <2>1 DEF StatInv, StatTypes
  <2> QED BY <1>1, <2>2 DEF StatInv, Improves, Inv, Types
<1>7. ASSUME ~mixed PROVE AsyncExact' /\ TotalExact' /\ MaxExact' /\ BucketsExact'
  <2>1. AsyncExact /\ TotalExact /\ MaxExact /\ BucketsExact
    BY <1>7 DEF StatInv
  <2>2. AsyncExact'
    BY <1>1, <1>4, <2>1 DEF AsyncExact
  <2>3. TotalExact'
    <3>1. Micros(Totalled \ base)' = Micros(Totalled \ base)
      BY <1>1, <1>5 DEF Micros
    <3> QED BY <1>1, <2>1, <3>1 DEF TotalExact
  <2>4. MaxExact'
    BY <1>1, <1>5, <2>1 DEF MaxExact
  <2>5. BucketsExact'
    <3>1. Counted' = Counted \cup {m} /\ m \notin Counted
      BY <1>1, <1>4 DEF Counted
    <3> SUFFICES ASSUME reset = "none", NEW b \in Buckets
                 PROVE  bucket'[b] = Cardinality(InBucket(b)')
      BY <1>1 DEF BucketsExact
    <3>2. bucket[b] = Cardinality(InBucket(b)) /\ bucket[b] \in Nat
      BY <2>1 DEF BucketsExact, StatInv, StatTypes
    <3>3. CASE b = k
      <4>1. InBucket(b)' = InBucket(b) \cup {m} /\ m \notin InBucket(b)
        BY <1>1, <1>3, <3>1, <3>3 DEF InBucket
      <4>2. IsFiniteSet(InBucket(b))
        BY Finite DEF InBucket, Counted, Measured
      <4>3. Cardinality(InBucket(b)') = Cardinality(InBucket(b)) + 1
        BY <4>1, <4>2, FS_AddElement
      <4>4. bucket'[b] = bucket[b] + 1
        BY <1>1, <1>2, <3>3 DEF StatInv, StatTypes
      <4> QED BY <3>2, <4>3, <4>4
    <3>4. CASE b # k
      <4>1. InBucket(b)' = InBucket(b)
        BY <1>1, <1>3, <3>1, <3>4 DEF InBucket
      <4>2. bucket'[b] = bucket[b]
        BY <1>1, <3>4 DEF StatInv, StatTypes
      <4> QED BY <3>2, <4>1, <4>2
    <3> QED BY <3>3, <3>4
  <2> QED BY <2>2, <2>3, <2>4, <2>5
<1> QED BY <1>1, <1>6, <1>7 DEF StatInv

LEMMA StatDecStep ==
  ASSUME Inv, StatInv, NEW m \in Mms, WorkDec(m), UNCHANGED resetVars
  PROVE  StatInv'
<1>1. /\ work[m] = "dec" /\ work' = [work EXCEPT ![m] = "finished"]
      /\ UNCHANGED <<tpc, asyncCount, us, oldMax, maxUs, totalUs, bucket, reset, base,
                     mixed>>
  BY DEF WorkDec, WorkGoto, statVars, resetVars
<1>2. /\ Measured' = Measured /\ Worked' = Worked /\ Totalled' = Totalled
      /\ Raised' = Raised /\ Counting' = Counting
  BY <1>1 DEF Measured, Worked, Totalled, Raised, Counting, Inv, Types
<1>3. StatTypes' /\ Improves'
  BY <1>1, <1>2 DEF StatInv, StatTypes, Improves, Inv, Types
<1>4. ASSUME ~mixed PROVE AsyncExact' /\ TotalExact' /\ MaxExact' /\ BucketsExact'
  <2>1. AsyncExact /\ TotalExact /\ MaxExact /\ BucketsExact
    BY <1>4 DEF StatInv
  <2>2. Counted' = Counted /\ Micros(Totalled \ base)' = Micros(Totalled \ base)
    BY <1>1, <1>2 DEF Counted, Micros
  <2>3. \A b \in Buckets : InBucket(b)' = InBucket(b)
    BY <1>1, <2>2 DEF InBucket
  <2>4. AsyncExact' /\ TotalExact'
    BY <1>1, <1>2, <2>1, <2>2 DEF AsyncExact, TotalExact
  <2>5. MaxExact'
    BY <1>1, <1>2, <2>1 DEF MaxExact
  <2>6. BucketsExact'
    BY <1>1, <2>1, <2>3 DEF BucketsExact
  <2> QED BY <2>4, <2>5, <2>6
<1> QED BY <1>1, <1>3, <1>4 DEF StatInv

-----------------------------------------------------------------------------
(* A write.  One that stays apart finds every item either not begun or       *)
(* already in base.                                                          *)

LEMMA ApartFromAccounting ==
  ASSUME Inv, ~Accounting
  PROVE  Counting = {} /\ Worked = Measured /\ Totalled = Measured /\ Raised = Measured
BY DEF Inv, Types, Accounting, Counting, Worked, Measured, Totalled, Raised

LEMMA StatResetStep ==
  ASSUME Inv, StatInv, Reset
  PROVE  StatInv'
<1>1. /\ UNCHANGED <<tpc, work, us, oldMax>> /\ Measured' = Measured
      /\ Counting' = Counting /\ Worked' = Worked /\ Totalled' = Totalled
      /\ Raised' = Raised
  BY DEF Reset, ResetCounts, ResetTotal, ResetMax, ResetBuckets, ResetTo, Measured,
         Counting, Worked, Totalled, Raised
<1>2. mixed' \in BOOLEAN
  BY DEF Reset, ResetCounts, ResetTotal, ResetMax, ResetBuckets, ResetTo, StatInv,
         StatTypes, Accounting
<1>3. Improves'
  BY <1>1 DEF StatInv, Improves
<1>4. StatTypes'
  BY <1>1, <1>2 DEF StatInv, StatTypes, Reset, ResetCounts, ResetTotal, ResetMax,
                    ResetBuckets, ResetTo, ClearMax
<1>5. ASSUME ~mixed' PROVE AsyncExact' /\ TotalExact' /\ MaxExact' /\ BucketsExact'
  <2>1. ~mixed /\ ~Accounting
    BY <1>5 DEF Reset, ResetCounts, ResetTotal, ResetMax, ResetBuckets, ResetTo
  <2>2. AsyncExact /\ TotalExact /\ MaxExact /\ BucketsExact
    BY <2>1 DEF StatInv
  <2>3. /\ Counting = {} /\ Worked = Measured /\ Totalled = Measured
        /\ Raised = Measured
    BY <2>1, ApartFromAccounting
  <2>4. base' = Measured
    BY <1>5 DEF Reset, ResetCounts, ResetTotal, ResetMax, ResetBuckets, ResetTo
  <2>5. /\ Worked' \ base' = {} /\ Totalled' \ base' = {} /\ Raised' \ base' = {}
        /\ Counted' = {} /\ Counting' = {}
    BY <1>1, <2>3, <2>4 DEF Counted
  <2>6. /\ Micros(Totalled \ base)' = {}
        /\ \A b \in Buckets : InBucket(b)' = {}
    BY <2>5 DEF Micros, InBucket
  <2>7. Cardinality({}) = 0
    BY FS_EmptySet
  <2>8. CASE ResetCounts
    <3>1. AsyncExact'
      BY <2>5, <2>7, <2>8 DEF AsyncExact, ResetCounts
    <3> QED BY <2>8, <3>1 DEF ResetCounts, TotalExact, MaxExact, BucketsExact
  <2>9. CASE ResetTotal \/ ResetMax \/ ResetBuckets
    <3>1. /\ UNCHANGED <<asyncCount, base>>
          /\ base = Measured
      BY <2>4, <2>9 DEF ResetTotal, ResetMax, ResetBuckets, ResetTo
    <3>2. AsyncExact'
      BY <1>1, <2>2, <3>1 DEF AsyncExact
    <3>3. Totalled \ base = {} /\ Raised \ base = {} /\ Counted = {}
      BY <2>3, <3>1 DEF Counted
    <3>4. TotalExact'
      <4>1. CASE ResetTotal
        BY <2>6, <2>7, <4>1 DEF ResetTotal, TotalExact
      <4>2. CASE ResetMax \/ ResetBuckets
        <5>1. totalUs = Cardinality(Micros(Totalled \ base))
          BY <2>2, <4>2 DEF TotalExact, ResetMax, ResetBuckets
        <5>2. Micros(Totalled \ base) = {}
          BY <3>3 DEF Micros
        <5> QED BY <2>6, <4>2, <5>1, <5>2 DEF TotalExact, ResetMax, ResetBuckets
      <4> QED BY <2>9, <4>1, <4>2
    <3>5. MaxExact'
      <4>1. CASE ResetTotal
        BY <4>1 DEF ResetTotal, ResetTo, MaxExact
      <4>2. CASE ResetMax
        BY <2>5, <4>2 DEF ResetMax, ClearMax, MaxExact
      <4>3. CASE ResetBuckets
        <5>1. maxUs = 0
          BY <2>2, <3>3, <4>3 DEF ResetBuckets, MaxExact
        <5> QED BY <2>5, <4>3, <5>1 DEF ResetBuckets, MaxExact
      <4> QED BY <2>9, <4>1, <4>2, <4>3
    <3>6. BucketsExact'
      <4>1. CASE ResetTotal \/ ResetMax
        BY <4>1 DEF ResetTotal, ResetMax, ResetTo, BucketsExact
      <4>2. CASE ResetBuckets
        BY <2>6, <2>7, <4>2 DEF ResetBuckets, BucketsExact
      <4> QED BY <2>9, <4>1, <4>2
    <3> QED BY <3>2, <3>4, <3>5, <3>6
  <2> QED BY <2>8, <2>9 DEF Reset
<1> QED BY <1>3, <1>4, <1>5 DEF StatInv

-----------------------------------------------------------------------------
LEMMA StatEveryStep ==
  ASSUME DeferredConstantsOK, Inv, StatInv, [DeferredNext]_deferredVars
  PROVE  StatInv'
<1>1. ASSUME NEW t \in Tasks, Exit(t) \/ ExecDec(t), UNCHANGED resetVars
      PROVE  StatInv'
  <2>1. Counting' = Counting /\ UNCHANGED <<work, statVars>>
    BY <1>1 DEF Exit, ExecDec, TaskGoto, Counting, Inv, Types
  <2> QED BY <1>1, <2>1, StatKept DEF statVars
<1>2. ASSUME NEW t \in Tasks, Leave(t)
      PROVE  StatInv'
  <2>1. CASE Gate(t) \/ IncPending(t) \/ SyncTeardown(t)
    <3>1. /\ Counting' = Counting
          /\ UNCHANGED <<work, asyncCount, us, oldMax, maxUs, totalUs, bucket>>
      BY <2>1 DEF Gate, IncPending, SyncTeardown, TaskGoto, Counting, Inv, Types, statVars
    <3> QED BY <1>2, <3>1, StatKept DEF Leave
  <2> QED BY <1>2, <2>1, StatQueueStep, StatCountStep DEF Leave
<1>3. ASSUME NEW m \in Mms, Work(m)
      PROVE  StatInv'
  BY <1>3, StatTeardownStep, StatTotalStep, StatMaxStep, StatBucketStep, StatDecStep
     DEF Work
<1>4. CASE Reset
  BY <1>4, StatResetStep
<1>5. CASE UNCHANGED deferredVars
  <2>1. Counting' = Counting
    BY <1>5 DEF deferredVars, Counting
  <2> QED BY <1>5, <2>1, StatKept DEF deferredVars, statVars
<1> QED BY <1>1, <1>2, <1>3, <1>4, <1>5 DEF DeferredNext

\* The largest of the latencies is the bound that is attained.
LEMMA MaxIsBound ==
  ASSUME NEW S \in SUBSET Nat, NEW x \in S, \A y \in S : y <= x
  PROVE  Max(S) = x
<1>1. \A y \in S : (\A z \in S : y >= z) => y = x
  OBVIOUS
<1>2. \A z \in S : x >= z
  OBVIOUS
<1> QED BY <1>1, <1>2 DEF Max

LEMMA StatInvImplies ==
  ASSUME DeferredConstantsOK, Inv, StatInv
  PROVE  StatsExact
<1> SUFFICES ASSUME InFlight = {}, reset = "none", ~mixed
             PROVE  /\ maxUs = Max({us[m] : m \in Counted} \cup {0})
                    /\ totalUs = Cardinality(Micros(Counted))
                    /\ \A b \in Buckets : bucket[b] =
                         Cardinality({m \in Counted :
                           b = Cardinality({i \in 1..4 : Limits[i] <= us[m]})})
                    /\ (\A t \in Tasks : tpc[t] # "count_async") =>
                         asyncCount = Cardinality(Counted)
  BY DEF StatsExact
<1>1. AsyncExact /\ TotalExact /\ MaxExact /\ BucketsExact /\ StatTypes
  BY DEF StatInv
<1>2. Totalled \ base = Counted /\ Raised \ base = Counted /\ Worked \ base = Counted
  <2>1. \A m \in Mms : work[m] \in {"none", "finished"}
    BY DEF InFlight
  <2> QED BY <2>1 DEF Totalled, Raised, Worked, Counted, Measured
<1>3. maxUs = Max({us[m] : m \in Counted} \cup {0})
  <2> DEFINE L == {us[m] : m \in Counted} \cup {0}
  <2>1. L \in SUBSET Nat
    BY <1>1 DEF StatTypes, Counted, Measured
  <2>2. maxUs \in L
    BY <1>1, <1>2 DEF MaxExact
  <2>3. \A y \in L : y <= maxUs
    BY <1>1, <1>2 DEF MaxExact, StatTypes
  <2> HIDE DEF L
  <2>4. Max(L) = maxUs
    BY <2>1, <2>2, <2>3, MaxIsBound
  <2> QED BY <2>4 DEF L
<1>4. totalUs = Cardinality(Micros(Counted))
  BY <1>1, <1>2 DEF TotalExact
<1>5. ASSUME NEW b \in Buckets
      PROVE  bucket[b] = Cardinality({m \in Counted :
                           b = Cardinality({i \in 1..4 : Limits[i] <= us[m]})})
  <2>1. \A m \in Counted : us[m] \in Nat
    BY <1>1 DEF StatTypes, Counted, Measured
  <2>2. \A m \in Counted : BucketOf(us[m]) = Cardinality({i \in 1..4 : Limits[i] <= us[m]})
    BY <2>1, BucketIsRank
  <2>3. InBucket(b) = {m \in Counted :
                         b = Cardinality({i \in 1..4 : Limits[i] <= us[m]})}
    BY <2>2 DEF InBucket
  <2> QED BY <1>1, <2>3 DEF BucketsExact
<1>6. ASSUME \A t \in Tasks : tpc[t] # "count_async"
      PROVE  asyncCount = Cardinality(Counted)
  <2>1. Counting = {}
    BY <1>6 DEF Counting
  <2>2. Cardinality(Counting) = 0
    BY <2>1, FS_EmptySet
  <2>3. asyncCount + Cardinality(Counting) = Cardinality(Counted)
    BY <1>1, <1>2 DEF AsyncExact
  <2>4. asyncCount + 0 = asyncCount
    BY <1>1 DEF StatTypes
  <2> QED BY <2>2, <2>3, <2>4
<1> QED BY <1>3, <1>4, <1>5, <1>6

\* With no item in flight and no write between its accounting, the maximum,
\* the total, the histogram and the count are those of the teardowns since
\* the last write, for every set of tasks and every latency
\* (exec_deferred_mmput_fn, update_latency_bucket, teardown_stats_write).
THEOREM DeferredStatsExact ==
  ASSUME DeferredConstantsOK
  PROVE  DeferredSpec => []StatsExact
<1>1. DeferredInit => StatInv
  BY StatInitially
<1>2. Inv /\ StatInv /\ [DeferredNext]_deferredVars => StatInv'
  BY StatEveryStep
<1>3. Inv /\ StatInv => StatsExact
  BY StatInvImplies
<1> QED BY <1>1, <1>2, <1>3, DeferredInvariant, PTL DEF DeferredSpec
=============================================================================
