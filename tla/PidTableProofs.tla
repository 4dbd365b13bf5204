--------------------------- MODULE PidTableProofs ---------------------------
(***************************************************************************)
(* The pid table, for every number of pids, tasks and callers.             *)
(*                                                                         *)
(* The argument.  Forks: a pid that is being made is that of one call of   *)
(* fork(), which has the numbers that it does not want any more.           *)
(* Numbered: each number leads to the visible pid that has it, or is       *)
(* reserved for one that is being made, never for two.  Listed: the lists  *)
(* of a pid are the tasks that have it, by their own number or by that of  *)
(* the group they lead.  Reapers: the reaper of a namespace leads a group  *)
(* and has number 1 there until it has found itself alone.                 *)
(***************************************************************************)
EXTENDS PidTable, FiniteSetTheorems, WellFoundedInduction, TLAPS

PidStates == {"free", "new", "hashed", "grace", "put"}
Stages == ForkStages \cup {"idle", "found", "held"}
LevelLists == {<<>>, <<"root">>, <<"sub", "root">>}
PidRecords ==
  [state : PidStates, ns : Nss, nr : [Nss -> 0 .. (pid_max - 1)], count : Int,
   tasks : [Types -> SUBSET Kids]]
WorkRecords ==
  [ns : Nss, levels : LevelLists, tid : 0 .. (pid_max - 1), pid : Pids \cup {Nil},
   by : Kids \cup {Nil}, thread : BOOLEAN]
GroupRecords == [leader : Kids \cup {Nil}, pids : [GroupTypes -> Pids \cup {Nil}]]

PidTypes ==
  /\ idr \in [Nss -> [Numbers -> Pids \cup {Nil, Reserved}]]
  /\ pid_allocated \in [Nss -> Int]
  /\ adding \in [Nss -> BOOLEAN] /\ child_reaper \in [Nss -> Kids \cup {Nil}]
  /\ zap \in {"none", "kill", "asleep", "awake", "done"}
  /\ pid \in [Pids -> PidRecords]
  /\ task \in [Kids -> [pid : Pids \cup {Nil}, group : Kids \cup {Nil}]]
  /\ group \in [Kids -> GroupRecords]
  /\ stage \in [Actors -> Stages] /\ work \in [Actors -> WorkRecords]

\* The namespaces that want a number yet.
Wanting(levels) == IF levels = <<>> THEN {} ELSE IF levels = <<"root">> THEN {"root"} ELSE Nss
Forking(a) == stage[a] \in ForkStages
ForkShape(a) ==
  LET x == work[a].pid
  IN /\ x \in Pids /\ work[a].by \in Kids /\ Live(work[a].by)
     /\ pid[x].state = IF stage[a] = "attach" THEN "hashed" ELSE "new"
     /\ pid[x].ns = work[a].ns /\ \A y \in Types : pid[x].tasks[y] = {}
     /\ stage[a] = "alloc" =>
          /\ Wanting(work[a].levels) \subseteq Levels(work[a].ns)
          /\ \A n \in Levels(work[a].ns) : pid[x].nr[n] = 0 <=> n \in Wanting(work[a].levels)
HandShape(a) ==
  /\ work[a].pid \in Pids
  /\ pid[work[a].pid].state \in IF stage[a] = "found" THEN {"hashed", "grace"}
                                ELSE {"hashed", "grace", "put"}
Forks ==
  /\ \A a \in Actors : /\ Forking(a) => ForkShape(a)
                       /\ stage[a] \in {"found", "held"} => HandShape(a)
  /\ \A a, b \in Actors : Forking(a) /\ Forking(b) /\ work[a].pid = work[b].pid => a = b

Numbered ==
  /\ \A x \in Pids, n \in Nss :
       pid[x].nr[n] # 0 =>
         /\ n \in Levels(pid[x].ns)
         /\ pid[x].state = "new" => idr[n][pid[x].nr[n]] = Reserved
         /\ \A z \in Pids \ {x} : pid[x].state = "new" /\ pid[z].state = "new"
                                    => pid[z].nr[n] # pid[x].nr[n]
  /\ \A x \in Pids : pid[x].state = "hashed" =>
       \A n \in Levels(pid[x].ns) : pid[x].nr[n] # 0 /\ idr[n][pid[x].nr[n]] = x
  /\ \A n \in Nss, i \in Numbers : idr[n][i] \in Pids =>
       pid[idr[n][i]].state = "hashed" /\ pid[idr[n][i]].nr[n] = i

HashedIn(n) == {x \in Pids : pid[x].state = "hashed" /\ n \in Levels(pid[x].ns)}
Holders(x) == {a \in Actors : stage[a] = "held" /\ work[a].pid = x}
Counted ==
  /\ \A n \in Nss : pid_allocated[n] = Cardinality(HashedIn(n))
  /\ \A x \in Pids :
       pid[x].count = (IF pid[x].state \in {"hashed", "grace"} THEN 1 ELSE 0)
                      + Cardinality(Holders(x))

ListedUnder(k, y) == IF y = "PID" THEN task[k].pid
                     ELSE IF Leads(k) THEN group[task[k].group].pids[y] ELSE Nil
Listed ==
  /\ \A x \in Pids, y \in Types : pid[x].tasks[y] = {k \in Kids : ListedUnder(k, y) = x}
  /\ \A j, k \in Kids : Live(k) /\ task[j].pid = task[k].pid => j = k
  /\ \A x \in Pids :
       pid[x].state = "hashed" <=> \/ \E y \in Types : pid[x].tasks[y] # {}
                                   \/ \E a \in Actors : stage[a] = "attach" /\ work[a].pid = x

Grouped ==
  /\ \A k \in Kids : Live(k) => task[k].group \in Kids /\ group[task[k].group].leader # Nil
  /\ \A g \in Kids : LET l == group[g].leader
                     IN l # Nil => /\ Live(l) /\ task[l].group = g
                                   /\ \A y \in GroupTypes : group[g].pids[y] \in Pids

Reaps(n) ==
  /\ child_reaper[n] \in Kids /\ Leads(child_reaper[n])
  /\ NsOf(child_reaper[n]) = n /\ pid[task[child_reaper[n]].pid].nr[n] = 1
Reapers ==
  /\ Reaps("root")
  /\ child_reaper["sub"] # Nil /\ zap # "done" => Reaps("sub")
  /\ zap # "none" => ~adding["sub"] /\ child_reaper["sub"] # Nil
  /\ ReaperLast /\ ~warned

PidInv == PidTypes /\ Forks /\ Numbered /\ Counted /\ Listed /\ Grouped /\ Reapers

-----------------------------------------------------------------------------
(* Basic facts                                                               *)

LEMMA NssFacts ==
  ASSUME PidConstantsOK
  PROVE  /\ "root" \in Nss /\ "sub" \in Nss /\ 1 \in Numbers /\ Numbers \subseteq Nat
         /\ \A n \in Nss : n \in Levels(n) /\ "root" \in Levels(n) /\ Levels(n) \subseteq Nss
         /\ 0 .. (pid_max - 1) = {0} \cup Numbers /\ 0 \notin Numbers
         /\ "PID" \in Types /\ GroupTypes \subseteq Types /\ "PID" \notin GroupTypes
BY DEF PidConstantsOK, Nss, Levels, Numbers, Types, GroupTypes

LEMMA HashedFinite ==
  ASSUME PidConstantsOK, NEW n
  PROVE  IsFiniteSet(HashedIn(n)) /\ Cardinality(HashedIn(n)) \in Nat
<1>1. HashedIn(n) \in SUBSET Pids
  BY DEF HashedIn
<1> QED BY <1>1, FS_Subset, FS_CardinalityType DEF PidConstantsOK

LEMMA HoldersFinite ==
  ASSUME PidConstantsOK, NEW x
  PROVE  IsFiniteSet(Holders(x)) /\ Cardinality(Holders(x)) \in Nat
<1>1. Holders(x) \in SUBSET Actors
  BY DEF Holders
<1> QED BY <1>1, FS_Subset, FS_CardinalityType DEF PidConstantsOK

LEMMA Removal ==
  ASSUME NEW H, NEW G \in SUBSET H, IsFiniteSet(H)
  PROVE  /\ IsFiniteSet(H \ G) /\ Cardinality(H \ G) \in Nat /\ Cardinality(G) \in Nat
         /\ Cardinality(H \ G) = Cardinality(H) - Cardinality(G)
<1>1. H \cap G = G
  OBVIOUS
<1>2. IsFiniteSet(H \ G) /\ Cardinality(H \ G) = Cardinality(H) - Cardinality(H \cap G)
  BY FS_Difference
<1>3. IsFiniteSet(G)
  BY FS_Subset
<1> QED BY <1>1, <1>2, <1>3, FS_CardinalityType

\* What a task has is visible, and it is in the lists of that.
LEMMA ListFacts ==
  ASSUME PidConstantsOK, PidInv, NEW k \in Kids
  PROVE  /\ Live(k) => /\ task[k].pid \in Pids /\ pid[task[k].pid].state = "hashed"
                       /\ pid[task[k].pid].tasks["PID"] = {k}
         /\ Leads(k) => \A y \in GroupTypes :
              /\ group[task[k].group].pids[y] \in Pids
              /\ k \in pid[group[task[k].group].pids[y]].tasks[y]
              /\ pid[group[task[k].group].pids[y]].state = "hashed"
<1>1. ASSUME Live(k)
      PROVE  /\ task[k].pid \in Pids /\ pid[task[k].pid].tasks["PID"] = {k}
             /\ pid[task[k].pid].state = "hashed"
  <2>1. task[k].pid \in Pids
    BY <1>1 DEF PidInv, PidTypes, Live
  <2>2. pid[task[k].pid].tasks["PID"] = {j \in Kids : task[j].pid = task[k].pid}
    BY <2>1, NssFacts DEF PidInv, Listed, ListedUnder
  <2>3. pid[task[k].pid].tasks["PID"] = {k}
    BY <1>1, <2>2 DEF PidInv, Listed
  <2> QED BY <2>1, <2>3, NssFacts DEF PidInv, Listed
<1>2. ASSUME Leads(k), NEW y \in GroupTypes
      PROVE  /\ group[task[k].group].pids[y] \in Pids
             /\ k \in pid[group[task[k].group].pids[y]].tasks[y]
             /\ pid[group[task[k].group].pids[y]].state = "hashed"
  <2>1. task[k].group \in Kids /\ group[task[k].group].leader = k /\ k # Nil
    BY <1>2 DEF PidInv, Grouped, Leads, PidConstantsOK
  <2>2. group[task[k].group].pids[y] \in Pids
    BY <1>2, <2>1 DEF PidInv, Grouped
  <2>3. y \in Types /\ y # "PID"
    BY <1>2, NssFacts
  <2>4. k \in pid[group[task[k].group].pids[y]].tasks[y]
    BY <1>2, <2>2, <2>3 DEF PidInv, Listed, ListedUnder
  <2> QED BY <2>2, <2>3, <2>4 DEF PidInv, Listed
<1> QED BY <1>1, <1>2

-----------------------------------------------------------------------------
(* free_pid()                                                                *)

LEMMA FreeFacts ==
  ASSUME PidConstantsOK, PidInv, NEW pids, NEW S \in SUBSET Pids,
         \A x \in Pids : /\ pids[x] \in PidRecords
                         /\ pids[x].state = pid[x].state /\ pids[x].ns = pid[x].ns
                         /\ pids[x].nr = pid[x].nr /\ pids[x].count = pid[x].count,
         \A x \in S : pid[x].state = "hashed",
         \A n \in Nss : child_reaper[n] # Nil /\ adding[n] => \E x \in HashedIn(n) : x \notin S,
         FreePids(S, pids)
  PROVE  /\ pid' \in [Pids -> PidRecords]
         /\ \A x \in Pids :
              /\ pid'[x].state = IF x \in S THEN "grace" ELSE pid[x].state
              /\ pid'[x].ns = pid[x].ns /\ pid'[x].nr = pid[x].nr /\ pid'[x].count = pid[x].count
              /\ pid'[x].tasks = pids[x].tasks
         /\ idr' \in [Nss -> [Numbers -> Pids \cup {Nil, Reserved}]] /\ Numbered'
         /\ pid_allocated' \in [Nss -> Int]
         /\ \A n \in Nss : pid_allocated'[n] = Cardinality(HashedIn(n)')
         /\ adding' \in [Nss -> BOOLEAN] /\ \A n \in Nss : adding'[n] => adding[n]
         /\ (zap' = zap \/ (zap = "asleep" /\ zap' = "awake"))
         /\ ~warned'
<1> DEFINE gone == [n \in Nss |-> {x \in S : n \in Levels(pids[x].ns)}]
           left == [n \in Nss |-> pid_allocated[n] - Cardinality(gone[n])]
           first == {n \in Nss : gone[n] # {} /\ left[n] = 0 /\ adding[n]}
<1>1. /\ pid_allocated' = left
      /\ adding' = [n \in Nss |-> adding[n] /\ n \notin first]
      /\ warned' = (warned \/ \E n \in first : child_reaper[n] # Nil)
      /\ idr' = [n \in Nss |-> [i \in Numbers |->
           IF \E x \in gone[n] : pids[x].nr[n] = i THEN Nil ELSE idr[n][i]]]
      /\ pid' = [x \in Pids |-> IF x \in S THEN [pids[x] EXCEPT !.state = "grace"] ELSE pids[x]]
  BY DEF FreePids
<1>2. (zap' = zap \/ (zap = "asleep" /\ zap' = "awake"))
  BY DEF FreePids
<1>3. \A n \in Nss : gone[n] = {x \in S : n \in Levels(pid[x].ns)} /\ gone[n] = S \cap HashedIn(n)
  BY DEF HashedIn
<1>4. \A x \in Pids : /\ pid'[x] \in PidRecords
                      /\ pid'[x].state = IF x \in S THEN "grace" ELSE pid[x].state
                      /\ pid'[x].ns = pid[x].ns /\ pid'[x].nr = pid[x].nr
                      /\ pid'[x].count = pid[x].count /\ pid'[x].tasks = pids[x].tasks
  <2> SUFFICES ASSUME NEW x \in Pids
               PROVE  /\ pid'[x] \in PidRecords
                      /\ pid'[x].state = IF x \in S THEN "grace" ELSE pid[x].state
                      /\ pid'[x].ns = pid[x].ns /\ pid'[x].nr = pid[x].nr
                      /\ pid'[x].count = pid[x].count /\ pid'[x].tasks = pids[x].tasks
    OBVIOUS
  <2> HIDE DEF gone, left, first
  <2>1. pid'[x] = IF x \in S THEN [pids[x] EXCEPT !.state = "grace"] ELSE pids[x]
    BY <1>1
  <2> QED BY <2>1 DEF PidRecords, PidStates
<1>5. pid' \in [Pids -> PidRecords]
  <2> HIDE DEF gone, left, first
  <2>1. DOMAIN pid' = Pids /\ pid' = [x \in Pids |-> pid'[x]]
    BY <1>1
  <2> QED BY <1>4, <2>1
<1>6. \A n \in Nss : HashedIn(n)' = HashedIn(n) \ gone[n]
  <2> SUFFICES ASSUME NEW n \in Nss PROVE HashedIn(n)' = HashedIn(n) \ gone[n]
    OBVIOUS
  <2>1. HashedIn(n)' = {x \in Pids : pid[x].state = "hashed" /\ x \notin S /\ n \in Levels(pid[x].ns)}
    <3> HIDE DEF gone, left, first
    <3>1. \A x \in Pids : pid'[x].state = "hashed" /\ n \in Levels(pid'[x].ns)
                      <=> pid[x].state = "hashed" /\ x \notin S /\ n \in Levels(pid[x].ns)
      BY <1>4
    <3> QED BY <3>1 DEF HashedIn
  <2> HIDE DEF gone, left, first
  <2> QED BY <1>3, <2>1 DEF HashedIn
<1>7. \A n \in Nss : pid_allocated'[n] = Cardinality(HashedIn(n)') /\ left[n] \in Int
  <2> SUFFICES ASSUME NEW n \in Nss
               PROVE  pid_allocated'[n] = Cardinality(HashedIn(n)') /\ left[n] \in Int
    OBVIOUS
  <2>1. pid_allocated'[n] = pid_allocated[n] - Cardinality(gone[n])
        /\ left[n] = pid_allocated[n] - Cardinality(gone[n])
    BY <1>1
  <2>2. gone[n] \in SUBSET HashedIn(n)
    BY <1>3
  <2> HIDE DEF gone, left, first
  <2>3. /\ Cardinality(HashedIn(n) \ gone[n]) = Cardinality(HashedIn(n)) - Cardinality(gone[n])
        /\ Cardinality(HashedIn(n) \ gone[n]) \in Nat /\ Cardinality(gone[n]) \in Nat
    BY <2>2, HashedFinite, Removal
  <2>4. pid_allocated[n] = Cardinality(HashedIn(n)) /\ HashedIn(n)' = HashedIn(n) \ gone[n]
    BY <1>6 DEF PidInv, Counted
  <2> QED BY <2>1, <2>3, <2>4, HashedFinite
<1>8. pid_allocated' \in [Nss -> Int]
  BY <1>1, <1>7
<1>9. adding' \in [Nss -> BOOLEAN] /\ \A n \in Nss : adding'[n] => adding[n]
  <2> HIDE DEF gone, left, first
  <2>1. \A n \in Nss : adding'[n] = (adding[n] /\ n \notin first) /\ adding[n] \in BOOLEAN
    BY <1>1 DEF PidInv, PidTypes
  <2>2. DOMAIN adding' = Nss /\ adding' = [n \in Nss |-> adding'[n]]
    BY <1>1
  <2> QED BY <2>1, <2>2
<1>10. ~warned'
  <2>1. ASSUME NEW n \in first, child_reaper[n] # Nil PROVE FALSE
    <3>1. n \in Nss /\ left[n] = 0 /\ adding[n]
      BY <2>1
    <3>2. PICK x \in HashedIn(n) : x \notin S
      BY <2>1, <3>1
    <3>3. x \in HashedIn(n)'
      BY <1>3, <1>6, <3>1, <3>2
    <3>4. Cardinality(HashedIn(n)') = 0
      BY <1>1, <1>7, <3>1
    <3>5. IsFiniteSet(HashedIn(n)')
      <4>1. gone[n] \in SUBSET HashedIn(n)
        BY <1>3, <3>1
      <4> HIDE DEF gone, left, first
      <4>2. IsFiniteSet(HashedIn(n) \ gone[n])
        BY <4>1, HashedFinite, Removal
      <4> QED BY <1>6, <3>1, <4>2
    <3> QED BY <3>3, <3>4, <3>5, FS_EmptySet
  <2> HIDE DEF gone, left, first
  <2> QED BY <1>1, <2>1 DEF PidInv, Reapers
<1>11. \A n \in Nss, i \in Numbers :
         idr'[n][i] = IF \E x \in gone[n] : pid[x].nr[n] = i THEN Nil ELSE idr[n][i]
  <2> SUFFICES ASSUME NEW n \in Nss, NEW i \in Numbers
               PROVE  idr'[n][i] = IF \E x \in gone[n] : pid[x].nr[n] = i THEN Nil ELSE idr[n][i]
    OBVIOUS
  <2>1. \A x \in gone[n] : x \in Pids
    BY <1>3
  <2> HIDE DEF gone, left, first
  <2>2. idr'[n][i] = IF \E x \in gone[n] : pids[x].nr[n] = i THEN Nil ELSE idr[n][i]
    BY <1>1
  <2> QED BY <2>1, <2>2
<1>12. idr' \in [Nss -> [Numbers -> Pids \cup {Nil, Reserved}]]
  <2> HIDE DEF gone, left, first
  <2>1. \A n \in Nss, i \in Numbers : idr'[n][i] \in Pids \cup {Nil, Reserved}
    BY <1>11 DEF PidInv, PidTypes
  <2>2. DOMAIN idr' = Nss /\ \A n \in Nss : DOMAIN idr'[n] = Numbers
                                         /\ idr'[n] = [i \in Numbers |-> idr'[n][i]]
    BY <1>1
  <2>3. idr' = [n \in Nss |-> idr'[n]]
    BY <1>1
  <2> QED BY <2>1, <2>2, <2>3
\* A number that is given back was that of a pid of S.
<1>13. Numbered'
  <2>1. \A n \in Nss : \A z \in gone[n] :
          pid[z].nr[n] \in Numbers /\ idr[n][pid[z].nr[n]] = z /\ z \in S /\ z \in Pids
    <3> SUFFICES ASSUME NEW n \in Nss, NEW z \in gone[n]
                 PROVE  pid[z].nr[n] \in Numbers /\ idr[n][pid[z].nr[n]] = z /\ z \in S /\ z \in Pids
      OBVIOUS
    <3>1. z \in S /\ z \in Pids /\ pid[z].state = "hashed" /\ n \in Levels(pid[z].ns)
      BY <1>3
    <3>2. pid[z].nr[n] \in 0 .. (pid_max - 1)
      BY <3>1 DEF PidInv, PidTypes, PidRecords
    <3> HIDE DEF gone, left, first
    <3> QED BY <3>1, <3>2, NssFacts DEF PidInv, Numbered
  <2> HIDE DEF gone, left, first
  <2>2. ASSUME NEW x \in Pids, NEW n \in Nss, pid[x].nr[n] # 0
        PROVE  pid[x].nr[n] \in Numbers
    BY <2>2, NssFacts DEF PidInv, PidTypes, PidRecords
  <2>3. ASSUME NEW x \in Pids, NEW n \in Nss, pid[x].nr[n] # 0, pid[x].state \in {"new", "hashed"},
               n \in Levels(pid[x].ns), x \notin S
        PROVE  idr'[n][pid[x].nr[n]] = idr[n][pid[x].nr[n]]
    <3>1. idr[n][pid[x].nr[n]] \in {Reserved, x}
      BY <2>3 DEF PidInv, Numbered
    <3>2. \A z \in gone[n] : pid[z].nr[n] # pid[x].nr[n]
      BY <2>1, <2>3, <3>1 DEF PidConstantsOK
    <3> QED BY <1>11, <2>2, <2>3, <3>2
  <2>4. ASSUME NEW x \in Pids, NEW n \in Nss, pid'[x].nr[n] # 0
        PROVE  /\ n \in Levels(pid'[x].ns)
               /\ pid'[x].state = "new" => idr'[n][pid'[x].nr[n]] = Reserved
               /\ \A z \in Pids \ {x} : pid'[x].state = "new" /\ pid'[z].state = "new"
                                          => pid'[z].nr[n] # pid'[x].nr[n]
    BY <1>4, <2>3, <2>4 DEF PidInv, Numbered
  <2>5. ASSUME NEW x \in Pids, pid'[x].state = "hashed", NEW n \in Levels(pid'[x].ns)
        PROVE  pid'[x].nr[n] # 0 /\ idr'[n][pid'[x].nr[n]] = x
    <3>1. x \notin S /\ pid[x].state = "hashed" /\ n \in Levels(pid[x].ns) /\ pid'[x].nr = pid[x].nr
      BY <1>4, <2>5
    <3>2. n \in Nss
      BY <3>1, NssFacts DEF PidInv, PidTypes, PidRecords
    <3> QED BY <2>3, <3>1, <3>2 DEF PidInv, Numbered
  <2>6. ASSUME NEW n \in Nss, NEW i \in Numbers, idr'[n][i] \in Pids
        PROVE  pid'[idr'[n][i]].state = "hashed" /\ pid'[idr'[n][i]].nr[n] = i
    <3>1. idr'[n][i] = idr[n][i] /\ ~\E x \in gone[n] : pid[x].nr[n] = i
      BY <1>11, <2>6 DEF PidConstantsOK
    <3>2. pid[idr[n][i]].state = "hashed" /\ pid[idr[n][i]].nr[n] = i
      BY <2>6, <3>1 DEF PidInv, Numbered
    <3>3. i # 0 /\ n \in Levels(pid[idr[n][i]].ns)
      BY <2>6, <3>1, <3>2, NssFacts DEF PidInv, Numbered
    <3>4. idr[n][i] \notin S
      BY <1>3, <2>6, <3>1, <3>2, <3>3
    <3> QED BY <1>4, <2>6, <3>1, <3>2, <3>4
  <2> QED BY <2>4, <2>5, <2>6 DEF Numbered
<1> QED BY <1>2, <1>4, <1>5, <1>7, <1>8, <1>9, <1>10, <1>12, <1>13

-----------------------------------------------------------------------------
(* What stays when the tasks do                                              *)

LEMMA TasksKept ==
  ASSUME PidConstantsOK, PidInv, UNCHANGED <<task, group, child_reaper>>,
         \A x \in Pids : pid[x].state = "hashed" =>
           pid'[x].ns = pid[x].ns /\ pid'[x].nr = pid[x].nr
  PROVE  /\ Grouped'
         /\ \A k \in Kids : /\ Live(k)' = Live(k) /\ Leads(k)' = Leads(k)
                            /\ InSub(k)' = InSub(k) /\ \A y : ListedUnder(k, y)' = ListedUnder(k, y)
         /\ \A n \in Nss : Reaps(n) => Reaps(n)'
<1>1. ASSUME NEW k \in Kids, Live(k)
      PROVE  NsOf(k)' = NsOf(k) /\ pid'[task[k].pid].nr = pid[task[k].pid].nr
  BY <1>1, ListFacts DEF NsOf
<1>2. Grouped'
  BY DEF PidInv, Grouped, Live
<1>3. ASSUME NEW k \in Kids
      PROVE  /\ Live(k)' = Live(k) /\ Leads(k)' = Leads(k)
             /\ InSub(k)' = InSub(k) /\ \A y : ListedUnder(k, y)' = ListedUnder(k, y)
  BY <1>1 DEF Live, Leads, InSub, ListedUnder
<1>4. ASSUME NEW n \in Nss, Reaps(n) PROVE Reaps(n)'
  <2>1. child_reaper[n] \in Kids /\ Live(child_reaper[n])
    BY <1>4 DEF Reaps, Leads
  <2>2. NsOf(child_reaper[n])' = NsOf(child_reaper[n])
        /\ pid'[task[child_reaper[n]].pid].nr = pid[task[child_reaper[n]].pid].nr
    BY <1>1, <2>1
  <2>3. Leads(child_reaper[n])' = Leads(child_reaper[n])
    BY <2>1 DEF Leads, Live
  <2> QED BY <1>4, <2>1, <2>2, <2>3 DEF Reaps
<1> QED BY <1>2, <1>3, <1>4

\* The call of fork() of an actor that does nothing in this step.
LEMMA ForkKept ==
  ASSUME PidInv, NEW b \in Actors, Forking(b), stage'[b] = stage[b], work'[b] = work[b],
         pid'[work[b].pid].state = pid[work[b].pid].state,
         pid'[work[b].pid].ns = pid[work[b].pid].ns,
         pid'[work[b].pid].nr = pid[work[b].pid].nr,
         pid'[work[b].pid].tasks = pid[work[b].pid].tasks,
         Live(work[b].by)'
  PROVE  Forking(b)' /\ ForkShape(b)'
<1>1. ForkShape(b)
  BY DEF PidInv, Forks
<1> QED BY <1>1 DEF Forking, ForkShape, Live

\* A pid that is not visible has no task.
LEMMA NoTasks ==
  ASSUME PidInv, NEW x \in Pids, pid[x].state # "hashed", NEW y \in Types
  PROVE  pid[x].tasks[y] = {}
BY DEF PidInv, Listed

\* A step of the reaper that exits changes the flag and its own state.
LEMMA ZapFrame ==
  ASSUME PidInv, UNCHANGED <<idr, pid_allocated, child_reaper, pid, task, group, stage, work>>,
         adding' \in [Nss -> BOOLEAN], zap' \in {"none", "kill", "asleep", "awake", "done"}
  PROVE  /\ PidTypes' /\ Forks' /\ Numbered' /\ Counted' /\ Listed' /\ Grouped'
         /\ \A k : Live(k)' = Live(k) /\ Leads(k)' = Leads(k) /\ NsOf(k)' = NsOf(k)
                   /\ InSub(k)' = InSub(k)
         /\ \A n : Reaps(n)' = Reaps(n)
<1>1. PidTypes' /\ Numbered'
  BY DEF PidInv, PidTypes, Numbered
<1>2. Forks'
  BY DEF PidInv, Forks, Forking, ForkShape, HandShape, Live
<1>3. Counted'
  <2>1. \A n : HashedIn(n)' = HashedIn(n) /\ Holders(n)' = Holders(n)
    BY DEF HashedIn, Holders
  <2> QED BY <2>1 DEF PidInv, Counted
<1>4. \A k, y : ListedUnder(k, y)' = ListedUnder(k, y) /\ Live(k)' = Live(k)
                /\ Leads(k)' = Leads(k) /\ NsOf(k)' = NsOf(k) /\ InSub(k)' = InSub(k)
  BY DEF ListedUnder, Live, Leads, NsOf, InSub
<1>5. Listed'
  BY <1>4 DEF PidInv, Listed
<1>6. Grouped'
  BY <1>4 DEF PidInv, Grouped
<1>7. \A n : Reaps(n)' = Reaps(n)
  BY <1>4 DEF Reaps
<1> QED BY <1>1, <1>2, <1>3, <1>4, <1>5, <1>6, <1>7

LEMMA PidStutter ==
  ASSUME PidInv, UNCHANGED <<idr, pid_allocated, adding, child_reaper, zap, pid, task, group,
                             stage, work, warned>>
  PROVE  PidInv'
<1>1. adding' \in [Nss -> BOOLEAN] /\ zap' \in {"none", "kill", "asleep", "awake", "done"}
  BY DEF PidInv, PidTypes
<1>2. /\ PidTypes' /\ Forks' /\ Numbered' /\ Counted' /\ Listed' /\ Grouped'
      /\ \A k : InSub(k)' = InSub(k)
      /\ \A n : Reaps(n)' = Reaps(n)
  BY <1>1, ZapFrame
<1>3. Reapers'
  BY <1>2 DEF PidInv, Reapers, ReaperLast
<1> QED BY <1>2, <1>3 DEF PidInv

-----------------------------------------------------------------------------
(* Steps that count: the lookups and the end of the grace period             *)

LEMMA CountOnly ==
  ASSUME PidConstantsOK, PidInv, NEW x \in Pids, NEW p \in PidRecords,
         pid' = [pid EXCEPT ![x] = p],
         \/ p.state = pid[x].state /\ p.ns = pid[x].ns /\ p.nr = pid[x].nr /\ p.tasks = pid[x].tasks
         \/ /\ pid[x].state \in {"grace", "put"} /\ p.state = "put"
            /\ p.ns = pid[x].ns /\ p.nr = pid[x].nr /\ p.tasks = pid[x].tasks
         \/ pid[x].state \in {"grace", "put"} /\ p = NoPid,
         UNCHANGED <<nsVars, task, group, warned>>,
         stage' \in [Actors -> Stages], work' \in [Actors -> WorkRecords],
         \A b \in Actors : /\ Forking(b)' <=> Forking(b)
                           /\ Forking(b) => stage'[b] = stage[b] /\ work'[b] = work[b]
                           /\ stage'[b] \in {"found", "held"} => HandShape(b)',
         \A z \in Pids : pid'[z].count = (IF pid'[z].state \in {"hashed", "grace"} THEN 1 ELSE 0)
                                         + Cardinality(Holders(z)')
  PROVE  PidInv'
<1>1. /\ UNCHANGED <<idr, pid_allocated, adding, child_reaper, zap>>
      /\ \A z \in Pids : z # x => pid'[z] = pid[z]
      /\ pid'[x] = p
  BY DEF nsVars, PidInv, PidTypes
<1>2. PidTypes'
  BY <1>1 DEF PidInv, PidTypes
<1>3. /\ NoPid.state = "free" /\ NoPid.nr = [n \in Nss |-> 0] /\ \A y \in Types : NoPid.tasks[y] = {}
  BY DEF NoPid
<1>4. \A z \in Pids : /\ pid'[z].state = "hashed" <=> pid[z].state = "hashed"
                      /\ pid'[z].state = "new" <=> pid[z].state = "new"
                      /\ pid[z].state \in {"new", "hashed"} =>
                           /\ pid'[z].state = pid[z].state
                           /\ pid'[z].ns = pid[z].ns /\ pid'[z].nr = pid[z].nr
                           /\ pid'[z].tasks = pid[z].tasks
                      /\ \A y \in Types : pid'[z].tasks[y] = pid[z].tasks[y]
                      /\ \A n \in Nss : pid'[z].nr[n] # 0 => pid'[z].ns = pid[z].ns
                                                             /\ pid'[z].nr = pid[z].nr
  <2>1. \A y \in Types : pid[x].state \in {"grace", "put"} => pid[x].tasks[y] = {}
    BY NoTasks
  <2>2. CASE pid[x].state \in {"grace", "put"} /\ p = NoPid
    <3>1. /\ pid'[x].state = "free" /\ \A n \in Nss : pid'[x].nr[n] = 0
          /\ \A y \in Types : pid'[x].tasks[y] = pid[x].tasks[y]
      <4>1. pid'[x] = NoPid
        BY <1>1, <2>2
      <4>2. \A y \in Types : pid[x].tasks[y] = {}
        BY <2>1, <2>2
      <4>3. pid'[x].state = "free" /\ \A n \in Nss : pid'[x].nr[n] = 0
        BY <1>3, <4>1
      <4>4. \A y \in Types : pid'[x].tasks[y] = {}
        BY <1>3, <4>1
      <4> QED BY <4>2, <4>3, <4>4
    <3> QED BY <1>1, <2>2, <3>1
  <2>3. CASE p.state = pid[x].state \/ (pid[x].state \in {"grace", "put"} /\ p.state = "put")
    <3>1. CASE p # NoPid
      BY <1>1, <2>3, <3>1
    <3> QED BY <2>2, <3>1, <1>1, <1>3, <2>1, <2>3
  <2> QED BY <2>2, <2>3
<1>5. Numbered'
  BY <1>1, <1>4 DEF PidInv, Numbered
<1>6. Forks'
  <2>1. ASSUME NEW b \in Actors, Forking(b)' PROVE ForkShape(b)' /\ Forking(b) /\ work'[b] = work[b]
    <3>1. Forking(b) /\ ForkShape(b) /\ stage'[b] = stage[b] /\ work'[b] = work[b]
      BY <2>1 DEF PidInv, Forks
    <3>2. work[b].pid \in Pids /\ pid[work[b].pid].state \in {"new", "hashed"} /\ Live(work[b].by)
      BY <3>1 DEF ForkShape
    <3>3. Live(work[b].by)'
      BY <1>1, <3>1, <3>2 DEF Live
    <3> QED BY <1>4, <3>1, <3>2, <3>3, ForkKept
  <2> QED BY <2>1 DEF PidInv, Forks
<1>7. Counted'
  <2>1. \A n \in Nss : HashedIn(n)' = HashedIn(n)
    BY <1>4 DEF HashedIn
  <2> QED BY <1>1, <2>1 DEF PidInv, Counted
<1>8. /\ Grouped'
      /\ \A k \in Kids : /\ Live(k)' = Live(k) /\ Leads(k)' = Leads(k)
                         /\ InSub(k)' = InSub(k) /\ \A y : ListedUnder(k, y)' = ListedUnder(k, y)
      /\ \A n \in Nss : Reaps(n) => Reaps(n)'
  BY <1>1, <1>4, TasksKept
<1>9. Listed'
  <2>1. \A a \in Actors : stage'[a] = "attach" <=> stage[a] = "attach"
    BY DEF Forking, ForkStages
  <2>2. \A a \in Actors : stage[a] = "attach" => work'[a] = work[a]
    BY DEF Forking, ForkStages
  <2>3. \A z \in Pids : (\E a \in Actors : stage'[a] = "attach" /\ work'[a].pid = z)
                        <=> (\E a \in Actors : stage[a] = "attach" /\ work[a].pid = z)
    BY <2>1, <2>2
  <2> QED BY <1>4, <1>8, <2>3 DEF PidInv, Listed
<1>10. Reapers'
  BY <1>1, <1>8, NssFacts DEF PidInv, Reapers, ReaperLast
<1> QED BY <1>2, <1>5, <1>6, <1>7, <1>8, <1>9, <1>10 DEF PidInv

LEMMA NoPidFacts ==
  ASSUME PidConstantsOK
  PROVE  NoPid \in PidRecords /\ NoPid.state = "free" /\ NoPid.count = 0
<1>1. [n \in Nss |-> 0] \in [Nss -> 0 .. (pid_max - 1)]
  BY DEF PidConstantsOK
<1> QED BY <1>1 DEF NoPid, PidRecords, PidStates, Nss

LEMMA DroppedFacts ==
  ASSUME PidConstantsOK, NEW p \in PidRecords
  PROVE  /\ Dropped(p) \in PidRecords /\ NoPid \in PidRecords
         /\ p.count = 1 => Dropped(p) = NoPid
         /\ p.count # 1 => /\ Dropped(p).count = p.count - 1 /\ Dropped(p).state = p.state
                           /\ Dropped(p).ns = p.ns /\ Dropped(p).nr = p.nr
                           /\ Dropped(p).tasks = p.tasks
         /\ NoPid.state = "free" /\ NoPid.count = 0
BY NoPidFacts DEF Dropped, PidRecords

\* The grace period ends: only readers that hold the pid are left.
LEMMA DelayedPutPidInv ==
  ASSUME PidConstantsOK, PidInv, NEW x \in Pids, DelayedPutPid(x)
  PROVE  PidInv'
<1> DEFINE q == [pid[x] EXCEPT !.state = "put"]
           p == Dropped(q)
<1>1. /\ pid[x].state = "grace" /\ pid' = [pid EXCEPT ![x] = p]
      /\ \A a \in Actors : ~(stage[a] = "found" /\ work[a].pid = x)
      /\ UNCHANGED <<nsVars, task, group, warned>> /\ stage' = stage /\ work' = work
  BY DEF DelayedPutPid
<1>2. /\ q \in PidRecords /\ q.state = "put" /\ q.count = pid[x].count
      /\ q.ns = pid[x].ns /\ q.nr = pid[x].nr /\ q.tasks = pid[x].tasks
  BY DEF PidInv, PidTypes, PidRecords, PidStates
<1>3. pid[x].count = 1 + Cardinality(Holders(x)) /\ Cardinality(Holders(x)) \in Nat
  BY <1>1, HoldersFinite DEF PidInv, Counted
<1>4. \A z : Holders(z)' = Holders(z)
  BY <1>1 DEF Holders
<1> HIDE DEF q
<1>5. p \in PidRecords /\ p.count = Cardinality(Holders(x)) /\ (p = NoPid \/ p.state = "put")
  BY <1>2, <1>3, DroppedFacts
<1>6. p # NoPid => p.ns = pid[x].ns /\ p.nr = pid[x].nr /\ p.tasks = pid[x].tasks
  BY <1>2, DroppedFacts
<1>7. p = NoPid => Holders(x) = {}
  BY <1>5, DroppedFacts, HoldersFinite, FS_EmptySet
<1> HIDE DEF p
<1>8. pid'[x] = p /\ \A z \in Pids : z # x => pid'[z] = pid[z]
  BY <1>1 DEF PidInv, PidTypes
<1>9. ASSUME NEW b \in Actors, stage'[b] \in {"found", "held"} PROVE HandShape(b)'
  <2>1. HandShape(b) /\ stage'[b] = stage[b] /\ work'[b] = work[b]
    BY <1>1, <1>9 DEF PidInv, Forks
  <2>2. CASE work[b].pid = x
    <3>1. stage[b] = "held" /\ b \in Holders(x)
      BY <1>1, <1>9, <2>2 DEF Holders
    <3>2. p.state = "put"
      BY <1>5, <1>7, <3>1
    <3> QED BY <1>8, <2>1, <2>2, <3>1, <3>2 DEF HandShape
  <2>3. CASE work[b].pid # x
    BY <1>8, <2>1, <2>3 DEF HandShape
  <2> QED BY <2>2, <2>3
<1>10. \A z \in Pids : pid'[z].count = (IF pid'[z].state \in {"hashed", "grace"} THEN 1 ELSE 0)
                                       + Cardinality(Holders(z)')
  <2>1. \A z \in Pids : z # x => pid'[z].count =
          (IF pid'[z].state \in {"hashed", "grace"} THEN 1 ELSE 0) + Cardinality(Holders(z)')
    BY <1>4, <1>8 DEF PidInv, Counted
  <2>2. pid'[x].count = Cardinality(Holders(x)') /\ pid'[x].state \notin {"hashed", "grace"}
    BY <1>4, <1>5, <1>8, DroppedFacts
  <2> QED BY <1>3, <1>4, <2>1, <2>2
<1>11. stage' \in [Actors -> Stages] /\ work' \in [Actors -> WorkRecords]
       /\ \A b \in Actors : Forking(b)' <=> Forking(b)
  BY <1>1 DEF PidInv, PidTypes, Forking
<1>12. \/ pid[x].state \in {"grace", "put"} /\ p = NoPid
       \/ /\ pid[x].state \in {"grace", "put"} /\ p.state = "put"
          /\ p.ns = pid[x].ns /\ p.nr = pid[x].nr /\ p.tasks = pid[x].tasks
  BY <1>1, <1>5, <1>6
<1> QED BY <1>1, <1>5, <1>9, <1>10, <1>11, <1>12, CountOnly

LEMMA FindInv ==
  ASSUME PidConstantsOK, PidInv, NEW a \in Actors, Find(a)
  PROVE  PidInv'
<1>1. /\ stage[a] = "idle" /\ UNCHANGED <<nsVars, task, group, warned>> /\ pid' = pid
      /\ \/ UNCHANGED <<stage, work>>
         \/ \E n \in Nss, i \in Numbers :
              /\ idr[n][i] \notin {Nil, Reserved}
              /\ work' = [work EXCEPT ![a] = [Idle EXCEPT !.pid = idr[n][i]]]
              /\ stage' = [stage EXCEPT ![a] = "found"]
  BY DEF Find, Asked, WorksOn, AtStage
<1>2. CASE UNCHANGED <<stage, work>>
  BY <1>1, <1>2, PidStutter DEF nsVars
<1>3. ASSUME NEW n \in Nss, NEW i \in Numbers, idr[n][i] \notin {Nil, Reserved},
             work' = [work EXCEPT ![a] = [Idle EXCEPT !.pid = idr[n][i]]],
             stage' = [stage EXCEPT ![a] = "found"]
      PROVE  PidInv'
  <2>1. idr[n][i] \in Pids /\ pid[idr[n][i]].state = "hashed"
    BY <1>3 DEF PidInv, PidTypes, Numbered
  <2>2. /\ stage'[a] = "found" /\ work'[a].pid = idr[n][i]
        /\ \A b \in Actors : b # a => stage'[b] = stage[b] /\ work'[b] = work[b]
    BY <1>3 DEF PidInv, PidTypes, Idle
  <2>3. stage' \in [Actors -> Stages]
    BY <1>3 DEF PidInv, PidTypes, Stages
  <2>4. work' \in [Actors -> WorkRecords]
    <3>1. 0 \in 0 .. (pid_max - 1)
      BY DEF PidConstantsOK
    <3>2. [Idle EXCEPT !.pid = idr[n][i]] \in WorkRecords
      BY <2>1, <3>1 DEF Idle, WorkRecords, LevelLists, Nss
    <3> QED BY <1>3, <3>2 DEF PidInv, PidTypes
  <2>5. \A z : Holders(z)' = Holders(z)
    BY <1>1, <2>2 DEF Holders
  <2>6. ASSUME NEW b \in Actors, stage'[b] \in {"found", "held"} PROVE HandShape(b)'
    <3>1. CASE b = a
      BY <1>1, <2>1, <2>2, <3>1 DEF HandShape
    <3>2. CASE b # a
      BY <1>1, <2>2, <2>6, <3>2 DEF PidInv, Forks, HandShape
    <3> QED BY <3>1, <3>2
  <2>7. \A b \in Actors : /\ Forking(b)' <=> Forking(b)
                          /\ Forking(b) => stage'[b] = stage[b] /\ work'[b] = work[b]
    BY <1>1, <2>2 DEF Forking, ForkStages
  <2>8. PICK x \in Pids : TRUE
    BY DEF PidConstantsOK
  <2>9. pid[x] \in PidRecords /\ pid' = [pid EXCEPT ![x] = pid[x]]
    BY <1>1 DEF PidInv, PidTypes
  <2>10. \A z \in Pids : pid'[z].count = (IF pid'[z].state \in {"hashed", "grace"} THEN 1 ELSE 0)
                                         + Cardinality(Holders(z)')
    BY <1>1, <2>5 DEF PidInv, Counted
  <2> QED BY <1>1, <2>3, <2>4, <2>6, <2>7, <2>9, <2>10, CountOnly
<1> QED BY <1>1, <1>2, <1>3

\* How many hold a pid when one more does, or one less.
LEMMA HoldersStep ==
  ASSUME PidConstantsOK, NEW a \in Actors, NEW x \in Pids, NEW was, NEW is,
         \A b \in Actors : b # a => stage'[b] = stage[b] /\ work'[b] = work[b],
         work[a].pid = x, stage[a] = was, stage'[a] = is, is = "held" => work'[a].pid = x
  PROVE  /\ \A z : z # x => Holders(z)' = Holders(z)
         /\ is = "held" /\ was # "held" => Cardinality(Holders(x)') = Cardinality(Holders(x)) + 1
         /\ is # "held" /\ was = "held" => /\ Cardinality(Holders(x)') = Cardinality(Holders(x)) - 1
                                           /\ Holders(x)' = Holders(x) \ {a}
<1>1. \A z : z # x => Holders(z)' = Holders(z)
  BY DEF Holders
<1>2. ASSUME is = "held", was # "held"
      PROVE  Cardinality(Holders(x)') = Cardinality(Holders(x)) + 1
  <2>1. Holders(x)' = Holders(x) \cup {a} /\ a \notin Holders(x)
    BY <1>2 DEF Holders
  <2> QED BY <2>1, HoldersFinite, FS_AddElement
<1>3. ASSUME is # "held", was = "held"
      PROVE  /\ Cardinality(Holders(x)') = Cardinality(Holders(x)) - 1
             /\ Holders(x)' = Holders(x) \ {a}
  <2>1. Holders(x)' = Holders(x) \ {a} /\ a \in Holders(x)
    BY <1>3 DEF Holders
  <2>2. Cardinality(Holders(x) \ {a}) = Cardinality(Holders(x)) - 1
    BY <2>1, HoldersFinite, FS_RemoveElement
  <2> QED BY <2>1, <2>2
<1> QED BY <1>1, <1>2, <1>3

LEMMA GetPidInv ==
  ASSUME PidConstantsOK, PidInv, NEW a \in Actors, GetPid(a)
  PROVE  PidInv'
<1>a. work[a].pid \in Pids /\ pid[work[a].pid].state \in {"hashed", "grace"}
  BY DEF GetPid, PidInv, Forks, HandShape
<1>x. PICK x \in Pids : x = work[a].pid
  BY <1>a
<1> DEFINE p == [pid[x] EXCEPT !.count = @ + 1]
<1>1. /\ stage[a] = "found" /\ pid' = [pid EXCEPT ![x] = p] /\ stage' = [stage EXCEPT ![a] = "held"]
      /\ UNCHANGED <<nsVars, task, group, warned>> /\ work' = work
  BY <1>x DEF GetPid, AtStage
<1>2. x \in Pids /\ pid[x].state \in {"hashed", "grace"} /\ work[a].pid = x
  BY <1>a, <1>x
<1>3. /\ p \in PidRecords /\ p.state = pid[x].state /\ p.count = pid[x].count + 1
      /\ p.ns = pid[x].ns /\ p.nr = pid[x].nr /\ p.tasks = pid[x].tasks
  <2>1. pid[x] \in PidRecords
    BY DEF PidInv, PidTypes
  <2> QED BY <2>1 DEF PidRecords
<1> HIDE DEF p
<1>4. pid'[x] = p /\ \A z \in Pids : z # x => pid'[z] = pid[z]
  BY <1>1, <1>2 DEF PidInv, PidTypes
<1>5. /\ stage'[a] = "held" /\ work'[a].pid = x
      /\ \A b \in Actors : b # a => stage'[b] = stage[b] /\ work'[b] = work[b]
      /\ stage' \in [Actors -> Stages] /\ work' \in [Actors -> WorkRecords]
  BY <1>1, <1>2 DEF PidInv, PidTypes, Stages
<1>6. /\ \A z : z # x => Holders(z)' = Holders(z)
      /\ Cardinality(Holders(x)') = Cardinality(Holders(x)) + 1
  BY <1>1, <1>2, <1>5, HoldersStep
<1>7. ASSUME NEW b \in Actors, stage'[b] \in {"found", "held"} PROVE HandShape(b)'
  <2>1. stage[b] \in {"found", "held"} /\ HandShape(b) /\ work'[b] = work[b]
    BY <1>1, <1>5, <1>7 DEF PidInv, Forks
  <2>2. pid'[work[b].pid].state = pid[work[b].pid].state
    BY <1>3, <1>4, <2>1 DEF HandShape
  <2>3. CASE b = a
    BY <1>2, <1>5, <2>1, <2>2, <2>3 DEF HandShape
  <2>4. CASE b # a
    BY <1>5, <2>1, <2>2, <2>4 DEF HandShape
  <2> QED BY <2>3, <2>4
<1>8. \A z \in Pids : pid'[z].count = (IF pid'[z].state \in {"hashed", "grace"} THEN 1 ELSE 0)
                                      + Cardinality(Holders(z)')
  <2>1. \A z \in Pids : z # x => pid'[z].count =
          (IF pid'[z].state \in {"hashed", "grace"} THEN 1 ELSE 0) + Cardinality(Holders(z)')
    BY <1>4, <1>6 DEF PidInv, Counted
  <2>2. pid'[x].count = 1 + Cardinality(Holders(x)') /\ pid'[x].state \in {"hashed", "grace"}
    BY <1>2, <1>3, <1>4, <1>6, HoldersFinite DEF PidInv, Counted
  <2> QED BY <2>1, <2>2 DEF Holders
<1>9. \A b \in Actors : /\ Forking(b)' <=> Forking(b)
                        /\ Forking(b) => stage'[b] = stage[b] /\ work'[b] = work[b]
  BY <1>1, <1>5 DEF Forking, ForkStages
<1> QED BY <1>1, <1>2, <1>3, <1>5, <1>7, <1>8, <1>9, CountOnly

LEMMA PutPidInv ==
  ASSUME PidConstantsOK, PidInv, NEW a \in Actors, PutPid(a)
  PROVE  PidInv'
<1>a. work[a].pid \in Pids /\ pid[work[a].pid].state \in {"hashed", "grace", "put"}
  BY DEF PutPid, PidInv, Forks, HandShape
<1>x. PICK x \in Pids : x = work[a].pid
  BY <1>a
<1> DEFINE p == Dropped(pid[x])
<1>1. /\ stage[a] = "held" /\ pid' = [pid EXCEPT ![x] = p] /\ stage' = [stage EXCEPT ![a] = "idle"]
      /\ UNCHANGED <<nsVars, task, group, warned>> /\ work' = [work EXCEPT ![a] = Idle]
  BY <1>x DEF PutPid, Done, AtStage, WorksOn
<1>2. /\ pid[x].state \in {"hashed", "grace", "put"} /\ pid[x] \in PidRecords /\ work[a].pid = x
  BY <1>a, <1>x DEF PidInv, PidTypes
<1>3. /\ stage'[a] = "idle" /\ \A b \in Actors : b # a => stage'[b] = stage[b] /\ work'[b] = work[b]
      /\ stage' \in [Actors -> Stages] /\ work' \in [Actors -> WorkRecords]
  <2>1. 0 \in 0 .. (pid_max - 1)
    BY DEF PidConstantsOK
  <2>2. Idle \in WorkRecords
    BY <2>1 DEF Idle, WorkRecords, LevelLists, Nss
  <2>3. work' \in [Actors -> WorkRecords]
    BY <1>1, <2>2 DEF PidInv, PidTypes
  <2> QED BY <1>1, <2>3 DEF PidInv, PidTypes, Stages
<1>4. /\ \A z : z # x => Holders(z)' = Holders(z)
      /\ Cardinality(Holders(x)') = Cardinality(Holders(x)) - 1 /\ Holders(x)' = Holders(x) \ {a}
  BY <1>1, <1>2, <1>3, HoldersStep
<1>5. /\ pid[x].count = (IF pid[x].state \in {"hashed", "grace"} THEN 1 ELSE 0)
                        + Cardinality(Holders(x)') + 1
      /\ Cardinality(Holders(x)') \in Nat
  <2>1. IsFiniteSet(Holders(x)')
    BY <1>4, HoldersFinite, FS_RemoveElement
  <2>2. Cardinality(Holders(x)') \in Nat
    BY <2>1, FS_CardinalityType
  <2>3. pid[x].count = (IF pid[x].state \in {"hashed", "grace"} THEN 1 ELSE 0)
                       + Cardinality(Holders(x))
    BY <1>2 DEF PidInv, Counted
  <2> QED BY <1>4, <2>2, <2>3, HoldersFinite
\* Only the last that holds a pid which has been freed gives it back.
<1>6. /\ p \in PidRecords
      /\ p # NoPid => /\ p.state = pid[x].state /\ p.count = pid[x].count - 1
                      /\ p.ns = pid[x].ns /\ p.nr = pid[x].nr /\ p.tasks = pid[x].tasks
      /\ p = NoPid => pid[x].state = "put" /\ Cardinality(Holders(x)') = 0
                      /\ p.state = "free" /\ p.count = 0
  <2>1. CASE pid[x].count = 1
    <3>1. p = NoPid /\ p \in PidRecords /\ p.state = "free" /\ p.count = 0
      BY <1>2, <2>1, DroppedFacts
    <3> HIDE DEF p
    <3> QED BY <1>2, <1>5, <2>1, <3>1
  <2>2. CASE pid[x].count # 1
    <3>1. /\ p \in PidRecords /\ p.state = pid[x].state /\ p.count = pid[x].count - 1
          /\ p.ns = pid[x].ns /\ p.nr = pid[x].nr /\ p.tasks = pid[x].tasks
      BY <1>2, <2>2, DroppedFacts
    <3>2. p # NoPid
      BY <1>2, <3>1, DroppedFacts
    <3> QED BY <3>1, <3>2
  <2> QED BY <2>1, <2>2
<1> HIDE DEF p
<1>7. pid'[x] = p /\ \A z \in Pids : z # x => pid'[z] = pid[z]
  BY <1>1, <1>2 DEF PidInv, PidTypes
<1>8. ASSUME NEW b \in Actors, stage'[b] \in {"found", "held"} PROVE HandShape(b)'
  <2>1. HandShape(b) /\ b # a /\ work'[b] = work[b] /\ stage'[b] = stage[b]
    BY <1>3, <1>8 DEF PidInv, Forks
  <2>2. CASE work[b].pid = x /\ p = NoPid
    <3>1. stage[b] = "held"
      BY <1>6, <1>8, <2>1, <2>2 DEF HandShape
    <3>2. b \in Holders(x)'
      BY <2>1, <2>2, <3>1 DEF Holders
    <3>3. IsFiniteSet(Holders(x)')
      BY <1>4, HoldersFinite, FS_RemoveElement
    <3> QED BY <1>6, <2>2, <3>2, <3>3, FS_EmptySet
  <2>3. CASE ~(work[b].pid = x /\ p = NoPid)
    BY <1>6, <1>7, <2>1, <2>3 DEF HandShape
  <2> QED BY <2>2, <2>3
<1>9. \A z \in Pids : pid'[z].count = (IF pid'[z].state \in {"hashed", "grace"} THEN 1 ELSE 0)
                                      + Cardinality(Holders(z)')
  <2>1. \A z \in Pids : z # x => pid'[z].count =
          (IF pid'[z].state \in {"hashed", "grace"} THEN 1 ELSE 0) + Cardinality(Holders(z)')
    BY <1>4, <1>7 DEF PidInv, Counted
  <2>2. pid'[x].count = (IF pid'[x].state \in {"hashed", "grace"} THEN 1 ELSE 0)
                        + Cardinality(Holders(x)')
    BY <1>2, <1>5, <1>6, <1>7
  <2> QED BY <2>1, <2>2 DEF Holders
<1>10. \A b \in Actors : /\ Forking(b)' <=> Forking(b)
                         /\ Forking(b) => stage'[b] = stage[b] /\ work'[b] = work[b]
  BY <1>1, <1>3 DEF Forking, ForkStages
<1>11. \/ p.state = pid[x].state /\ p.ns = pid[x].ns /\ p.nr = pid[x].nr /\ p.tasks = pid[x].tasks
       \/ pid[x].state \in {"grace", "put"} /\ p = NoPid
  BY <1>6
<1> QED BY <1>1, <1>2, <1>3, <1>6, <1>8, <1>9, <1>10, <1>11, CountOnly

-----------------------------------------------------------------------------
(* zap_pid_ns_processes()                                                    *)

LEMMA ZapBeginInv ==
  ASSUME PidConstantsOK, PidInv, ZapBegin
  PROVE  PidInv'
<1>1. /\ UNCHANGED <<idr, pid_allocated, child_reaper, pid, task, group, stage, work, warned>>
      /\ adding' = [adding EXCEPT !["sub"] = FALSE] /\ zap = "none" /\ zap' = "kill"
      /\ child_reaper["sub"] # Nil
  BY DEF ZapBegin, ZapStep
<1>2. adding' \in [Nss -> BOOLEAN] /\ ~adding'["sub"]
  BY <1>1, NssFacts DEF PidInv, PidTypes
<1>3. /\ PidTypes' /\ Forks' /\ Numbered' /\ Counted' /\ Listed' /\ Grouped'
      /\ \A n : Reaps(n)' = Reaps(n)
  BY <1>1, <1>2, ZapFrame
<1>4. Reapers'
  BY <1>1, <1>2, <1>3 DEF PidInv, Reapers, ReaperLast
<1> QED BY <1>3, <1>4 DEF PidInv

LEMMA ZapKillInv ==
  ASSUME PidConstantsOK, PidInv, ZapKill
  PROVE  PidInv'
<1>1. /\ UNCHANGED <<idr, pid_allocated, child_reaper, pid, task, group, stage, work, warned>>
      /\ adding' = adding /\ zap = "kill" /\ zap' = "awake"
  BY DEF ZapKill, ZapStep
<1>2. adding' \in [Nss -> BOOLEAN]
  BY <1>1 DEF PidInv, PidTypes
<1>3. /\ PidTypes' /\ Forks' /\ Numbered' /\ Counted' /\ Listed' /\ Grouped'
      /\ \A n : Reaps(n)' = Reaps(n)
  BY <1>1, <1>2, ZapFrame
<1>4. Reapers'
  BY <1>1, <1>3 DEF PidInv, Reapers, ReaperLast
<1> QED BY <1>3, <1>4 DEF PidInv

\* One pid is left in "sub", and the reaper has one: nobody else is there.
LEMMA ZapCheckInv ==
  ASSUME PidConstantsOK, PidInv, ZapCheck
  PROVE  PidInv'
<1>1. /\ UNCHANGED <<idr, pid_allocated, child_reaper, pid, task, group, stage, work, warned>>
      /\ adding' = adding /\ zap = "awake"
      /\ zap' = IF pid_allocated["sub"] = 1 THEN "done" ELSE "asleep"
  BY DEF ZapCheck, ZapStep
<1>2. adding' \in [Nss -> BOOLEAN] /\ zap' \in {"done", "asleep"}
  BY <1>1 DEF PidInv, PidTypes
<1>3. /\ PidTypes' /\ Forks' /\ Numbered' /\ Counted' /\ Listed' /\ Grouped'
      /\ \A k : InSub(k)' = InSub(k)
      /\ \A n : Reaps(n)' = Reaps(n)
  BY <1>1, <1>2, ZapFrame
<1>4. ASSUME pid_allocated["sub"] = 1, NEW k \in Kids, InSub(k)
      PROVE  k = child_reaper["sub"]
  <2> DEFINE r == child_reaper["sub"]
  <2>1. r \in Kids /\ Live(r) /\ NsOf(r) = "sub"
    BY <1>1 DEF PidInv, Reapers, Reaps, Leads
  <2>2. Cardinality(HashedIn("sub")) = 1
    BY <1>4, NssFacts DEF PidInv, Counted
  <2>3. PICK x : HashedIn("sub") = {x}
    BY <2>2, HashedFinite, FS_Singleton
  <2>4. "sub" \in Levels("sub")
    BY NssFacts
  <2>5. task[r].pid \in HashedIn("sub")
    BY <2>1, <2>4, ListFacts DEF HashedIn, NsOf
  <2>6. task[k].pid \in HashedIn("sub")
    BY <1>4, <2>4, ListFacts DEF HashedIn, NsOf, InSub
  <2> QED BY <1>4, <2>1, <2>3, <2>5, <2>6 DEF PidInv, Listed, InSub
<1>5. ReaperLast'
  BY <1>1, <1>3, <1>4 DEF ReaperLast
<1>6. Reapers'
  BY <1>1, <1>3, <1>5 DEF PidInv, Reapers
<1> QED BY <1>3, <1>6 DEF PidInv

-----------------------------------------------------------------------------
(* Steps of alloc_pid(): one pid, which has no task                          *)

LEMMA LevelFacts ==
  /\ Wanting(<<>>) = {} /\ Wanting(<<"root">>) = {"root"} /\ Wanting(<<"sub", "root">>) = Nss
  /\ \A l \in LevelLists : l # <<>> =>
       /\ Head(l) \in Nss /\ Tail(l) \in LevelLists
       /\ Head(l) \notin Wanting(Tail(l)) /\ Wanting(l) = {Head(l)} \cup Wanting(Tail(l))
<1>1. <<"root">> # <<>> /\ <<"sub", "root">> # <<>> /\ <<"sub", "root">> # <<"root">>
  OBVIOUS
<1>2. /\ Wanting(<<>>) = {} /\ Wanting(<<"root">>) = {"root"} /\ Wanting(<<"sub", "root">>) = Nss
  BY <1>1 DEF Wanting
<1>3. /\ Head(<<"root">>) = "root" /\ Tail(<<"root">>) = <<>>
      /\ Head(<<"sub", "root">>) = "sub" /\ Tail(<<"sub", "root">>) = <<"root">>
  OBVIOUS
<1> QED BY <1>2, <1>3 DEF LevelLists, Nss

\* The call a has begun, goes on or ends, and its pid x becomes p.
ForkStep(a, x, p) ==
  /\ pid' = [pid EXCEPT ![x] = p]
  /\ pid[x].state \in {"free", "new"} /\ p.state \in {"free", "new", "hashed"}
  /\ \A b \in Actors : Forking(b) /\ work[b].pid = x => b = a
  /\ \A b \in Actors : b # a => stage'[b] = stage[b] /\ work'[b] = work[b]
  /\ stage[a] \in {"idle", "alloc", "unwind"} /\ stage'[a] \in ForkStages \cup {"idle"}
  /\ stage' \in [Actors -> Stages] /\ work' \in [Actors -> WorkRecords]
  /\ UNCHANGED <<adding, child_reaper, zap, task, group, warned>>
  /\ Forking(a)' => ForkShape(a)' /\ work'[a].pid = x
  /\ \A y \in Types : p.tasks[y] = {}
  /\ p.state = "hashed" <=> stage'[a] = "attach"
  /\ p.count = IF p.state = "hashed" THEN 1 ELSE 0
  /\ idr' \in [Nss -> [Numbers -> Pids \cup {Nil, Reserved}]]
  /\ pid_allocated' \in [Nss -> Int]
  /\ \A n \in Nss : pid_allocated'[n] = Cardinality(HashedIn(n)')

LEMMA OneFork ==
  ASSUME PidConstantsOK, PidInv, NEW a \in Actors, NEW x \in Pids, NEW p \in PidRecords,
         ForkStep(a, x, p), Numbered'
  PROVE  PidInv'
<1> USE DEF ForkStep
<1>1. pid'[x] = p /\ \A z \in Pids : z # x => pid'[z] = pid[z]
  BY DEF PidInv, PidTypes
<1>2. PidTypes'
  BY DEF PidInv, PidTypes
<1>3. \A b \in Actors : b # a => /\ Forking(b)' <=> Forking(b)
                                 /\ Forking(b) => work[b].pid # x /\ ForkShape(b)
  BY DEF Forking, PidInv, Forks
<1>4. \A k, y : ListedUnder(k, y)' = ListedUnder(k, y) /\ Live(k)' = Live(k)
  BY DEF ListedUnder, Live, Leads
<1>5. ASSUME NEW b \in Actors, Forking(b)' PROVE ForkShape(b)'
  <2>1. CASE b # a
    <3>1. /\ Forking(b) /\ work[b].pid # x /\ ForkShape(b)
          /\ stage'[b] = stage[b] /\ work'[b] = work[b]
      BY <1>3, <1>5, <2>1
    <3>2. work[b].pid \in Pids /\ pid'[work[b].pid] = pid[work[b].pid] /\ Live(work[b].by)
      BY <1>1, <3>1 DEF ForkShape
    <3>3. Live(work[b].by)'
      BY <3>1, <3>2 DEF Live
    <3> QED BY <3>1, <3>2, <3>3, ForkKept
  <2> QED BY <1>5, <2>1
<1>6. ASSUME NEW b \in Actors, stage'[b] \in {"found", "held"} PROVE HandShape(b)'
  <2>1. b # a
    BY <1>6 DEF ForkStages
  <2>2. HandShape(b) /\ stage'[b] = stage[b] /\ work'[b] = work[b]
    BY <1>6, <2>1 DEF PidInv, Forks
  <2>3. work[b].pid # x
    BY <2>2 DEF HandShape
  <2> QED BY <1>1, <2>2, <2>3 DEF HandShape
<1>7. ASSUME NEW b \in Actors, NEW c \in Actors, Forking(b)', Forking(c)',
             work'[b].pid = work'[c].pid
      PROVE  b = c
  <2>1. CASE b # a /\ c # a
    BY <1>3, <1>7, <2>1 DEF PidInv, Forks
  <2>2. CASE b = a \/ c = a
    BY <1>3, <1>7, <2>2
  <2> QED BY <2>1, <2>2
<1>8. Forks'
  BY <1>5, <1>6, <1>7 DEF Forks
<1>9. Counted'
  <2>1. ASSUME NEW z \in Pids PROVE Holders(z)' = Holders(z)
    BY DEF Holders, ForkStages
  <2>2. Holders(x) = {}
    BY DEF Holders, PidInv, Forks, HandShape
  <2>3. Cardinality(Holders(x)) = 0
    BY <2>2, FS_EmptySet
  <2>4. pid'[x].count = (IF pid'[x].state \in {"hashed", "grace"} THEN 1 ELSE 0)
                        + Cardinality(Holders(x))
    BY <1>1, <2>3
  <2>5. ASSUME NEW z \in Pids
        PROVE  pid'[z].count = (IF pid'[z].state \in {"hashed", "grace"} THEN 1 ELSE 0)
                               + Cardinality(Holders(z))
    BY <1>1, <2>4 DEF PidInv, Counted
  <2> QED BY <2>1, <2>5 DEF Counted
<1>10. Listed'
  <2>1. \A y \in Types : pid'[x].tasks[y] = pid[x].tasks[y]
    BY <1>1, NoTasks
  <2>2. \A z \in Pids : z # x =>
          ((\E b \in Actors : stage'[b] = "attach" /\ work'[b].pid = z)
           <=> (\E b \in Actors : stage[b] = "attach" /\ work[b].pid = z))
    BY DEF Forking, ForkStages
  <2>3. pid'[x].state = "hashed" <=> \E b \in Actors : stage'[b] = "attach" /\ work'[b].pid = x
    BY <1>1, <1>3 DEF Forking, ForkStages
  <2>4. \A y \in Types : pid'[x].tasks[y] = {}
    BY <1>1
  <2>5. \A z \in Pids, y \in Types : pid'[z].tasks[y] = pid[z].tasks[y]
    BY <1>1, <2>1
  <2>6. \A z \in Pids : pid'[z].state = "hashed" <=>
          \/ \E y \in Types : pid'[z].tasks[y] # {}
          \/ \E b \in Actors : stage'[b] = "attach" /\ work'[b].pid = z
    <3>1. \A z \in Pids : z # x => (pid'[z].state = "hashed" <=>
            \/ \E y \in Types : pid'[z].tasks[y] # {}
            \/ \E b \in Actors : stage'[b] = "attach" /\ work'[b].pid = z)
      BY <1>1, <2>2 DEF PidInv, Listed
    <3> QED BY <2>3, <2>4, <3>1
  <2>7. \A z \in Pids, y \in Types : pid'[z].tasks[y] = {k \in Kids : ListedUnder(k, y)' = z}
    BY <1>4, <2>5 DEF PidInv, Listed
  <2>8. \A j, k \in Kids : Live(k)' /\ task'[j].pid = task'[k].pid => j = k
    BY <1>4 DEF PidInv, Listed
  <2> QED BY <2>6, <2>7, <2>8 DEF Listed
<1>11. /\ Grouped'
       /\ \A k \in Kids : InSub(k)' = InSub(k)
       /\ \A n \in Nss : Reaps(n) => Reaps(n)'
  BY <1>1, TasksKept
<1>12. Reapers'
  BY <1>11, NssFacts DEF PidInv, Reapers, ReaperLast
<1> QED BY <1>2, <1>8, <1>9, <1>10, <1>11, <1>12 DEF PidInv

\* The least of a set of numbers.
LEMMA LessOnNat ==
  \E R : IsWellFoundedOn(R, Nat) /\ \A i, j \in Nat : i < j => <<i, j>> \in R
<1>1. IsWellFoundedOn(OpToRel(<, Nat), Nat)
  BY NatLessThanWellFounded
<1>2. \A i, j \in Nat : i < j => <<i, j>> \in OpToRel(<, Nat)
  BY DEF OpToRel
<1> QED BY <1>1, <1>2, Zenon

LEMMA LeastNumber ==
  ASSUME NEW S, S \subseteq Nat, S # {}
  PROVE  Min(S) \in S
<1>1. PICK R : IsWellFoundedOn(R, Nat) /\ \A i, j \in Nat : i < j => <<i, j>> \in R
  BY LessOnNat
<1>2. PICK m \in S : \A j \in S : <<j, m>> \notin R
  <2>1. \A T : IsWellFoundedOn(R, Nat) /\ T \subseteq Nat /\ T # {}
                => \E x \in T : \A y \in T : <<y, x>> \notin R
    BY WFMin, Zenon
  <2> QED BY <1>1, <2>1, Zenon
<1>3. ASSUME NEW j \in S PROVE m <= j
  <2>1. j \in Nat /\ m \in Nat /\ <<j, m>> \notin R
    BY <1>2
  <2>2. ~(j < m)
    BY <1>1, <2>1, Zenon
  <2> QED BY <2>1, <2>2
<1> QED BY <1>3 DEF Min

LEMMA CyclicFree ==
  ASSUME PidConstantsOK, NEW n \in Nss, Cyclic(n) # 0
  PROVE  Cyclic(n) \in Numbers /\ idr[n][Cyclic(n)] = Nil
<1> DEFINE start == IF cursor[n] > RESERVED_PIDS THEN RESERVED_PIDS ELSE 1
           above == FreeNumbers(n, Max({start, cursor[n]}))
           all == FreeNumbers(n, start)
<1>1. \A from : FreeNumbers(n, from) \subseteq Nat
  BY NssFacts DEF FreeNumbers
<1>2. Cyclic(n) = IF above # {} THEN Min(above) ELSE IF all # {} THEN Min(all) ELSE 0
  BY DEF Cyclic
<1>3. \A i \in above \cup all : i \in Numbers /\ idr[n][i] = Nil
  BY DEF FreeNumbers
<1>4. above \subseteq Nat /\ all \subseteq Nat
  BY <1>1
<1> HIDE DEF above, all
<1>5. Cyclic(n) \in above \cup all
  <2>1. CASE above # {}
    BY <1>2, <1>4, <2>1, LeastNumber
  <2>2. CASE above = {}
    BY <1>2, <1>4, <2>2, LeastNumber
  <2> QED BY <2>1, <2>2
<1> QED BY <1>3, <1>5

LEMMA AllocBeginInv ==
  ASSUME PidConstantsOK, PidInv, NEW a \in Actors, AllocBegin(a)
  PROVE  PidInv'
<1>p. PICK call \in {"fork", "fork_sub", "set_tid", "thread"}, x \in Pids, k \in Kids,
           tid \in 0 .. (pid_max - 1) :
        LET m == IF call = "fork_sub" THEN "sub" ELSE NsOf(k)
        IN /\ stage[a] = "idle" /\ Live(k)
           /\ work' = [work EXCEPT ![a] =
                [ns |-> m, levels |-> IF m = "sub" THEN <<"sub", "root">> ELSE <<"root">>,
                 tid |-> tid, pid |-> x, by |-> k, thread |-> call = "thread"]]
           /\ pid[x] = NoPid
           /\ pid' = [pid EXCEPT ![x] = [NoPid EXCEPT !.state = "new", !.ns = m]]
           /\ stage' = [stage EXCEPT ![a] = "alloc"]
  <2>1. PICK call \in {"fork", "fork_sub", "set_tid", "thread"}, x \in Pids, k \in Kids :
          LET m == IF call = "fork_sub" THEN "sub" ELSE NsOf(k)
          IN /\ Asked(a, call) /\ Live(k)
             /\ \E tid \in IF call = "set_tid" THEN Numbers ELSE {0} :
                  work' = [work EXCEPT ![a] =
                    [ns |-> m, levels |-> IF m = "sub" THEN <<"sub", "root">> ELSE <<"root">>,
                     tid |-> tid, pid |-> x, by |-> k, thread |-> call = "thread"]]
             /\ pid[x] = NoPid
             /\ pid' = [pid EXCEPT ![x] = [NoPid EXCEPT !.state = "new", !.ns = m]]
             /\ stage' = [stage EXCEPT ![a] = "alloc"]
    BY Zenon DEF AllocBegin, WorksOn, AtStage
  <2>2. (IF call = "set_tid" THEN Numbers ELSE {0}) \subseteq 0 .. (pid_max - 1)
    BY NssFacts DEF PidConstantsOK
  <2>3. stage[a] = "idle"
    BY <2>1, Zenon DEF Asked
  <2> QED BY <2>1, <2>2, <2>3
<1>n. PICK n \in Nss : n = IF call = "fork_sub" THEN "sub" ELSE NsOf(k)
  <2>1. NsOf(k) \in Nss
    BY <1>p, ListFacts DEF PidInv, PidTypes, PidRecords, NsOf
  <2> QED BY <2>1 DEF Nss
<1>l. PICK l \in LevelLists : l = IF n = "sub" THEN <<"sub", "root">> ELSE <<"root">>
  BY DEF LevelLists
<1>1. /\ stage[a] = "idle" /\ Live(k) /\ pid[x] = NoPid
      /\ work' = [work EXCEPT ![a] = [ns |-> n, levels |-> l, tid |-> tid, pid |-> x, by |-> k,
                                      thread |-> call = "thread"]]
      /\ pid' = [pid EXCEPT ![x] = [NoPid EXCEPT !.state = "new", !.ns = n]]
      /\ stage' = [stage EXCEPT ![a] = "alloc"]
  BY <1>p, <1>n, <1>l
<1>2. UNCHANGED <<idr, pid_allocated, adding, child_reaper, zap, task, group, warned>>
  BY DEF AllocBegin, nsVars
<1>3. Wanting(l) = Levels(n)
  BY <1>l, LevelFacts DEF Levels, Nss
<1> DEFINE p == [NoPid EXCEPT !.state = "new", !.ns = n]
           w == [ns |-> n, levels |-> l, tid |-> tid, pid |-> x, by |-> k,
                 thread |-> call = "thread"]
<1>4. /\ p \in PidRecords /\ p.state = "new" /\ p.ns = n /\ p.count = 0
      /\ (\A y \in Types : p.tasks[y] = {}) /\ (\A m \in Nss : p.nr[m] = 0)
  <2>1. NoPid \in PidRecords
    BY NoPidFacts
  <2>2. p \in PidRecords
    BY <2>1 DEF PidRecords, PidStates
  <2>3. /\ p.state = "new" /\ p.ns = n /\ p.count = 0
        /\ (\A y \in Types : p.tasks[y] = {}) /\ (\A m \in Nss : p.nr[m] = 0)
    BY DEF NoPid
  <2> QED BY <2>2, <2>3
<1>5. w \in WorkRecords
  BY <1>1, <1>3 DEF WorkRecords
<1>6. pid' = [pid EXCEPT ![x] = p] /\ work' = [work EXCEPT ![a] = w]
  BY <1>1
<1>7. w.ns = n /\ w.levels = l /\ w.pid = x /\ w.by = k
  OBVIOUS
<1>8. pid[x].state = "free" /\ \A m \in Nss : pid[x].nr[m] = 0
  BY <1>1 DEF NoPid
<1> HIDE DEF p, w
<1>9. /\ pid'[x] = p /\ \A z \in Pids : z # x => pid'[z] = pid[z]
      /\ work'[a] = w /\ stage'[a] = "alloc"
      /\ \A b \in Actors : b # a => stage'[b] = stage[b] /\ work'[b] = work[b]
      /\ work' \in [Actors -> WorkRecords]
  BY <1>1, <1>5, <1>6 DEF PidInv, PidTypes
<1>10. stage' \in [Actors -> Stages]
  BY <1>1 DEF PidInv, PidTypes, Stages, ForkStages
<1>11. ASSUME NEW b \in Actors, Forking(b), work[b].pid = x PROVE b = a
  BY <1>8, <1>11 DEF PidInv, Forks, ForkShape
<1>12. ForkShape(a)'
  <2>1. work'[a].pid = x /\ work'[a].by = k /\ work'[a].ns = n /\ work'[a].levels = l
    BY <1>7, <1>9
  <2>2. Live(k)'
    BY <1>1, <1>2 DEF Live
  <2>3. Live(work[a].by)'
    BY <2>1, <2>2 DEF Live
  <2>4. \A m \in Levels(n) : m \in Nss
    BY NssFacts
  <2>5. pid'[work'[a].pid] = p /\ stage'[a] = "alloc"
    BY <1>9, <2>1
  <2>6. /\ work'[a].pid \in Pids /\ work'[a].by \in Kids
        /\ \A y \in Types : pid'[work'[a].pid].tasks[y] = {}
        /\ pid'[work'[a].pid].state = "new" /\ pid'[work'[a].pid].ns = work'[a].ns
    BY <1>4, <2>1, <2>5
  <2>7. Wanting(work'[a].levels) = Levels(work'[a].ns)
    BY <1>3, <2>1
  <2>8. ASSUME NEW m \in Levels(work'[a].ns) PROVE pid'[work'[a].pid].nr[m] = 0
    <3>1. m \in Nss
      BY <2>1, <2>4
    <3> QED BY <1>4, <2>5, <3>1
  <2> QED BY <2>3, <2>5, <2>6, <2>7, <2>8 DEF ForkShape
<1>13. Numbered'
  BY <1>2, <1>4, <1>8, <1>9, NssFacts DEF PidInv, Numbered
<1>14. \A m \in Nss : pid_allocated'[m] = Cardinality(HashedIn(m)')
  <2>1. \A m \in Nss : HashedIn(m)' = HashedIn(m)
    BY <1>4, <1>8, <1>9 DEF HashedIn
  <2> QED BY <1>2, <2>1 DEF PidInv, Counted
<1>15. idr' \in [Nss -> [Numbers -> Pids \cup {Nil, Reserved}]] /\ pid_allocated' \in [Nss -> Int]
  BY <1>2 DEF PidInv, PidTypes
<1>16. Forking(a)' => ForkShape(a)' /\ work'[a].pid = x
  BY <1>7, <1>9, <1>12
<1>17. ForkStep(a, x, p)
  BY <1>1, <1>2, <1>4, <1>6, <1>8, <1>9, <1>10, <1>11, <1>14, <1>15, <1>16 DEF ForkStep, ForkStages
<1> QED BY <1>4, <1>13, <1>17, OneFork

\* Nobody else uses the pid of a call, and no task has it yet.
LEMMA ForkFacts ==
  ASSUME PidConstantsOK, PidInv, NEW a \in Actors, Forking(a), NEW x \in Pids, x = work[a].pid
  PROVE  /\ ForkShape(a) /\ pid[x].ns = work[a].ns /\ pid[x] \in PidRecords /\ work[a] \in WorkRecords
         /\ work[a].ns \in Nss /\ work[a].levels \in LevelLists /\ work[a].by \in Kids
         /\ Live(work[a].by)
         /\ pid[x].state = IF stage[a] = "attach" THEN "hashed" ELSE "new"
         /\ \A y \in Types : pid[x].tasks[y] = {}
         /\ \A b \in Actors : Forking(b) /\ work[b].pid = x => b = a
         /\ pid[x].count = (IF pid[x].state \in {"hashed", "grace"} THEN 1 ELSE 0)
                           + Cardinality(Holders(x))
         /\ stage[a] # "attach" => pid[x].count = 0
<1>1. ForkShape(a) /\ pid[x] \in PidRecords /\ work[a] \in WorkRecords
  BY DEF PidInv, Forks, PidTypes
<1>2. /\ work[a].ns \in Nss /\ work[a].levels \in LevelLists
      /\ work[a].by \in Kids /\ Live(work[a].by) /\ pid[x].ns = work[a].ns
      /\ pid[x].state = IF stage[a] = "attach" THEN "hashed" ELSE "new"
      /\ \A y \in Types : pid[x].tasks[y] = {}
  BY <1>1 DEF ForkShape, WorkRecords
<1>3. \A b \in Actors : Forking(b) /\ work[b].pid = x => b = a
  BY DEF PidInv, Forks
<1>4. pid[x].count = (IF pid[x].state \in {"hashed", "grace"} THEN 1 ELSE 0)
                     + Cardinality(Holders(x))
  BY DEF PidInv, Counted
<1>5. ASSUME stage[a] # "attach" PROVE pid[x].count = 0
  <2>1. Holders(x) = {}
    BY <1>2, <1>5 DEF Holders, PidInv, Forks, HandShape
  <2> QED BY <1>2, <1>4, <1>5, <2>1, FS_EmptySet
<1> QED BY <1>1, <1>2, <1>3, <1>4, <1>5

\* What each step of such a call keeps.
LEMMA ForkStepIs ==
  ASSUME PidConstantsOK, PidInv, NEW a \in Actors, NEW x \in Pids, x = work[a].pid,
         stage[a] \in {"alloc", "unwind"}, NEW p \in PidRecords, NEW w \in WorkRecords,
         NEW s \in ForkStages \cup {"idle"},
         pid' = [pid EXCEPT ![x] = p], work' = [work EXCEPT ![a] = w],
         stage' = [stage EXCEPT ![a] = s],
         UNCHANGED <<adding, child_reaper, zap, task, group, warned>>,
         p.tasks = pid[x].tasks \/ p = NoPid,
         p.state = IF s = "idle" THEN "free" ELSE IF s = "attach" THEN "hashed" ELSE "new",
         p.count = IF s = "attach" THEN 1 ELSE 0,
         s # "idle" => /\ w.pid = x /\ w.by = work[a].by /\ w.ns = work[a].ns /\ p.ns = pid[x].ns,
         s = "alloc" => /\ Wanting(w.levels) \subseteq Levels(w.ns)
                        /\ \A n \in Levels(w.ns) : p.nr[n] = 0 <=> n \in Wanting(w.levels),
         idr' \in [Nss -> [Numbers -> Pids \cup {Nil, Reserved}]],
         pid_allocated' \in [Nss -> Int],
         \A n \in Nss : pid_allocated'[n] = Cardinality(HashedIn(n)'), Numbered'
  PROVE  PidInv'
<1>1. /\ Forking(a) /\ stage[a] \in ForkStages
      /\ \A b \in Actors : Forking(b) /\ work[b].pid = x => b = a
      /\ pid[x].state = "new" /\ (\A y \in Types : pid[x].tasks[y] = {})
      /\ pid[x].ns = work[a].ns /\ work[a].by \in Kids /\ Live(work[a].by)
  BY ForkFacts DEF Forking, ForkStages
<1>2. /\ pid'[x] = p /\ work'[a] = w /\ stage'[a] = s
      /\ \A b \in Actors : b # a => stage'[b] = stage[b] /\ work'[b] = work[b]
      /\ stage' \in [Actors -> Stages] /\ work' \in [Actors -> WorkRecords]
  BY DEF PidInv, PidTypes, Stages
<1>3. \A y \in Types : p.tasks[y] = {}
  BY <1>1 DEF NoPid
<1>4. ASSUME s # "idle" PROVE ForkShape(a)'
  <2>1. work'[a].pid = x /\ work'[a].by = work[a].by /\ work'[a].ns = work[a].ns
    BY <1>2, <1>4
  <2>2. Live(work[a].by)'
    BY <1>1, <2>1 DEF Live
  <2>3. /\ work'[a].pid \in Pids /\ work'[a].by \in Kids /\ pid'[work'[a].pid] = p
        /\ p.state = (IF stage'[a] = "attach" THEN "hashed" ELSE "new") /\ p.ns = work'[a].ns
    BY <1>1, <1>2, <1>4, <2>1
  <2> QED BY <1>2, <1>3, <2>2, <2>3 DEF ForkShape
<1>5. Forking(a)' => s # "idle"
  BY <1>2 DEF Forking, ForkStages
<1>6. ForkStep(a, x, p)
  BY <1>1, <1>2, <1>3, <1>4, <1>5 DEF ForkStep, ForkStages
<1> QED BY <1>6, OneFork

LEMMA AllocNumberInv ==
  ASSUME PidConstantsOK, PidInv, NEW a \in Actors, AllocNumber(a)
  PROVE  PidInv'
<1>1. stage[a] = "alloc" /\ work[a].levels # <<>> /\ Forking(a)
  BY DEF AllocNumber, Forking, ForkStages
<1>x. PICK x \in Pids : x = work[a].pid
  BY <1>1 DEF PidInv, Forks, ForkShape
<1>2. /\ ForkShape(a) /\ pid[x] \in PidRecords /\ work[a] \in WorkRecords
      /\ work[a].levels \in LevelLists /\ work[a].ns \in Nss /\ pid[x].state = "new"
      /\ pid[x].ns = work[a].ns /\ pid[x].count = 0
      /\ Wanting(work[a].levels) \subseteq Levels(work[a].ns)
      /\ \A m \in Levels(work[a].ns) : pid[x].nr[m] = 0 <=> m \in Wanting(work[a].levels)
  BY <1>1, <1>x, ForkFacts DEF ForkShape
<1>n. PICK n \in Nss : n = Head(work[a].levels)
  BY <1>1, <1>2, LevelFacts
<1>3. /\ n \in Wanting(work[a].levels) /\ n \notin Wanting(Tail(work[a].levels))
      /\ Wanting(work[a].levels) = {n} \cup Wanting(Tail(work[a].levels))
      /\ Tail(work[a].levels) \in LevelLists /\ n \in Levels(work[a].ns)
  BY <1>1, <1>2, <1>n, LevelFacts
<1>t. PICK tid \in 0 .. (pid_max - 1) : tid = IF n = work[a].ns THEN work[a].tid ELSE 0
  BY <1>2 DEF WorkRecords, PidConstantsOK
<1>r. PICK nr : nr = IF tid = 0 THEN Cyclic(n) ELSE IF idr[n][tid] = Nil THEN tid ELSE 0
  OBVIOUS
<1>4. nr # 0 => nr \in Numbers /\ idr[n][nr] = Nil
  BY <1>r, CyclicFree, NssFacts
<1>5. UNCHANGED <<pid_allocated, adding, child_reaper, zap, task, group, warned>>
  BY DEF AllocNumber
<1>6. pid_allocated' \in [Nss -> Int] /\ \A m \in Nss : pid_allocated[m] = Cardinality(HashedIn(m))
  BY <1>5 DEF PidInv, PidTypes, Counted
<1>7. CASE stage' = [stage EXCEPT ![a] = "unwind"] /\ UNCHANGED <<idr, pid, work>>
  <2>1. pid' = [pid EXCEPT ![x] = pid[x]] /\ work' = [work EXCEPT ![a] = work[a]]
    BY <1>7 DEF PidInv, PidTypes
  <2>2. Numbered' /\ idr' \in [Nss -> [Numbers -> Pids \cup {Nil, Reserved}]]
    BY <1>7 DEF PidInv, PidTypes, Numbered
  <2>3. \A m \in Nss : pid_allocated'[m] = Cardinality(HashedIn(m)')
    <3>1. \A m \in Nss : HashedIn(m)' = HashedIn(m)
      BY <1>7 DEF HashedIn
    <3> QED BY <1>5, <3>1 DEF PidInv, Counted
  <2>4. "unwind" \in ForkStages \cup {"idle"} /\ stage[a] \in {"alloc", "unwind"} /\ work[a].pid = x
    BY <1>1, <1>x DEF ForkStages
  <2>5. stage' = [stage EXCEPT ![a] = "unwind"]
    BY <1>7
  <2> QED BY <1>2, <1>5, <1>6, <1>x, <2>1, <2>2, <2>3, <2>4, <2>5, ForkStepIs
<1>8. CASE /\ nr # 0
           /\ idr' = [idr EXCEPT ![n][nr] = Reserved]
           /\ pid' = [pid EXCEPT ![x].nr[n] = nr]
           /\ work' = [work EXCEPT ![a] = [work[a] EXCEPT !.levels = Tail(@)]]
           /\ stage' = stage
  <2> DEFINE p == [pid[x] EXCEPT !.nr[n] = nr]
             w == [work[a] EXCEPT !.levels = Tail(@)]
  <2>1. nr \in Numbers /\ nr \in 0 .. (pid_max - 1) /\ idr[n][nr] = Nil
    BY <1>4, <1>8, NssFacts
  <2>2. /\ p \in PidRecords /\ p.state = "new" /\ p.ns = pid[x].ns /\ p.count = 0
        /\ p.tasks = pid[x].tasks
        /\ p.nr[n] = nr /\ \A m \in Nss : m # n => p.nr[m] = pid[x].nr[m]
    BY <1>2, <2>1 DEF PidRecords
  <2>3. /\ w \in WorkRecords /\ w.pid = x /\ w.by = work[a].by /\ w.ns = work[a].ns
        /\ w.levels = Tail(work[a].levels)
    BY <1>2, <1>3, <1>x DEF WorkRecords
  <2>4. /\ pid' = [pid EXCEPT ![x] = p] /\ work' = [work EXCEPT ![a] = w]
        /\ stage' = [stage EXCEPT ![a] = "alloc"]
    BY <1>1, <1>8 DEF PidInv, PidTypes
  <2> HIDE DEF p, w
  <2>5. /\ Wanting(w.levels) \subseteq Levels(w.ns)
        /\ \A m \in Levels(w.ns) : p.nr[m] = 0 <=> m \in Wanting(w.levels)
    <3>1. \A m \in Levels(w.ns) : m \in Nss
      BY <1>2, <2>3, NssFacts
    <3>2. nr # 0
      BY <1>8
    <3> QED BY <1>2, <1>3, <2>2, <2>3, <3>1, <3>2
  <2>6. pid'[x] = p /\ \A z \in Pids : z # x => pid'[z] = pid[z]
    BY <2>4 DEF PidInv, PidTypes
  <2>7. /\ idr' \in [Nss -> [Numbers -> Pids \cup {Nil, Reserved}]]
        /\ idr'[n][nr] = Reserved
        /\ \A m \in Nss, i \in Numbers : m # n \/ i # nr => idr'[m][i] = idr[m][i]
    BY <1>8, <2>1 DEF PidInv, PidTypes
  <2>8. Numbered'
    <3>1. ASSUME NEW z \in Pids, z # x, NEW m \in Nss, pid[z].nr[m] # 0,
                 pid[z].state \in {"new", "hashed"}, m \in Levels(pid[z].ns)
          PROVE  idr'[m][pid[z].nr[m]] = idr[m][pid[z].nr[m]] /\ ~(m = n /\ pid[z].nr[m] = nr)
      <4>1. pid[z].nr[m] \in Numbers
        BY <3>1, NssFacts DEF PidInv, PidTypes, PidRecords
      <4>2. idr[m][pid[z].nr[m]] \in {Reserved, z}
        BY <3>1 DEF PidInv, Numbered
      <4>3. idr[m][pid[z].nr[m]] # Nil
        BY <4>2 DEF PidConstantsOK
      <4> QED BY <2>1, <2>7, <4>1, <4>3
    <3>2. ASSUME NEW m \in Nss, p.nr[m] # 0
          PROVE  m \in Levels(p.ns) /\ idr'[m][p.nr[m]] = Reserved
      <4>1. CASE m = n
        BY <1>2, <1>3, <2>2, <2>7, <4>1
      <4>2. CASE m # n
        <5>1. p.nr[m] \in Numbers
          BY <2>2, <3>2, NssFacts DEF PidRecords
        <5> QED BY <1>2, <2>2, <2>7, <3>2, <4>2, <5>1 DEF PidInv, Numbered
      <4> QED BY <4>1, <4>2
    <3>3. ASSUME NEW z \in Pids, z # x, NEW m \in Nss, p.nr[m] # 0, pid[z].state = "new"
          PROVE  pid[z].nr[m] # p.nr[m]
      <4>1. CASE m = n
        <5>1. pid[z].nr[m] # 0 => m \in Levels(pid[z].ns)
          BY DEF PidInv, Numbered
        <5> QED BY <2>2, <3>1, <3>3, <4>1, <5>1
      <4>2. CASE m # n
        BY <1>2, <2>2, <3>3, <4>2 DEF PidInv, Numbered
      <4> QED BY <4>1, <4>2
    <3>4. ASSUME NEW z \in Pids, NEW m \in Nss, pid'[z].nr[m] # 0
          PROVE  /\ m \in Levels(pid'[z].ns)
                 /\ pid'[z].state = "new" => idr'[m][pid'[z].nr[m]] = Reserved
                 /\ \A y \in Pids \ {z} : pid'[z].state = "new" /\ pid'[y].state = "new"
                                           => pid'[y].nr[m] # pid'[z].nr[m]
      <4>1. CASE z = x
        BY <2>6, <3>2, <3>3, <3>4, <4>1
      <4>2. CASE z # x
        <5>1. /\ m \in Levels(pid[z].ns) /\ pid'[z] = pid[z]
              /\ pid[z].state = "new" => idr[m][pid[z].nr[m]] = Reserved
              /\ \A y \in Pids \ {z} : pid[z].state = "new" /\ pid[y].state = "new"
                                        => pid[y].nr[m] # pid[z].nr[m]
          BY <2>6, <3>4, <4>2 DEF PidInv, Numbered
        <5>2. pid[z].state = "new" => p.nr[m] # pid[z].nr[m]
          BY <3>3, <3>4, <4>2, <5>1
        <5> QED BY <2>6, <3>1, <3>4, <4>2, <5>1, <5>2
      <4> QED BY <4>1, <4>2
    <3>5. ASSUME NEW z \in Pids, pid'[z].state = "hashed", NEW m \in Levels(pid'[z].ns)
          PROVE  pid'[z].nr[m] # 0 /\ idr'[m][pid'[z].nr[m]] = z
      <4>1. z # x /\ pid'[z] = pid[z]
        BY <2>2, <2>6, <3>5
      <4>2. m \in Nss
        BY <3>5, <4>1, NssFacts DEF PidInv, PidTypes, PidRecords
      <4>3. pid[z].nr[m] # 0 /\ idr[m][pid[z].nr[m]] = z
        BY <3>5, <4>1 DEF PidInv, Numbered
      <4> QED BY <3>1, <3>5, <4>1, <4>2, <4>3
    <3>6. ASSUME NEW m \in Nss, NEW i \in Numbers, idr'[m][i] \in Pids
          PROVE  pid'[idr'[m][i]].state = "hashed" /\ pid'[idr'[m][i]].nr[m] = i
      <4>1. ~(m = n /\ i = nr)
        BY <2>7, <3>6 DEF PidConstantsOK
      <4>2. idr'[m][i] = idr[m][i]
        BY <2>7, <4>1
      <4>3. pid[idr[m][i]].state = "hashed" /\ pid[idr[m][i]].nr[m] = i
        BY <3>6, <4>2 DEF PidInv, Numbered
      <4> QED BY <1>2, <2>6, <3>6, <4>2, <4>3
    <3> QED BY <3>4, <3>5, <3>6 DEF Numbered
  <2>9. \A m \in Nss : pid_allocated'[m] = Cardinality(HashedIn(m)')
    <3>1. \A m \in Nss : HashedIn(m)' = HashedIn(m)
      BY <1>2, <2>2, <2>6 DEF HashedIn
    <3> QED BY <1>5, <3>1 DEF PidInv, Counted
  <2> QED BY <1>1, <1>5, <1>6, <1>x, <2>2, <2>3, <2>4, <2>5, <2>7, <2>8, <2>9, ForkStepIs DEF ForkStages
<1> QED
  <2>1. \/ stage' = [stage EXCEPT ![a] = "unwind"] /\ UNCHANGED <<idr, pid, work>>
        \/ /\ nr # 0
           /\ idr' = [idr EXCEPT ![n][nr] = Reserved]
           /\ pid' = [pid EXCEPT ![x].nr[n] = nr]
           /\ work' = [work EXCEPT ![a] = [work[a] EXCEPT !.levels = Tail(@)]]
           /\ stage' = stage
    BY <1>n, <1>r, <1>t, <1>x DEF AllocNumber, AtStage, WorksOn
  <2> QED BY <1>7, <1>8, <2>1

\* The numbers that a call has taken are reserved for its pid alone.
LEMMA ReservedFor ==
  ASSUME PidConstantsOK, PidInv, NEW x \in Pids, pid[x].state = "new", NEW n \in Nss,
         pid[x].nr[n] # 0
  PROVE  /\ pid[x].nr[n] \in Numbers /\ n \in Levels(pid[x].ns) /\ idr[n][pid[x].nr[n]] = Reserved
         /\ \A z \in Pids : z # x /\ pid[z].nr[n] # 0 /\ pid[z].state \in {"new", "hashed"}
                              => pid[z].nr[n] \in Numbers /\ pid[z].nr[n] # pid[x].nr[n]
<1>1. \A z \in Pids : pid[z].nr[n] # 0 => pid[z].nr[n] \in Numbers
  BY NssFacts DEF PidInv, PidTypes, PidRecords
<1>2. n \in Levels(pid[x].ns) /\ idr[n][pid[x].nr[n]] = Reserved
  BY DEF PidInv, Numbered
<1>3. ASSUME NEW z \in Pids, z # x, pid[z].nr[n] # 0, pid[z].state \in {"new", "hashed"}
      PROVE  pid[z].nr[n] # pid[x].nr[n]
  <2>1. CASE pid[z].state = "new"
    BY <1>3, <2>1 DEF PidInv, Numbered
  <2>2. CASE pid[z].state = "hashed"
    <3>1. idr[n][pid[z].nr[n]] = z
      BY <1>3, <2>2 DEF PidInv, Numbered
    <3> QED BY <1>2, <3>1 DEF PidConstantsOK
  <2> QED BY <1>3, <2>1, <2>2
<1> QED BY <1>1, <1>2, <1>3

LEMMA MakeVisibleInv ==
  ASSUME PidConstantsOK, PidInv, NEW a \in Actors, MakeVisible(a)
  PROVE  PidInv'
<1>1. stage[a] = "alloc" /\ work[a].levels = <<>> /\ Forking(a)
  BY DEF MakeVisible, Forking, ForkStages
<1>x. PICK x \in Pids : x = work[a].pid
  BY <1>1 DEF PidInv, Forks, ForkShape
<1>2. /\ ForkShape(a) /\ pid[x] \in PidRecords /\ work[a] \in WorkRecords
      /\ work[a].levels \in LevelLists /\ work[a].ns \in Nss /\ pid[x].state = "new"
      /\ pid[x].ns = work[a].ns /\ pid[x].count = 0
  BY <1>1, <1>x, ForkFacts
<1>n. PICK n0 \in Nss : n0 = work[a].ns
  BY <1>2
<1>3. \A n \in Levels(n0) : n \in Nss /\ pid[x].nr[n] # 0
  BY <1>1, <1>2, <1>n, <1>x, LevelFacts, NssFacts DEF ForkShape
<1>5. UNCHANGED <<adding, child_reaper, zap, task, group, work, warned>>
  BY DEF MakeVisible
<1>6. \A m \in Nss : pid_allocated[m] = Cardinality(HashedIn(m)) /\ pid_allocated[m] \in Int
  BY DEF PidInv, PidTypes, Counted
<1>w. work' = [work EXCEPT ![a] = work[a]] /\ stage[a] \in {"alloc", "unwind"} /\ work[a].pid = x
  BY <1>1, <1>5, <1>x DEF PidInv, PidTypes
<1>7. CASE stage' = [stage EXCEPT ![a] = "unwind"] /\ UNCHANGED <<idr, pid, pid_allocated>>
  <2>1. pid' = [pid EXCEPT ![x] = pid[x]]
    BY <1>7 DEF PidInv, PidTypes
  <2>2. Numbered' /\ idr' \in [Nss -> [Numbers -> Pids \cup {Nil, Reserved}]]
        /\ pid_allocated' \in [Nss -> Int]
    BY <1>7 DEF PidInv, PidTypes, Numbered
  <2>3. \A m \in Nss : pid_allocated'[m] = Cardinality(HashedIn(m)')
    <3>1. \A m \in Nss : HashedIn(m)' = HashedIn(m)
      BY <1>7 DEF HashedIn
    <3> QED BY <1>7, <3>1 DEF PidInv, Counted
  <2>4. "unwind" \in ForkStages \cup {"idle"}
    BY DEF ForkStages
  <2>5. stage' = [stage EXCEPT ![a] = "unwind"]
    BY <1>7
  <2> QED BY <1>2, <1>5, <1>w, <2>1, <2>2, <2>3, <2>4, <2>5, ForkStepIs
<1>8. CASE /\ idr' = [n \in Nss |-> IF n \in Levels(n0) THEN [idr[n] EXCEPT ![pid[x].nr[n]] = x]
                                    ELSE idr[n]]
           /\ pid_allocated' = [n \in Nss |-> IF n \in Levels(n0) THEN pid_allocated[n] + 1
                                              ELSE pid_allocated[n]]
           /\ pid' = [pid EXCEPT ![x].state = "hashed", ![x].count = 1]
           /\ stage' = [stage EXCEPT ![a] = "attach"]
  <2> DEFINE p == [pid[x] EXCEPT !.state = "hashed", !.count = 1]
  <2>1. /\ p \in PidRecords /\ p.state = "hashed" /\ p.count = 1 /\ p.ns = pid[x].ns
        /\ p.tasks = pid[x].tasks /\ p.nr = pid[x].nr
    <3>1. PICK q \in PidRecords : q = pid[x]
      BY <1>2
    <3>2. [q EXCEPT !.state = "hashed", !.count = 1] \in PidRecords
      <4>1. PICK c \in Int : c = 1
        OBVIOUS
      <4>2. [q EXCEPT !.state = "hashed", !.count = c] \in PidRecords
        BY DEF PidRecords, PidStates
      <4> QED BY <4>1, <4>2
    <3>3. /\ [q EXCEPT !.state = "hashed", !.count = 1].state = "hashed"
          /\ [q EXCEPT !.state = "hashed", !.count = 1].count = 1
          /\ [q EXCEPT !.state = "hashed", !.count = 1].ns = q.ns
          /\ [q EXCEPT !.state = "hashed", !.count = 1].nr = q.nr
          /\ [q EXCEPT !.state = "hashed", !.count = 1].tasks = q.tasks
      BY DEF PidRecords
    <3> QED BY <3>1, <3>2, <3>3
  <2>2. pid' = [pid EXCEPT ![x] = p]
    BY <1>8 DEF PidInv, PidTypes
  <2> HIDE DEF p
  <2>3. pid'[x] = p /\ \A z \in Pids : z # x => pid'[z] = pid[z]
    BY <2>2 DEF PidInv, PidTypes
  <2>4. ASSUME NEW n \in Nss, NEW i \in Numbers
        PROVE  idr'[n][i] = IF n \in Levels(n0) /\ pid[x].nr[n] = i THEN x ELSE idr[n][i]
    <3>1. idr[n] \in [Numbers -> Pids \cup {Nil, Reserved}]
      BY DEF PidInv, PidTypes
    <3> QED BY <1>8, <3>1
  <2>5. idr' \in [Nss -> [Numbers -> Pids \cup {Nil, Reserved}]]
    <3>1. ASSUME NEW n \in Nss PROVE idr'[n] \in [Numbers -> Pids \cup {Nil, Reserved}]
      BY <1>8 DEF PidInv, PidTypes
    <3> QED BY <1>8, <3>1
  <2>6. Numbered'
    <3>1. ASSUME NEW z \in Pids, z # x, NEW m \in Nss, pid[z].nr[m] # 0,
                 pid[z].state \in {"new", "hashed"}
          PROVE  idr'[m][pid[z].nr[m]] = idr[m][pid[z].nr[m]]
      <4>1. pid[z].nr[m] \in Numbers
        BY <3>1, NssFacts DEF PidInv, PidTypes, PidRecords
      <4>2. m \in Levels(n0) => pid[z].nr[m] # pid[x].nr[m]
        BY <1>2, <1>3, <3>1, ReservedFor
      <4> QED BY <2>4, <4>1, <4>2
    <3>4. ASSUME NEW z \in Pids, NEW m \in Nss, pid'[z].nr[m] # 0
          PROVE  /\ m \in Levels(pid'[z].ns)
                 /\ pid'[z].state = "new" => idr'[m][pid'[z].nr[m]] = Reserved
                 /\ \A y \in Pids \ {z} : pid'[z].state = "new" /\ pid'[y].state = "new"
                                           => pid'[y].nr[m] # pid'[z].nr[m]
      <4>1. CASE z = x
        BY <2>1, <2>3, <3>4, <4>1 DEF PidInv, Numbered
      <4>2. CASE z # x
        BY <2>1, <2>3, <3>1, <3>4, <4>2 DEF PidInv, Numbered
      <4> QED BY <4>1, <4>2
    <3>5. ASSUME NEW z \in Pids, pid'[z].state = "hashed", NEW m \in Levels(pid'[z].ns)
          PROVE  pid'[z].nr[m] # 0 /\ idr'[m][pid'[z].nr[m]] = z
      <4>1. CASE z = x
        <5>1. m \in Levels(n0) /\ m \in Nss /\ pid[x].nr[m] # 0
          BY <1>2, <1>3, <1>n, <2>1, <2>3, <3>5, <4>1
        <5>2. pid[x].nr[m] \in Numbers
          BY <1>2, <5>1, ReservedFor
        <5> QED BY <2>1, <2>3, <2>4, <4>1, <5>1, <5>2
      <4>2. CASE z # x
        <5>1. m \in Nss /\ pid'[z] = pid[z]
          BY <2>3, <3>5, <4>2, NssFacts DEF PidInv, PidTypes, PidRecords
        <5>2. pid[z].nr[m] # 0 /\ idr[m][pid[z].nr[m]] = z
          BY <3>5, <5>1 DEF PidInv, Numbered
        <5> QED BY <3>1, <3>5, <4>2, <5>1, <5>2
      <4> QED BY <4>1, <4>2
    <3>6. ASSUME NEW m \in Nss, NEW i \in Numbers, idr'[m][i] \in Pids
          PROVE  pid'[idr'[m][i]].state = "hashed" /\ pid'[idr'[m][i]].nr[m] = i
      <4>1. CASE m \in Levels(n0) /\ pid[x].nr[m] = i
        BY <2>1, <2>3, <2>4, <4>1
      <4>2. CASE ~(m \in Levels(n0) /\ pid[x].nr[m] = i)
        <5>1. idr'[m][i] = idr[m][i]
          BY <2>4, <4>2
        <5>2. pid[idr[m][i]].state = "hashed" /\ pid[idr[m][i]].nr[m] = i
          BY <3>6, <5>1 DEF PidInv, Numbered
        <5> QED BY <1>2, <2>3, <3>6, <5>1, <5>2
      <4> QED BY <4>1, <4>2
    <3> QED BY <3>4, <3>5, <3>6 DEF Numbered
  <2>7. ASSUME NEW m \in Nss PROVE HashedIn(m)' = IF m \in Levels(n0) THEN HashedIn(m) \cup {x}
                                                  ELSE HashedIn(m)
    BY <1>2, <1>n, <2>1, <2>3 DEF HashedIn
  <2>8. ASSUME NEW m \in Nss PROVE x \notin HashedIn(m)
    BY <1>2 DEF HashedIn
  <2>9. ASSUME NEW m \in Nss PROVE Cardinality(HashedIn(m) \cup {x}) = Cardinality(HashedIn(m)) + 1
    BY <2>8, HashedFinite, FS_AddElement
  <2>10. \A m \in Nss : pid_allocated'[m] = Cardinality(HashedIn(m)')
    <3>1. \A m \in Nss : pid_allocated'[m] = IF m \in Levels(n0) THEN pid_allocated[m] + 1
                                             ELSE pid_allocated[m]
      BY <1>8
    <3>2. \A m \in Nss : pid_allocated[m] = Cardinality(HashedIn(m))
      BY <1>6
    <3> QED BY <2>7, <2>9, <3>1, <3>2
  <2>11. pid_allocated' \in [Nss -> Int]
    BY <1>6, <1>8
  <2>12. /\ "attach" \in ForkStages \cup {"idle"} /\ stage' = [stage EXCEPT ![a] = "attach"]
         /\ work[a].ns = n0
    BY <1>8, <1>n DEF ForkStages
  <2> QED BY <1>2, <1>5, <1>w, <2>1, <2>2, <2>5, <2>6, <2>10, <2>11, <2>12, ForkStepIs
<1> QED
  <2>1. \/ stage' = [stage EXCEPT ![a] = "unwind"] /\ UNCHANGED <<idr, pid, pid_allocated>>
        \/ /\ idr' = [n \in Nss |-> IF n \in Levels(n0) THEN [idr[n] EXCEPT ![pid[x].nr[n]] = x]
                                    ELSE idr[n]]
           /\ pid_allocated' = [n \in Nss |-> IF n \in Levels(n0) THEN pid_allocated[n] + 1
                                              ELSE pid_allocated[n]]
           /\ pid' = [pid EXCEPT ![x].state = "hashed", ![x].count = 1]
           /\ stage' = [stage EXCEPT ![a] = "attach"]
    BY <1>n, <1>x DEF MakeVisible, AtStage
  <2> QED BY <1>7, <1>8, <2>1

LEMMA UnwindInv ==
  ASSUME PidConstantsOK, PidInv, NEW a \in Actors, Unwind(a)
  PROVE  PidInv'
<1>1. stage[a] = "unwind" /\ Forking(a)
  BY DEF Unwind, Forking, ForkStages
<1>x. PICK x \in Pids : x = work[a].pid
  BY <1>1 DEF PidInv, Forks, ForkShape
<1>2. pid[x] \in PidRecords /\ pid[x].state = "new"
  BY <1>1, <1>x, ForkFacts
<1>3. /\ UNCHANGED <<pid_allocated, adding, child_reaper, zap, task, group, warned>>
      /\ pid' = [pid EXCEPT ![x] = NoPid] /\ stage' = [stage EXCEPT ![a] = "idle"]
      /\ work' = [work EXCEPT ![a] = Idle]
      /\ idr' = [n \in Nss |-> IF pid[x].nr[n] # 0 THEN [idr[n] EXCEPT ![pid[x].nr[n]] = Nil]
                               ELSE idr[n]]
  BY <1>x DEF Unwind, Done, AtStage, WorksOn
<1>4. /\ NoPid \in PidRecords /\ NoPid.state = "free" /\ NoPid.count = 0
      /\ \A n \in Nss : NoPid.nr[n] = 0
  BY NoPidFacts DEF NoPid
<1>5. pid'[x] = NoPid /\ \A z \in Pids : z # x => pid'[z] = pid[z]
  BY <1>3 DEF PidInv, PidTypes
<1>6. ASSUME NEW n \in Nss, NEW i \in Numbers
      PROVE  idr'[n][i] = IF pid[x].nr[n] = i THEN Nil ELSE idr[n][i]
  <2>1. idr[n] \in [Numbers -> Pids \cup {Nil, Reserved}]
    BY DEF PidInv, PidTypes
  <2> QED BY <1>3, <2>1, NssFacts
<1>7. idr' \in [Nss -> [Numbers -> Pids \cup {Nil, Reserved}]]
  <2>1. ASSUME NEW n \in Nss PROVE idr'[n] \in [Numbers -> Pids \cup {Nil, Reserved}]
    BY <1>3 DEF PidInv, PidTypes
  <2> QED BY <1>3, <2>1
<1>8. Numbered'
  <2>1. ASSUME NEW z \in Pids, z # x, NEW m \in Nss, pid[z].nr[m] # 0,
               pid[z].state \in {"new", "hashed"}
        PROVE  idr'[m][pid[z].nr[m]] = idr[m][pid[z].nr[m]]
    <3>1. pid[z].nr[m] \in Numbers
      BY <2>1, NssFacts DEF PidInv, PidTypes, PidRecords
    <3>2. pid[z].nr[m] # pid[x].nr[m]
      BY <1>2, <2>1, ReservedFor
    <3> QED BY <1>6, <3>1, <3>2
  <2>2. ASSUME NEW z \in Pids, NEW m \in Nss, pid'[z].nr[m] # 0
        PROVE  /\ m \in Levels(pid'[z].ns)
               /\ pid'[z].state = "new" => idr'[m][pid'[z].nr[m]] = Reserved
               /\ \A y \in Pids \ {z} : pid'[z].state = "new" /\ pid'[y].state = "new"
                                         => pid'[y].nr[m] # pid'[z].nr[m]
    <3>1. z # x /\ pid'[z] = pid[z]
      BY <1>4, <1>5, <2>2
    <3> QED BY <1>4, <1>5, <2>1, <2>2, <3>1 DEF PidInv, Numbered
  <2>3. ASSUME NEW z \in Pids, pid'[z].state = "hashed", NEW m \in Levels(pid'[z].ns)
        PROVE  pid'[z].nr[m] # 0 /\ idr'[m][pid'[z].nr[m]] = z
    <3>1. z # x /\ pid'[z] = pid[z]
      BY <1>4, <1>5, <2>3
    <3>2. m \in Nss
      BY <2>3, <3>1, NssFacts DEF PidInv, PidTypes, PidRecords
    <3>3. pid[z].nr[m] # 0 /\ idr[m][pid[z].nr[m]] = z
      BY <2>3, <3>1 DEF PidInv, Numbered
    <3> QED BY <2>1, <2>3, <3>1, <3>2, <3>3
  <2>4. ASSUME NEW m \in Nss, NEW i \in Numbers, idr'[m][i] \in Pids
        PROVE  pid'[idr'[m][i]].state = "hashed" /\ pid'[idr'[m][i]].nr[m] = i
    <3>1. idr'[m][i] = idr[m][i]
      BY <1>6, <2>4 DEF PidConstantsOK
    <3>2. pid[idr[m][i]].state = "hashed" /\ pid[idr[m][i]].nr[m] = i
      BY <2>4, <3>1 DEF PidInv, Numbered
    <3> QED BY <1>2, <1>5, <2>4, <3>1, <3>2
  <2> QED BY <2>2, <2>3, <2>4 DEF Numbered
<1>9. \A m \in Nss : pid_allocated'[m] = Cardinality(HashedIn(m)')
  <2>1. \A m \in Nss : HashedIn(m)' = HashedIn(m)
    BY <1>2, <1>4, <1>5 DEF HashedIn
  <2> QED BY <1>3, <2>1 DEF PidInv, Counted
<1>10. pid_allocated' \in [Nss -> Int]
  BY <1>3 DEF PidInv, PidTypes
<1>11. Idle \in WorkRecords
  <2>1. 0 \in 0 .. (pid_max - 1)
    BY DEF PidConstantsOK
  <2> QED BY <2>1 DEF Idle, WorkRecords, LevelLists, Nss
<1>12. "idle" \in ForkStages \cup {"idle"} /\ stage[a] \in {"alloc", "unwind"} /\ work[a].pid = x
  BY <1>1, <1>x
<1> HIDE DEF NoPid, Idle
<1> QED BY <1>3, <1>4, <1>7, <1>8, <1>9, <1>10, <1>11, <1>12, ForkStepIs

-----------------------------------------------------------------------------
(* detach_pid() and change_pid(): tasks leave the lists of their pids        *)

\* The reaper of a namespace that has not found itself alone leads its group on.
LEMMA ReapersStay ==
  ASSUME PidConstantsOK, PidInv, child_reaper' = child_reaper, pid' \in [Pids -> PidRecords],
         \A x \in Pids : pid'[x].ns = pid[x].ns /\ pid'[x].nr = pid[x].nr,
         \A n \in Nss : adding'[n] => adding[n],
         adding' \in [Nss -> BOOLEAN],
         zap' = zap \/ (zap = "asleep" /\ zap' = "awake"), ~warned',
         \A k \in Kids : Live(k)' => Live(k) /\ task'[k].pid = task[k].pid,
         \A n \in Nss : Reaps(n) /\ (n = "sub" => zap # "done") => Leads(child_reaper[n])'
  PROVE  Reapers'
<1>1. ASSUME NEW n \in Nss, Reaps(n), n = "sub" => zap # "done" PROVE Reaps(n)'
  <2>1. PICK r \in Kids : r = child_reaper[n]
    BY <1>1 DEF Reaps
  <2>2. Leads(r) /\ Live(r) /\ NsOf(r) = n /\ pid[task[r].pid].nr[n] = 1
    BY <1>1, <2>1 DEF Reaps, Leads
  <2>3. Leads(child_reaper[n])'
    BY <1>1
  <2>4. Leads(r)' /\ Live(r)'
    BY <2>1, <2>3 DEF Leads, Live
  <2>5. task'[r].pid = task[r].pid /\ task[r].pid \in Pids
    BY <2>2, <2>4, ListFacts
  <2>6. NsOf(r)' = n /\ pid'[task'[r].pid].nr[n] = 1
    BY <2>2, <2>5 DEF NsOf
  <2> QED BY <2>1, <2>3, <2>6 DEF Reaps, NsOf
<1>2. Reaps("root") /\ (child_reaper["sub"] # Nil /\ zap # "done" => Reaps("sub"))
  BY DEF PidInv, Reapers
<1>3. Reaps("root")' /\ (child_reaper'["sub"] # Nil /\ zap' # "done" => Reaps("sub")')
  BY <1>1, <1>2, NssFacts
<1>4. zap' # "none" => ~adding'["sub"] /\ child_reaper'["sub"] # Nil
  <2>1. zap' # "none" => zap # "none"
    OBVIOUS
  <2>2. zap # "none" => ~adding["sub"] /\ child_reaper["sub"] # Nil
    BY DEF PidInv, Reapers
  <2> QED BY <2>1, <2>2, NssFacts
<1>5. ReaperLast'
  <2>1. ASSUME zap' = "done", NEW k \in Kids, InSub(k)' PROVE k = child_reaper["sub"]
    <3>1. Live(k) /\ task'[k].pid = task[k].pid
      BY <2>1 DEF InSub
    <3>2. task[k].pid \in Pids
      BY <3>1, ListFacts
    <3>3. InSub(k)
      BY <2>1, <3>1, <3>2 DEF InSub, NsOf
    <3> QED BY <2>1, <3>3 DEF PidInv, Reapers, ReaperLast
  <2> QED BY <2>1 DEF ReaperLast
<1> QED BY <1>3, <1>4, <1>5 DEF Reapers

\* The same lists in the hands of other pids.
SamePids(pids) ==
  \A x \in Pids : /\ pids[x] \in PidRecords
                  /\ pids[x].state = pid[x].state /\ pids[x].ns = pid[x].ns
                  /\ pids[x].nr = pid[x].nr /\ pids[x].count = pid[x].count

\* The tasks k are listed in pids as they are after the step; none is new.
Relists(pids) ==
  /\ SamePids(pids)
  /\ UNCHANGED <<stage, work, child_reaper>>
  /\ task' \in [Kids -> [pid : Pids \cup {Nil}, group : Kids \cup {Nil}]]
  /\ group' \in [Kids -> GroupRecords]
  /\ \A z \in Pids, y \in Types : pids[z].tasks[y] = {k \in Kids : ListedUnder(k, y)' = z}
  /\ \A z \in Pids : (\A y \in Types : pid[z].tasks[y] = {}) => \A y \in Types : pids[z].tasks[y] = {}
  /\ \A k \in Kids : Live(k)' => Live(k) /\ task'[k].pid = task[k].pid
  /\ \A b \in Actors : Forking(b) => Live(work[b].by)'
  /\ \A n \in Nss : Reaps(n) /\ (n = "sub" => zap # "done") => Leads(child_reaper[n])'

LEMMA RelistInv ==
  ASSUME PidConstantsOK, PidInv, NEW pids, Relists(pids), Relisted(pids), Grouped'
  PROVE  PidInv'
<1> DEFINE S == UnusedPids(pids)
<1>1. /\ S \in SUBSET Pids /\ FreePids(S, pids)
      /\ \A z \in S : pid[z].state = "hashed" /\ (\A y \in Types : pids[z].tasks[y] = {})
                      /\ \E y \in Types : pid[z].tasks[y] # {}
  BY DEF Relisted, UnusedPids, Relists, SamePids
<1>2. \A z \in Pids : z \notin S /\ pid[z].state = "hashed" =>
        \/ \E y \in Types : pids[z].tasks[y] # {}
        \/ \A y \in Types : pid[z].tasks[y] = {}
  BY DEF UnusedPids, Relists, SamePids
<1> HIDE DEF S
<1>3. ASSUME NEW n \in Nss, child_reaper[n] # Nil, adding[n]
      PROVE  \E x \in HashedIn(n) : x \notin S
  <2>1. Reaps(n) /\ (n = "sub" => zap # "done")
    <3>1. n = "sub" => zap = "none"
      BY <1>3 DEF PidInv, Reapers
    <3> QED BY <1>3, <3>1 DEF PidInv, Reapers, Nss
  <2>2. PICK r \in Kids : r = child_reaper[n]
    BY <2>1 DEF Reaps
  <2>3. Leads(child_reaper[n])'
    BY <2>1 DEF Relists
  <2>4. child_reaper' = child_reaper
    BY DEF Relists
  <2>5. Live(r)' /\ Live(r) /\ NsOf(r) = n
    BY <2>1, <2>2, <2>3, <2>4 DEF Leads, Live, Reaps
  <2>6. PICK x \in Pids : x = task[r].pid /\ pid[x].state = "hashed"
    BY <2>5, ListFacts
  <2>7. task'[r].pid = x
    BY <2>5, <2>6 DEF Relists
  <2>8. r \in pids[x].tasks["PID"]
    BY <2>7, NssFacts DEF Relists, ListedUnder
  <2>9. x \notin S
    BY <1>1, <2>8, NssFacts
  <2>10. x \in HashedIn(n)
    BY <2>5, <2>6, NssFacts DEF HashedIn, NsOf
  <2> QED BY <2>9, <2>10
<1>4. /\ pid' \in [Pids -> PidRecords]
      /\ \A x \in Pids :
           /\ pid'[x].state = IF x \in S THEN "grace" ELSE pid[x].state
           /\ pid'[x].ns = pid[x].ns /\ pid'[x].nr = pid[x].nr /\ pid'[x].count = pid[x].count
           /\ pid'[x].tasks = pids[x].tasks
      /\ idr' \in [Nss -> [Numbers -> Pids \cup {Nil, Reserved}]] /\ Numbered'
      /\ pid_allocated' \in [Nss -> Int]
      /\ \A n \in Nss : pid_allocated'[n] = Cardinality(HashedIn(n)')
      /\ adding' \in [Nss -> BOOLEAN] /\ \A n \in Nss : adding'[n] => adding[n]
      /\ zap' = zap \/ (zap = "asleep" /\ zap' = "awake")
      /\ ~warned'
  BY <1>1, <1>3, FreeFacts DEF Relists, SamePids
<1>5. PidTypes'
  <2>1. /\ child_reaper' \in [Nss -> Kids \cup {Nil}] /\ stage' \in [Actors -> Stages]
        /\ work' \in [Actors -> WorkRecords]
        /\ task' \in [Kids -> [pid : Pids \cup {Nil}, group : Kids \cup {Nil}]]
        /\ group' \in [Kids -> GroupRecords]
    BY DEF PidInv, PidTypes, Relists
  <2>2. zap' \in {"none", "kill", "asleep", "awake", "done"}
    BY <1>4 DEF PidInv, PidTypes
  <2> QED BY <1>4, <2>1, <2>2 DEF PidTypes
<1>6. Forks'
  <2>1. UNCHANGED <<stage, work>>
    BY DEF Relists
  <2>2. ASSUME NEW b \in Actors, Forking(b)' PROVE ForkShape(b)'
    <3>1. Forking(b)
      BY <2>1, <2>2 DEF Forking
    <3>2. PICK x \in Pids : x = work[b].pid
      BY <3>1 DEF PidInv, Forks, ForkShape
    <3>3. /\ ForkShape(b) /\ \A y \in Types : pid[x].tasks[y] = {}
      BY <3>1, <3>2, ForkFacts
    <3>4. x \notin S /\ \A y \in Types : pids[x].tasks[y] = {}
      BY <1>1, <3>3 DEF Relists
    <3>5. Live(work[b].by)'
      BY <3>1 DEF Relists
    <3> QED BY <1>4, <2>1, <3>2, <3>3, <3>4, <3>5 DEF ForkShape, Live
  <2>3. ASSUME NEW b \in Actors, stage'[b] \in {"found", "held"} PROVE HandShape(b)'
    <3>1. HandShape(b)
      BY <2>1, <2>3 DEF PidInv, Forks
    <3> QED BY <1>4, <2>1, <3>1 DEF HandShape
  <2> QED BY <2>1, <2>2, <2>3 DEF PidInv, Forks, Forking
<1>7. Counted'
  <2>1. \A x : Holders(x)' = Holders(x)
    BY DEF Holders, Relists
  <2>2. \A x \in Pids : pid'[x].state \in {"hashed", "grace"} <=> pid[x].state \in {"hashed", "grace"}
    BY <1>1, <1>4
  <2> QED BY <1>4, <2>1, <2>2 DEF PidInv, Counted
<1>8. Listed'
  <2>1. \A x \in Pids, y \in Types : pid'[x].tasks[y] = {k \in Kids : ListedUnder(k, y)' = x}
    BY <1>4 DEF Relists
  <2>2. ASSUME NEW j \in Kids, NEW k \in Kids, Live(k)', task'[j].pid = task'[k].pid PROVE j = k
    <3>1. Live(j)' /\ Live(k)'
      BY <2>2 DEF Live
    <3>2. Live(k) /\ task'[k].pid = task[k].pid /\ task'[j].pid = task[j].pid
      BY <3>1 DEF Relists
    <3> QED BY <2>2, <3>2 DEF PidInv, Listed
  <2>3. ASSUME NEW x \in Pids
        PROVE  pid'[x].state = "hashed" <=>
                 \/ \E y \in Types : pid'[x].tasks[y] # {}
                 \/ \E a \in Actors : stage'[a] = "attach" /\ work'[a].pid = x
    <3>1. pid'[x].state = "hashed" <=> pid[x].state = "hashed" /\ x \notin S
      BY <1>4
    <3>2. pid[x].state = "hashed" <=> \/ \E y \in Types : pid[x].tasks[y] # {}
                                      \/ \E a \in Actors : stage[a] = "attach" /\ work[a].pid = x
      BY DEF PidInv, Listed
    <3>3. \A y \in Types : pid'[x].tasks[y] = pids[x].tasks[y]
      BY <1>4
    <3>4. (\E y \in Types : pids[x].tasks[y] # {}) => \E y \in Types : pid[x].tasks[y] # {}
      BY DEF Relists
    <3>5. UNCHANGED <<stage, work>>
      BY DEF Relists
    <3>6. ASSUME NEW a \in Actors, stage[a] = "attach", work[a].pid = x PROVE x \notin S
      <4>1. \A y \in Types : pid[x].tasks[y] = {}
        BY <3>6, ForkFacts DEF Forking, ForkStages
      <4> QED BY <1>1, <4>1
    <3> QED BY <1>1, <1>2, <3>1, <3>2, <3>3, <3>4, <3>5, <3>6
  <2> QED BY <2>1, <2>2, <2>3 DEF Listed
<1>9. Reapers'
  <2>1. /\ child_reaper' = child_reaper
        /\ \A k \in Kids : Live(k)' => Live(k) /\ task'[k].pid = task[k].pid
        /\ \A n \in Nss : Reaps(n) /\ (n = "sub" => zap # "done") => Leads(child_reaper[n])'
    BY DEF Relists
  <2>2. \A x \in Pids : pid'[x].ns = pid[x].ns /\ pid'[x].nr = pid[x].nr
    BY <1>4
  <2> QED BY <1>4, <2>1, <2>2, ReapersStay
<1> QED BY <1>4, <1>5, <1>6, <1>7, <1>8, <1>9 DEF PidInv

\* The lists of the pids when k has joined, or left.
HasJoined(q, pids, k, to) ==
  /\ SamePids(q)
  /\ \A z \in Pids, y \in Types : q[z].tasks[y] =
       IF y \in DOMAIN to /\ to[y] = z THEN pids[z].tasks[y] \cup {k} ELSE pids[z].tasks[y]
HasLeft(q, k, ys) ==
  /\ SamePids(q)
  /\ \A z \in Pids, y \in Types : q[z].tasks[y] =
       IF y \in ys THEN pid[z].tasks[y] \ {k} ELSE pid[z].tasks[y]

LEMMA JoinedLists ==
  ASSUME PidConstantsOK, NEW k \in Kids, NEW to, NEW pids, SamePids(pids)
  PROVE  HasJoined(Joined(pids, k, to), pids, k, to)
<1>1. ASSUME NEW z \in Pids
      PROVE  /\ Joined(pids, k, to)[z] \in PidRecords
             /\ Joined(pids, k, to)[z].state = pids[z].state /\ Joined(pids, k, to)[z].ns = pids[z].ns
             /\ Joined(pids, k, to)[z].nr = pids[z].nr
             /\ Joined(pids, k, to)[z].count = pids[z].count
             /\ \A y \in Types : Joined(pids, k, to)[z].tasks[y] =
                  IF y \in DOMAIN to /\ to[y] = z THEN pids[z].tasks[y] \cup {k}
                  ELSE pids[z].tasks[y]
  <2>1. PICK q \in PidRecords : q = pids[z]
    BY DEF SamePids
  <2>2. PICK t : t = [y \in Types |-> IF y \in DOMAIN to /\ to[y] = z THEN q.tasks[y] \cup {k}
                                      ELSE q.tasks[y]]
    OBVIOUS
  <2>3. t \in [Types -> SUBSET Kids] /\ \A y \in Types : t[y] =
          IF y \in DOMAIN to /\ to[y] = z THEN q.tasks[y] \cup {k} ELSE q.tasks[y]
    BY <2>2 DEF PidRecords
  <2>4. Joined(pids, k, to)[z] = [q EXCEPT !.tasks = t]
    BY <2>1, <2>2 DEF Joined
  <2>5. /\ [q EXCEPT !.tasks = t] \in PidRecords /\ [q EXCEPT !.tasks = t].state = q.state
        /\ [q EXCEPT !.tasks = t].ns = q.ns /\ [q EXCEPT !.tasks = t].nr = q.nr
        /\ [q EXCEPT !.tasks = t].count = q.count /\ [q EXCEPT !.tasks = t].tasks = t
    BY <2>3 DEF PidRecords
  <2> QED BY <2>1, <2>3, <2>4, <2>5
<1> QED BY <1>1 DEF SamePids, HasJoined

LEMMA WithoutLists ==
  ASSUME PidConstantsOK, PidInv, NEW k \in Kids, NEW ys \in SUBSET Types
  PROVE  HasLeft(Without(pid, ys, k), k, ys)
<1>1. ASSUME NEW z \in Pids
      PROVE  /\ Without(pid, ys, k)[z] \in PidRecords
             /\ Without(pid, ys, k)[z].state = pid[z].state /\ Without(pid, ys, k)[z].ns = pid[z].ns
             /\ Without(pid, ys, k)[z].nr = pid[z].nr
             /\ Without(pid, ys, k)[z].count = pid[z].count
             /\ \A y \in Types : Without(pid, ys, k)[z].tasks[y] =
                  IF y \in ys THEN pid[z].tasks[y] \ {k} ELSE pid[z].tasks[y]
  <2>1. PICK q \in PidRecords : q = pid[z]
    BY DEF PidInv, PidTypes
  <2>2. PICK t : t = [y \in Types |-> IF y \in ys THEN q.tasks[y] \ {k} ELSE q.tasks[y]]
    OBVIOUS
  <2>3. t \in [Types -> SUBSET Kids] /\ \A y \in Types : t[y] =
          IF y \in ys THEN q.tasks[y] \ {k} ELSE q.tasks[y]
    BY <2>2 DEF PidRecords
  <2>4. Without(pid, ys, k)[z] = [q EXCEPT !.tasks = t]
    BY <2>1, <2>2 DEF Without
  <2>5. /\ [q EXCEPT !.tasks = t] \in PidRecords /\ [q EXCEPT !.tasks = t].state = q.state
        /\ [q EXCEPT !.tasks = t].ns = q.ns /\ [q EXCEPT !.tasks = t].nr = q.nr
        /\ [q EXCEPT !.tasks = t].count = q.count /\ [q EXCEPT !.tasks = t].tasks = t
    BY <2>3 DEF PidRecords
  <2> QED BY <2>1, <2>3, <2>4, <2>5
<1> QED BY <1>1 DEF SamePids, HasLeft

LEMMA PidsSame ==
  ASSUME PidInv
  PROVE  SamePids(pid)
BY DEF SamePids, PidInv, PidTypes

LEMMA DetachInv ==
  ASSUME PidConstantsOK, PidInv, NEW k \in Kids, Detach(k)
  PROVE  PidInv'
<1>g. PICK g \in Kids : g = task[k].group
  BY DEF Detach, PidInv, Grouped
<1>y. PICK ys \in SUBSET Types : ys = IF Leads(k) THEN Types ELSE {"PID"}
  BY NssFacts
<1>p. PICK pids : pids = Without(pid, ys, k)
  OBVIOUS
<1>1. /\ Live(k) /\ ~InFork(k) /\ k # child_reaper["root"]
      /\ Leads(k) => \A j \in Kids \ {k} : task[j].group # g
      /\ k = child_reaper["sub"] => zap = "done"
      /\ Relisted(pids)
      /\ task' = [task EXCEPT ![k] = Unborn]
      /\ group' = IF Leads(k) THEN [group EXCEPT ![g] = NoGroup] ELSE group
      /\ UNCHANGED <<child_reaper, stage, work>>
  BY <1>g, <1>y, <1>p DEF Detach
<1>2. /\ SamePids(pids)
      /\ \A z \in Pids, y \in Types :
           pids[z].tasks[y] = IF y \in ys THEN pid[z].tasks[y] \ {k} ELSE pid[z].tasks[y]
  <2>1. HasLeft(pids, k, ys)
    BY <1>p, WithoutLists
  <2> QED BY <2>1 DEF HasLeft
<1>3. /\ task' \in [Kids -> [pid : Pids \cup {Nil}, group : Kids \cup {Nil}]]
      /\ task'[k].pid = Nil /\ \A j \in Kids : j # k => task'[j] = task[j]
  BY <1>1 DEF PidInv, PidTypes, Unborn
<1>4. /\ group' \in [Kids -> GroupRecords] /\ \A h \in Kids : h # g => group'[h] = group[h]
      /\ Leads(k) => group'[g].leader = Nil
      /\ ~Leads(k) => group' = group
  <2>1. NoGroup \in GroupRecords /\ NoGroup.leader = Nil
    BY DEF NoGroup, GroupRecords
  <2> QED BY <1>1, <2>1 DEF PidInv, PidTypes
\* The others are where they were.
<1>5. ASSUME NEW j \in Kids, j # k
      PROVE  /\ task'[j] = task[j] /\ Live(j)' = Live(j)
             /\ Live(j) => /\ task[j].group \in Kids /\ group'[task[j].group] = group[task[j].group]
                           /\ group[task[j].group].leader # Nil
             /\ Leads(j)' = Leads(j) /\ \A y : ListedUnder(j, y)' = ListedUnder(j, y)
  <2>1. task'[j] = task[j] /\ Live(j)' = Live(j)
    BY <1>3, <1>5 DEF Live
  <2>2. ASSUME Live(j)
        PROVE  /\ task[j].group \in Kids /\ group'[task[j].group] = group[task[j].group]
               /\ group[task[j].group].leader # Nil
    <3>1. task[j].group \in Kids /\ group[task[j].group].leader # Nil
      BY <2>2 DEF PidInv, Grouped
    <3>2. CASE Leads(k)
      BY <1>1, <1>4, <1>5, <3>1, <3>2
    <3>3. CASE ~Leads(k)
      BY <1>4, <3>1, <3>3
    <3> QED BY <3>1, <3>2, <3>3
  <2>3. Leads(j)' = Leads(j)
    BY <2>1, <2>2 DEF Leads, Live
  <2>4. \A y : ListedUnder(j, y)' = ListedUnder(j, y)
    BY <2>1, <2>2, <2>3 DEF ListedUnder, Leads
  <2> QED BY <2>1, <2>2, <2>3, <2>4
<1>6. ~Live(k)' /\ \A y : ListedUnder(k, y)' = Nil
  BY <1>3 DEF Live, Leads, ListedUnder
<1>7. ASSUME NEW z \in Pids, NEW y \in Types
      PROVE  pids[z].tasks[y] = {j \in Kids : ListedUnder(j, y)' = z}
  <2>1. pid[z].tasks[y] = {j \in Kids : ListedUnder(j, y) = z}
    BY DEF PidInv, Listed
  <2>2. pids[z].tasks[y] = pid[z].tasks[y] \ {k}
    <3>1. CASE y \in ys
      BY <1>2, <3>1
    <3>2. CASE y \notin ys
      <4>1. ListedUnder(k, y) = Nil
        BY <1>y, <3>2 DEF ListedUnder
      <4> QED BY <1>2, <2>1, <3>2, <4>1 DEF PidConstantsOK
    <3> QED BY <3>1, <3>2
  <2>3. \A j \in Kids : ListedUnder(j, y)' = z <=> j # k /\ ListedUnder(j, y) = z
    BY <1>5, <1>6 DEF PidConstantsOK
  <2> QED BY <2>1, <2>2, <2>3
<1>8. Grouped'
  <2>1. ASSUME NEW j \in Kids, Live(j)'
        PROVE  task'[j].group \in Kids /\ group'[task'[j].group].leader # Nil
    BY <1>5, <1>6, <2>1
  <2>2. ASSUME NEW h \in Kids, group'[h].leader # Nil
        PROVE  /\ Live(group[h].leader)' /\ task'[group'[h].leader].group = h
               /\ \A y \in GroupTypes : group'[h].pids[y] \in Pids
    <3>1. h # g \/ ~Leads(k)
      BY <1>4, <2>2
    <3>2. group'[h] = group[h]
      BY <1>4, <3>1
    <3>3. PICK l \in Kids : l = group[h].leader
      BY <2>2, <3>2 DEF PidInv, PidTypes, GroupRecords
    <3>4. Live(l) /\ task[l].group = h /\ \A y \in GroupTypes : group[h].pids[y] \in Pids
      BY <2>2, <3>2, <3>3 DEF PidInv, Grouped
    <3>5. l # k
      <4>1. l = k => Leads(k) /\ h = g
        BY <1>g, <3>3, <3>4 DEF Leads
      <4> QED BY <3>1, <4>1
    <3>6. Live(l)' /\ task'[l].group = h
      BY <1>5, <3>4, <3>5
    <3> QED BY <3>2, <3>3, <3>4, <3>6 DEF Live
  <2>3. \A j \in Kids : Live(j)' => task'[j].group \in Kids /\ group'[task'[j].group].leader # Nil
    BY <2>1
  <2> QED BY <2>2, <2>3 DEF Grouped
<1>9. Relists(pids)
  <2>1. \A z \in Pids : (\A y \in Types : pid[z].tasks[y] = {}) => \A y \in Types : pids[z].tasks[y] = {}
    BY <1>2
  <2>2. \A j \in Kids : Live(j)' => Live(j) /\ task'[j].pid = task[j].pid
    BY <1>5, <1>6
  <2>3. ASSUME NEW b \in Actors, Forking(b) PROVE Live(work[b].by)'
    <3>1. PICK j \in Kids : j = work[b].by
      BY <2>3 DEF PidInv, Forks, ForkShape
    <3>2. Live(j) /\ j # k
      BY <1>1, <2>3, <3>1 DEF PidInv, Forks, ForkShape, InFork, Forking
    <3>3. Live(j)' /\ work'[b].by = j
      BY <1>1, <1>5, <3>1, <3>2
    <3> QED BY <3>3 DEF Live
  <2>4. ASSUME NEW n \in Nss, Reaps(n), n = "sub" => zap # "done" PROVE Leads(child_reaper[n])'
    <3>1. PICK r \in Kids : r = child_reaper[n] /\ Leads(r)
      BY <2>4 DEF Reaps
    <3>2. r # k
      BY <1>1, <2>4, <3>1 DEF Nss
    <3>3. Leads(r)' /\ child_reaper'[n] = r
      BY <1>1, <1>5, <3>1, <3>2
    <3> QED BY <3>3 DEF Leads, Live
  <2> QED BY <1>1, <1>2, <1>3, <1>4, <1>7, <2>1, <2>2, <2>3, <2>4 DEF Relists
<1> QED BY <1>1, <1>8, <1>9, RelistInv

LEMMA SetSidInv ==
  ASSUME PidConstantsOK, PidInv, NEW a \in Actors, SetSid(a)
  PROVE  PidInv'
<1>k. PICK k \in Kids :
        /\ Leads(k)
        /\ Relisted(Joined(Without(pid, {"PGID", "SID"}, k), k,
                           [y \in {"PGID", "SID"} |-> task[k].pid]))
        /\ group' = [group EXCEPT ![task[k].group].pids =
             [y \in GroupTypes |-> IF y = "TGID" THEN @[y] ELSE task[k].pid]]
  BY DEF SetSid
<1>x. PICK x \in Pids : x = task[k].pid /\ pid[x].state = "hashed" /\ k \in pid[x].tasks["PID"]
  BY <1>k, ListFacts DEF Leads
<1>g. PICK g \in Kids : g = task[k].group
  BY <1>k DEF Leads, PidInv, Grouped
<1>y. PICK ys \in SUBSET Types : ys = {"PGID", "SID"}
  BY DEF Types
<1>t. PICK to : to = [y \in {"PGID", "SID"} |-> x]
  OBVIOUS
<1>p. PICK pids : pids = Joined(Without(pid, ys, k), k, to)
  OBVIOUS
<1>1. /\ Relisted(pids) /\ UNCHANGED <<task, child_reaper, stage, work>>
      /\ group' = [group EXCEPT ![g].pids = [y \in GroupTypes |-> IF y = "TGID" THEN @[y] ELSE x]]
  BY <1>k, <1>x, <1>g, <1>y, <1>t, <1>p DEF SetSid
<1>2. /\ SamePids(pids)
      /\ \A z \in Pids, y \in Types : pids[z].tasks[y] =
           IF y \in ys THEN IF z = x THEN pid[z].tasks[y] \cup {k} ELSE pid[z].tasks[y] \ {k}
           ELSE pid[z].tasks[y]
  <2>w. PICK q : q = Without(pid, ys, k)
    OBVIOUS
  <2>1. HasLeft(q, k, ys)
    BY <2>w, WithoutLists
  <2>2. SamePids(q) /\ pids = Joined(q, k, to)
    BY <1>p, <2>w, <2>1 DEF HasLeft
  <2>3. HasJoined(pids, q, k, to)
    BY <2>2, JoinedLists
  <2>4. DOMAIN to = ys /\ \A y \in ys : to[y] = x
    BY <1>t, <1>y
  <2>5. \A z \in Pids, y \in Types :
          q[z].tasks[y] = IF y \in ys THEN pid[z].tasks[y] \ {k} ELSE pid[z].tasks[y]
    BY <2>1 DEF HasLeft
  <2>6. SamePids(pids) /\ \A z \in Pids, y \in Types : pids[z].tasks[y] =
          IF y \in DOMAIN to /\ to[y] = z THEN q[z].tasks[y] \cup {k} ELSE q[z].tasks[y]
    BY <2>3 DEF HasJoined
  <2>7. ASSUME NEW z \in Pids, NEW y \in Types
        PROVE  pids[z].tasks[y] =
                 IF y \in ys THEN IF z = x THEN pid[z].tasks[y] \cup {k} ELSE pid[z].tasks[y] \ {k}
                 ELSE pid[z].tasks[y]
    <3>1. pids[z].tasks[y] = IF y \in DOMAIN to /\ to[y] = z THEN q[z].tasks[y] \cup {k}
                             ELSE q[z].tasks[y]
      BY <2>6
    <3>2. q[z].tasks[y] = IF y \in ys THEN pid[z].tasks[y] \ {k} ELSE pid[z].tasks[y]
      BY <2>5
    <3>3. (y \in DOMAIN to /\ to[y] = z) <=> (y \in ys /\ z = x)
      BY <2>4
    <3>4. CASE y \in ys /\ z = x
      BY <3>1, <3>2, <3>3, <3>4
    <3>5. CASE ~(y \in ys /\ z = x)
      BY <3>1, <3>2, <3>3, <3>5
    <3> QED BY <3>4, <3>5
  <2> QED BY <2>6, <2>7
<1>3. /\ group' \in [Kids -> GroupRecords] /\ \A h \in Kids : group'[h].leader = group[h].leader
      /\ \A h \in Kids : h # g => group'[h] = group[h]
      /\ \A y \in GroupTypes : group'[g].pids[y] = IF y = "TGID" THEN group[g].pids[y] ELSE x
  <2>1. PICK r \in GroupRecords : r = group[g]
    BY DEF PidInv, PidTypes
  <2>2. PICK t : t = [y \in GroupTypes |-> IF y = "TGID" THEN r.pids[y] ELSE x]
    OBVIOUS
  <2>3. t \in [GroupTypes -> Pids \cup {Nil}]
    BY <2>2 DEF GroupRecords
  <2>4. [r EXCEPT !.pids = t] \in GroupRecords /\ [r EXCEPT !.pids = t].leader = r.leader
        /\ [r EXCEPT !.pids = t].pids = t
    BY <2>3 DEF GroupRecords
  <2>5. group' = [group EXCEPT ![g] = [r EXCEPT !.pids = t]]
    BY <1>1, <2>1, <2>2 DEF PidInv, PidTypes
  <2> QED BY <2>1, <2>2, <2>4, <2>5 DEF PidInv, PidTypes
<1>4. \A j \in Kids : Live(j)' = Live(j) /\ Leads(j)' = Leads(j)
  BY <1>1, <1>3 DEF Live, Leads, PidInv, Grouped
<1>5. ASSUME NEW j \in Kids, j # k, NEW y PROVE ListedUnder(j, y)' = ListedUnder(j, y)
  <2>1. Leads(j) => task[j].group \in Kids /\ task[j].group # g
    BY <1>k, <1>g, <1>5 DEF Leads, PidInv, Grouped
  <2> QED BY <1>1, <1>3, <1>4, <2>1 DEF ListedUnder
<1>6. ASSUME NEW y \in Types
      PROVE  /\ y \notin ys => ListedUnder(k, y)' = ListedUnder(k, y)
             /\ y \in ys => ListedUnder(k, y)' = x
  <2>1. Leads(k)' /\ task'[k].group = g /\ task'[k].pid = x
    BY <1>1, <1>4, <1>g, <1>k, <1>x
  <2>2. CASE y = "PID"
    BY <1>1, <1>x, <1>y, <2>2 DEF ListedUnder
  <2>3. CASE y # "PID"
    <3>1. y \in GroupTypes /\ (y \in ys <=> y # "TGID")
      BY <1>y, <2>3 DEF Types, GroupTypes
    <3> QED BY <1>1, <1>3, <1>g, <1>k, <2>1, <2>3, <3>1 DEF ListedUnder
  <2> QED BY <2>2, <2>3
<1>7. ASSUME NEW z \in Pids, NEW y \in Types
      PROVE  pids[z].tasks[y] = {j \in Kids : ListedUnder(j, y)' = z}
  <2>1. pid[z].tasks[y] = {j \in Kids : ListedUnder(j, y) = z}
    BY DEF PidInv, Listed
  <2>2. ASSUME NEW j \in Kids PROVE j \in pids[z].tasks[y] <=> ListedUnder(j, y)' = z
    <3>1. CASE j # k
      <4>1. ListedUnder(j, y)' = ListedUnder(j, y)
        BY <1>5, <3>1
      <4>2. j \in pids[z].tasks[y] <=> j \in pid[z].tasks[y]
        BY <1>2, <3>1
      <4> QED BY <2>1, <4>1, <4>2
    <3>2. CASE j = k
      <4>1. /\ y \notin ys => ListedUnder(k, y)' = ListedUnder(k, y)
            /\ y \in ys => ListedUnder(k, y)' = x
        BY <1>6
      <4>2. CASE y \in ys
        <5>1. k \in pids[z].tasks[y] <=> z = x
          BY <1>2, <4>2
        <5> QED BY <3>2, <4>1, <4>2, <5>1
      <4>3. CASE y \notin ys
        <5>1. pids[z].tasks[y] = pid[z].tasks[y]
          BY <1>2, <4>3
        <5> QED BY <2>1, <3>2, <4>1, <4>3, <5>1
      <4> QED BY <4>2, <4>3
    <3> QED BY <3>1, <3>2
  <2>3. pids[z].tasks[y] \subseteq Kids
    BY <1>2 DEF SamePids, PidRecords
  <2> QED BY <2>2, <2>3
<1>8. Grouped'
  <2>1. ASSUME NEW j \in Kids, Live(j)'
        PROVE  task'[j].group \in Kids /\ group'[task'[j].group].leader # Nil
    <3>1. Live(j)
      BY <1>4, <2>1
    <3> QED BY <1>1, <1>3, <3>1 DEF PidInv, Grouped
  <2>2. ASSUME NEW h \in Kids, group'[h].leader # Nil
        PROVE  /\ Live(group[h].leader)' /\ task'[group'[h].leader].group = h
               /\ \A y \in GroupTypes : group'[h].pids[y] \in Pids
    <3>1. PICK l \in Kids : l = group[h].leader
      BY <1>3, <2>2 DEF PidInv, PidTypes, GroupRecords
    <3>2. Live(l) /\ task[l].group = h /\ \A y \in GroupTypes : group[h].pids[y] \in Pids
      BY <1>3, <2>2, <3>1 DEF PidInv, Grouped
    <3>3. Live(l)'
      BY <1>4, <3>2
    <3>4. \A y \in GroupTypes : group'[h].pids[y] \in Pids
      BY <1>3, <3>2
    <3> QED BY <1>1, <1>3, <3>1, <3>2, <3>3, <3>4 DEF Live
  <2>3. \A j \in Kids : Live(j)' => task'[j].group \in Kids /\ group'[task'[j].group].leader # Nil
    BY <2>1
  <2> QED BY <1>3, <2>2, <2>3 DEF Grouped
<1>9. Relists(pids)
  <2>1. ASSUME NEW z \in Pids, \A y \in Types : pid[z].tasks[y] = {}
        PROVE  \A y \in Types : pids[z].tasks[y] = {}
    <3>1. z # x
      BY <1>x, <2>1, NssFacts
    <3> QED BY <1>2, <2>1, <3>1
  <2>2. \A j \in Kids : Live(j)' => Live(j) /\ task'[j].pid = task[j].pid
    BY <1>1, <1>4
  <2>3. ASSUME NEW b \in Actors, Forking(b) PROVE Live(work[b].by)'
    <3>1. Live(work[b].by)
      BY <2>3 DEF PidInv, Forks, ForkShape
    <3> QED BY <1>1, <3>1 DEF Live
  <2>4. ASSUME NEW n \in Nss, Reaps(n) PROVE Leads(child_reaper[n])'
    <3>1. PICK r \in Kids : r = child_reaper[n] /\ Leads(r)
      BY <2>4 DEF Reaps
    <3>2. Leads(r)' /\ child_reaper'[n] = r
      BY <1>1, <1>4, <3>1
    <3> QED BY <3>2 DEF Leads, Live
  <2>5. task' \in [Kids -> [pid : Pids \cup {Nil}, group : Kids \cup {Nil}]]
    BY <1>1 DEF PidInv, PidTypes
  <2> QED BY <1>1, <1>2, <1>3, <1>7, <2>1, <2>2, <2>3, <2>4, <2>5 DEF Relists
<1> QED BY <1>1, <1>8, <1>9, RelistInv

\* copy_process() fails after alloc_pid(): its pid has no task.
LEMMA ForkFailsInv ==
  ASSUME PidConstantsOK, PidInv, NEW a \in Actors, ForkFails(a)
  PROVE  PidInv'
<1>1. stage[a] = "attach" /\ Forking(a)
  BY DEF ForkFails, Forking, ForkStages
<1>x. PICK x \in Pids : x = work[a].pid
  BY <1>1 DEF PidInv, Forks, ForkShape
<1>2. /\ pid[x].state = "hashed" /\ (\A y \in Types : pid[x].tasks[y] = {})
      /\ \A b \in Actors : Forking(b) /\ work[b].pid = x => b = a
  BY <1>1, <1>x, ForkFacts
<1>3. /\ FreePids({x}, pid) /\ stage' = [stage EXCEPT ![a] = "idle"]
      /\ work' = [work EXCEPT ![a] = Idle]
      /\ UNCHANGED <<child_reaper, task, group>>
  BY <1>x DEF ForkFails, Done, AtStage, WorksOn
<1>4. ASSUME NEW n \in Nss, child_reaper[n] # Nil, adding[n]
      PROVE  \E z \in HashedIn(n) : z \notin {x}
  <2>1. Reaps(n)
    BY <1>4 DEF PidInv, Reapers, Nss
  <2>2. PICK r \in Kids : r = child_reaper[n] /\ Live(r) /\ NsOf(r) = n
    BY <2>1 DEF Reaps, Leads
  <2>3. PICK z \in Pids : z = task[r].pid /\ pid[z].state = "hashed" /\ pid[z].tasks["PID"] = {r}
    BY <2>2, ListFacts
  <2>4. z # x
    BY <1>2, <2>3, NssFacts
  <2>5. z \in HashedIn(n)
    BY <2>2, <2>3, NssFacts DEF HashedIn, NsOf
  <2> QED BY <2>4, <2>5
<1>5. /\ pid' \in [Pids -> PidRecords]
      /\ \A z \in Pids :
           /\ pid'[z].state = IF z \in {x} THEN "grace" ELSE pid[z].state
           /\ pid'[z].ns = pid[z].ns /\ pid'[z].nr = pid[z].nr /\ pid'[z].count = pid[z].count
           /\ pid'[z].tasks = pid[z].tasks
      /\ idr' \in [Nss -> [Numbers -> Pids \cup {Nil, Reserved}]] /\ Numbered'
      /\ pid_allocated' \in [Nss -> Int]
      /\ \A n \in Nss : pid_allocated'[n] = Cardinality(HashedIn(n)')
      /\ adding' \in [Nss -> BOOLEAN] /\ \A n \in Nss : adding'[n] => adding[n]
      /\ zap' = zap \/ (zap = "asleep" /\ zap' = "awake")
      /\ ~warned'
  <2>1. {x} \in SUBSET Pids /\ \A z \in {x} : pid[z].state = "hashed"
    BY <1>2
  <2>2. \A z \in Pids : /\ pid[z] \in PidRecords
                        /\ pid[z].state = pid[z].state /\ pid[z].ns = pid[z].ns
                        /\ pid[z].nr = pid[z].nr /\ pid[z].count = pid[z].count
    BY DEF PidInv, PidTypes
  <2> QED BY <1>3, <1>4, <2>1, <2>2, FreeFacts
<1>6. /\ stage'[a] = "idle" /\ \A b \in Actors : b # a => stage'[b] = stage[b] /\ work'[b] = work[b]
      /\ stage' \in [Actors -> Stages] /\ work' \in [Actors -> WorkRecords]
  <2>1. 0 \in 0 .. (pid_max - 1)
    BY DEF PidConstantsOK
  <2>2. Idle \in WorkRecords
    BY <2>1 DEF Idle, WorkRecords, LevelLists, Nss
  <2>3. work' \in [Actors -> WorkRecords]
    BY <1>3, <2>2 DEF PidInv, PidTypes
  <2> QED BY <1>3, <2>3 DEF PidInv, PidTypes, Stages
<1>7. PidTypes'
  <2>1. zap' \in {"none", "kill", "asleep", "awake", "done"}
    BY <1>5 DEF PidInv, PidTypes
  <2>2. /\ child_reaper' \in [Nss -> Kids \cup {Nil}]
        /\ task' \in [Kids -> [pid : Pids \cup {Nil}, group : Kids \cup {Nil}]]
        /\ group' \in [Kids -> GroupRecords]
    BY <1>3 DEF PidInv, PidTypes
  <2> QED BY <1>5, <1>6, <2>1, <2>2 DEF PidTypes
<1>8. /\ Grouped'
      /\ \A k \in Kids : /\ Live(k)' = Live(k) /\ Leads(k)' = Leads(k)
                         /\ InSub(k)' = InSub(k) /\ \A y : ListedUnder(k, y)' = ListedUnder(k, y)
      /\ \A n \in Nss : Reaps(n) => Reaps(n)'
  BY <1>3, <1>5, TasksKept
<1>9. Forks'
  <2>1. ASSUME NEW b \in Actors, Forking(b)'
        PROVE  ForkShape(b)' /\ Forking(b) /\ work'[b] = work[b]
    <3>1. b # a /\ Forking(b) /\ stage'[b] = stage[b] /\ work'[b] = work[b]
      BY <1>6, <2>1 DEF Forking, ForkStages
    <3>2. PICK z \in Pids : z = work[b].pid
      BY <3>1 DEF PidInv, Forks, ForkShape
    <3>3. z # x /\ Live(work[b].by)
      BY <1>2, <3>1, <3>2, ForkFacts
    <3>4. Live(work[b].by)'
      BY <1>3, <3>1, <3>3 DEF Live
    <3> QED BY <1>5, <3>1, <3>2, <3>3, <3>4, ForkKept
  <2>2. ASSUME NEW b \in Actors, stage'[b] \in {"found", "held"} PROVE HandShape(b)'
    <3>1. b # a
      BY <1>6, <2>2
    <3>2. HandShape(b) /\ stage'[b] = stage[b] /\ work'[b] = work[b]
      BY <1>6, <2>2, <3>1 DEF PidInv, Forks
    <3> QED BY <1>5, <3>2 DEF HandShape
  <2> QED BY <2>1, <2>2 DEF PidInv, Forks
<1>10. Counted'
  <2>1. \A z : Holders(z)' = Holders(z)
    BY <1>1, <1>6 DEF Holders
  <2>2. \A z \in Pids : pid'[z].state \in {"hashed", "grace"} <=> pid[z].state \in {"hashed", "grace"}
    BY <1>2, <1>5
  <2> QED BY <1>5, <2>1, <2>2 DEF PidInv, Counted
<1>11. Listed'
  <2>1. \A z \in Pids, y \in Types : pid'[z].tasks[y] = {k \in Kids : ListedUnder(k, y)' = z}
    BY <1>5, <1>8 DEF PidInv, Listed
  <2>2. \A j, k \in Kids : Live(k)' /\ task'[j].pid = task'[k].pid => j = k
    BY <1>3, <1>8 DEF PidInv, Listed
  <2>3. ASSUME NEW z \in Pids
        PROVE  pid'[z].state = "hashed" <=>
                 \/ \E y \in Types : pid'[z].tasks[y] # {}
                 \/ \E b \in Actors : stage'[b] = "attach" /\ work'[b].pid = z
    <3>1. pid[z].state = "hashed" <=> \/ \E y \in Types : pid[z].tasks[y] # {}
                                      \/ \E b \in Actors : stage[b] = "attach" /\ work[b].pid = z
      BY DEF PidInv, Listed
    <3>2. CASE z = x
      <4>1. \A b \in Actors : ~(stage'[b] = "attach" /\ work'[b].pid = x)
        BY <1>2, <1>6 DEF Forking, ForkStages
      <4> QED BY <1>2, <1>5, <3>2, <4>1
    <3>3. CASE z # x
      <4>1. \A b \in Actors : stage'[b] = "attach" /\ work'[b].pid = z
                              <=> stage[b] = "attach" /\ work[b].pid = z
        BY <1>1, <1>6, <1>x, <3>3
      <4> QED BY <1>5, <3>1, <3>3, <4>1
    <3> QED BY <3>2, <3>3
  <2> QED BY <2>1, <2>2, <2>3 DEF Listed
<1>12. Reapers'
  <2>1. \A k \in Kids : Live(k)' => Live(k) /\ task'[k].pid = task[k].pid
    BY <1>3, <1>8
  <2>2. \A n \in Nss : Reaps(n) => Leads(child_reaper[n])'
    BY <1>8 DEF Reaps
  <2> QED BY <1>3, <1>5, <2>1, <2>2, ReapersStay
<1> QED BY <1>5, <1>7, <1>8, <1>9, <1>10, <1>11, <1>12 DEF PidInv

-----------------------------------------------------------------------------
(* attach_pid(): the new task joins lists of pids that have tasks            *)

\* The task k has the pid x of the call of a, and is listed under to[y] for the
\* types y of to; it leads a group of its own or none.
Attached(a, k, x, to) ==
  /\ pid' = Joined(pid, k, to)
  /\ task' \in [Kids -> [pid : Pids \cup {Nil}, group : Kids \cup {Nil}]]
  /\ task'[k].pid = x /\ task'[k].group \in Kids /\ \A j \in Kids : j # k => task'[j] = task[j]
  /\ group' \in [Kids -> GroupRecords] /\ \A h \in Kids : h # k => group'[h] = group[h]
  /\ group'[task'[k].group].leader # Nil
  /\ group'[k].leader # Nil => /\ group'[k].leader = k /\ task'[k].group = k
                               /\ \A y \in GroupTypes : group'[k].pids[y] \in Pids
  /\ \A y \in Types : ListedUnder(k, y)' = IF y \in DOMAIN to THEN to[y] ELSE Nil
  /\ \A y \in DOMAIN to \cap Types : to[y] = x \/ (to[y] \in Pids /\ pid[to[y]].tasks[y] # {})
  /\ \/ child_reaper' = child_reaper
     \/ /\ work[a].ns = "sub" /\ child_reaper' = [child_reaper EXCEPT !["sub"] = k]
        /\ pid[x].nr["sub"] = 1 /\ Leads(k)'

LEMMA AttachedInv ==
  ASSUME PidConstantsOK, PidInv, NEW a \in Actors, stage[a] = "attach", adding[work[a].ns],
         NEW x \in Pids, x = work[a].pid, NEW k \in Kids, ~Live(k), group[k].leader = Nil,
         stage' = [stage EXCEPT ![a] = "idle"], work' = [work EXCEPT ![a] = Idle],
         UNCHANGED <<idr, pid_allocated, adding, zap, warned>>,
         NEW to, Attached(a, k, x, to)
  PROVE  PidInv'
<1>1. /\ Forking(a) /\ pid[x].state = "hashed" /\ (\A y \in Types : pid[x].tasks[y] = {})
      /\ pid[x].ns = work[a].ns /\ work[a].ns \in Nss
      /\ \A b \in Actors : Forking(b) /\ work[b].pid = x => b = a
  <2>1. Forking(a)
    BY DEF Forking, ForkStages
  <2>2. ForkShape(a) /\ work[a].ns \in Nss /\ \A b \in Actors : Forking(b) /\ work[b].pid = x => b = a
    BY <2>1, ForkFacts
  <2> QED BY <2>1, <2>2 DEF ForkShape
<1>2. /\ SamePids(pid')
      /\ \A z \in Pids, y \in Types : pid'[z].tasks[y] =
           IF y \in DOMAIN to /\ to[y] = z THEN pid[z].tasks[y] \cup {k} ELSE pid[z].tasks[y]
  <2>1. HasJoined(Joined(pid, k, to), pid, k, to)
    BY PidsSame, JoinedLists
  <2>2. PICK q : q = pid' /\ HasJoined(q, pid, k, to)
    BY <2>1 DEF Attached
  <2> QED BY <2>2 DEF HasJoined
<1>3. \A z \in Pids : /\ pid'[z] \in PidRecords
                      /\ pid'[z].state = pid[z].state /\ pid'[z].ns = pid[z].ns
                      /\ pid'[z].nr = pid[z].nr /\ pid'[z].count = pid[z].count
  BY <1>2 DEF SamePids
<1>4. pid' \in [Pids -> PidRecords]
  <2>1. pid' = [z \in Pids |-> pid'[z]]
    BY DEF Attached, Joined
  <2> QED BY <1>3, <2>1
<1>5. /\ task'[k].pid = x /\ task'[k].group \in Kids /\ (\A j \in Kids : j # k => task'[j] = task[j])
      /\ (\A h \in Kids : h # k => group'[h] = group[h])
      /\ (\A y \in Types : ListedUnder(k, y)' = IF y \in DOMAIN to THEN to[y] ELSE Nil)
      /\ (\A y \in DOMAIN to \cap Types : to[y] = x \/ (to[y] \in Pids /\ pid[to[y]].tasks[y] # {}))
  BY DEF Attached
<1>6. /\ stage'[a] = "idle" /\ \A b \in Actors : b # a => stage'[b] = stage[b] /\ work'[b] = work[b]
      /\ stage' \in [Actors -> Stages] /\ work' \in [Actors -> WorkRecords]
  <2>1. 0 \in 0 .. (pid_max - 1)
    BY DEF PidConstantsOK
  <2>2. Idle \in WorkRecords
    BY <2>1 DEF Idle, WorkRecords, LevelLists, Nss
  <2>3. work' \in [Actors -> WorkRecords]
    BY <2>2 DEF PidInv, PidTypes
  <2> QED BY <2>3 DEF PidInv, PidTypes, Stages
<1>7. Live(k)' /\ Nil \notin Pids /\ Nil \notin Kids
  BY <1>5 DEF Live, PidConstantsOK
<1>u. PICK lu : lu = [y \in Types |-> IF y \in DOMAIN to THEN to[y] ELSE Nil]
  OBVIOUS
\* The lists that it joins, by their type.
<1>l. ASSUME NEW y \in Types
      PROVE  /\ ListedUnder(k, y)' = lu[y]
             /\ \A z \in Pids :
                  /\ pid'[z].tasks[y] =
                       IF lu[y] = z THEN pid[z].tasks[y] \cup {k} ELSE pid[z].tasks[y]
                  /\ lu[y] = z => z = x \/ pid[z].tasks[y] # {}
  <2>1. lu[y] = IF y \in DOMAIN to THEN to[y] ELSE Nil
    BY <1>u
  <2>2. ASSUME NEW z \in Pids PROVE (y \in DOMAIN to /\ to[y] = z) <=> lu[y] = z
    BY <1>7, <2>1
  <2>3. y \in DOMAIN to => y \in DOMAIN to \cap Types
    OBVIOUS
  <2>4. ASSUME NEW z \in Pids, lu[y] = z PROVE z = x \/ pid[z].tasks[y] # {}
    BY <1>5, <2>2, <2>3, <2>4
  <2>5. ASSUME NEW z \in Pids
        PROVE  pid'[z].tasks[y] = IF lu[y] = z THEN pid[z].tasks[y] \cup {k} ELSE pid[z].tasks[y]
    <3>1. pid'[z].tasks[y] = IF y \in DOMAIN to /\ to[y] = z THEN pid[z].tasks[y] \cup {k}
                             ELSE pid[z].tasks[y]
      BY <1>2
    <3>2. CASE lu[y] = z
      BY <2>2, <3>1, <3>2
    <3>3. CASE lu[y] # z
      BY <2>2, <3>1, <3>3
    <3> QED BY <3>2, <3>3
  <2>6. ListedUnder(k, y)' = lu[y]
    BY <1>5, <2>1
  <2> QED BY <2>4, <2>5, <2>6
<1>m. ASSUME NEW z \in Pids, NEW y \in Types
      PROVE  /\ lu[y] = z => /\ z = x \/ pid[z].tasks[y] # {}
                             /\ pid'[z].tasks[y] = pid[z].tasks[y] \cup {k}
             /\ lu[y] # z => pid'[z].tasks[y] = pid[z].tasks[y]
  <2>1. pid'[z].tasks[y] = IF lu[y] = z THEN pid[z].tasks[y] \cup {k} ELSE pid[z].tasks[y]
    BY <1>l
  <2>2. lu[y] = z => z = x \/ pid[z].tasks[y] # {}
    BY <1>l
  <2> QED BY <2>1, <2>2
\* The others are where they were.
<1>8. ASSUME NEW j \in Kids, j # k
      PROVE  /\ task'[j] = task[j] /\ Live(j)' = Live(j)
             /\ Live(j) => task[j].group \in Kids /\ task[j].group # k
             /\ Leads(j)' = Leads(j) /\ \A y : ListedUnder(j, y)' = ListedUnder(j, y)
  <2>1. task'[j] = task[j] /\ Live(j)' = Live(j)
    BY <1>5, <1>8 DEF Live
  <2>2. Live(j) => task[j].group \in Kids /\ task[j].group # k
    BY DEF PidInv, Grouped
  <2>3. Leads(j)' = Leads(j)
    BY <1>5, <2>1, <2>2 DEF Leads, Live
  <2> QED BY <1>5, <2>1, <2>2, <2>3 DEF ListedUnder, Leads
<1>9. PidTypes'
  <2>1. child_reaper' \in [Nss -> Kids \cup {Nil}]
    BY DEF Attached, PidInv, PidTypes
  <2> QED BY <1>4, <1>6, <2>1 DEF PidInv, PidTypes, Attached
<1>10. Numbered'
  BY <1>3 DEF PidInv, Numbered
<1>11. Counted'
  <2>1. \A z : Holders(z)' = Holders(z)
    BY <1>6 DEF Holders
  <2>2. \A n \in Nss : HashedIn(n)' = HashedIn(n)
    BY <1>3 DEF HashedIn
  <2> QED BY <1>3, <2>1, <2>2 DEF PidInv, Counted
<1>12. Forks'
  <2>1. ASSUME NEW b \in Actors, Forking(b)'
        PROVE  ForkShape(b)' /\ Forking(b) /\ work'[b] = work[b]
    <3>1. b # a /\ Forking(b) /\ stage'[b] = stage[b] /\ work'[b] = work[b]
      BY <1>6, <2>1 DEF Forking, ForkStages
    <3>2. PICK z \in Pids : z = work[b].pid
      BY <3>1 DEF PidInv, Forks, ForkShape
    <3>3. /\ z # x /\ Live(work[b].by) /\ work[b].by \in Kids /\ ForkShape(b)
          /\ \A y \in Types : pid[z].tasks[y] = {}
      BY <1>1, <3>1, <3>2, ForkFacts
    <3>4. \A y \in Types : pid'[z].tasks[y] = {}
      BY <1>m, <3>3
    <3>5. Live(work[b].by)'
      <4>1. PICK j \in Kids : j = work[b].by /\ Live(j) /\ j # k
        BY <3>3
      <4>2. Live(j)' /\ work'[b].by = j
        BY <1>8, <3>1, <4>1
      <4> QED BY <4>2 DEF Live
    <3> QED BY <1>3, <3>1, <3>2, <3>3, <3>4, <3>5 DEF ForkShape, Live
  <2>2. ASSUME NEW b \in Actors, stage'[b] \in {"found", "held"} PROVE HandShape(b)'
    <3>1. b # a
      BY <1>6, <2>2
    <3>2. HandShape(b) /\ stage'[b] = stage[b] /\ work'[b] = work[b]
      BY <1>6, <2>2, <3>1 DEF PidInv, Forks
    <3> QED BY <1>3, <3>2 DEF HandShape
  <2> QED BY <2>1, <2>2 DEF PidInv, Forks
<1>13. Listed'
  <2>1. ASSUME NEW z \in Pids, NEW y \in Types
        PROVE  pid'[z].tasks[y] = {j \in Kids : ListedUnder(j, y)' = z}
    <3>1. pid[z].tasks[y] = {j \in Kids : ListedUnder(j, y) = z}
      BY DEF PidInv, Listed
    <3>2. ListedUnder(k, y) = Nil
      BY DEF ListedUnder, Live, Leads
    <3>3. k \notin pid[z].tasks[y]
      BY <1>7, <3>1, <3>2
    <3>4. ASSUME NEW j \in Kids PROVE j \in pid'[z].tasks[y] <=> ListedUnder(j, y)' = z
      <4>1. CASE j = k
        <5>1. ListedUnder(k, y)' = lu[y]
          BY <1>l
        <5>2. ListedUnder(j, y)' = lu[y]
          BY <4>1, <5>1 DEF ListedUnder, Leads, Live
        <5>3. k \in pid'[z].tasks[y] <=> lu[y] = z
          BY <1>m, <3>3
        <5> QED BY <4>1, <5>2, <5>3
      <4>2. CASE j # k
        <5>1. ListedUnder(j, y)' = ListedUnder(j, y)
          BY <1>8, <4>2
        <5>2. j \in pid'[z].tasks[y] <=> j \in pid[z].tasks[y]
          BY <1>m, <4>2
        <5> QED BY <3>1, <5>1, <5>2
      <4> QED BY <4>1, <4>2
    <3>5. pid'[z].tasks[y] \subseteq Kids
      BY <1>3 DEF PidRecords
    <3> QED BY <3>4, <3>5
  <2>2. ASSUME NEW i \in Kids, NEW j \in Kids, Live(j)', task'[i].pid = task'[j].pid PROVE i = j
    <3>1. \A h \in Kids : task[h].pid # x
      <4>1. pid[x].tasks["PID"] = {h \in Kids : task[h].pid = x}
        BY NssFacts DEF PidInv, Listed, ListedUnder
      <4> QED BY <1>1, <4>1, NssFacts
    <3>2. CASE i # k /\ j # k
      BY <1>8, <2>2, <3>2 DEF PidInv, Listed
    <3>3. CASE i = k \/ j = k
      BY <1>5, <1>8, <2>2, <3>1, <3>3
    <3> QED BY <3>2, <3>3
  <2>3. ASSUME NEW z \in Pids
        PROVE  pid'[z].state = "hashed" <=>
                 \/ \E y \in Types : pid'[z].tasks[y] # {}
                 \/ \E b \in Actors : stage'[b] = "attach" /\ work'[b].pid = z
    <3>1. pid[z].state = "hashed" <=> \/ \E y \in Types : pid[z].tasks[y] # {}
                                      \/ \E b \in Actors : stage[b] = "attach" /\ work[b].pid = z
      BY DEF PidInv, Listed
    <3>2. CASE z = x
      <4>1. k \in pid'[x].tasks["PID"]
        <5>1. ListedUnder(k, "PID")' = x
          BY <1>5 DEF ListedUnder
        <5> QED BY <2>1, <5>1, NssFacts
      <4> QED BY <1>1, <1>3, <3>2, <4>1, NssFacts
    <3>3. CASE z # x
      <4>1. \A b \in Actors : stage'[b] = "attach" /\ work'[b].pid = z
                              <=> stage[b] = "attach" /\ work[b].pid = z
        BY <1>6, <3>3
      <4>2. (\E y \in Types : pid'[z].tasks[y] # {}) <=> (\E y \in Types : pid[z].tasks[y] # {})
        BY <1>m, <3>3
      <4> QED BY <1>3, <3>1, <4>1, <4>2
    <3> QED BY <3>2, <3>3
  <2> QED BY <2>1, <2>2, <2>3 DEF Listed
<1>14. Grouped'
  <2>1. ASSUME NEW j \in Kids, Live(j)'
        PROVE  task'[j].group \in Kids /\ group'[task'[j].group].leader # Nil
    <3>1. CASE j = k
      BY <3>1 DEF Attached
    <3>2. CASE j # k
      BY <1>5, <1>8, <2>1, <3>2 DEF PidInv, Grouped
    <3> QED BY <3>1, <3>2
  <2>2. ASSUME NEW h \in Kids, group'[h].leader # Nil
        PROVE  \E l \in Kids : /\ l = group'[h].leader /\ Live(l)' /\ task'[l].group = h
                               /\ \A y \in GroupTypes : group'[h].pids[y] \in Pids
    <3>1. CASE h = k
      BY <1>7, <2>2, <3>1 DEF Attached
    <3>2. CASE h # k
      <4>1. group'[h] = group[h]
        BY <1>5, <3>2
      <4>2. PICK l \in Kids : l = group[h].leader
        BY <2>2, <4>1 DEF PidInv, PidTypes, GroupRecords
      <4>3. Live(l) /\ task[l].group = h /\ \A y \in GroupTypes : group[h].pids[y] \in Pids
        BY <2>2, <4>1, <4>2 DEF PidInv, Grouped
      <4>4. l # k /\ Live(l)' /\ task'[l] = task[l]
        BY <1>8, <4>3
      <4> QED BY <4>1, <4>2, <4>3, <4>4
    <3> QED BY <3>1, <3>2
  <2>3. \A j \in Kids : Live(j)' => task'[j].group \in Kids /\ group'[task'[j].group].leader # Nil
    BY <2>1
  <2> QED BY <2>2, <2>3 DEF Grouped, Live
<1>15. Reapers'
  <2>1. ASSUME NEW n \in Nss, Reaps(n), child_reaper'[n] = child_reaper[n] PROVE Reaps(n)'
    <3>1. PICK r \in Kids : r = child_reaper[n] /\ Leads(r) /\ Live(r)
      BY <2>1 DEF Reaps, Leads
    <3>2. r # k /\ Leads(r)' /\ task'[r] = task[r] /\ task[r].pid \in Pids
      BY <1>8, <3>1, ListFacts
    <3>3. NsOf(r) = n /\ pid[task[r].pid].nr[n] = 1
      BY <2>1, <3>1 DEF Reaps
    <3>4. pid'[task'[r].pid].ns = n /\ pid'[task'[r].pid].nr[n] = 1
      BY <1>3, <3>2, <3>3 DEF NsOf
    <3> QED BY <2>1, <3>1, <3>2, <3>4 DEF Reaps, NsOf, Leads, Live
  <2>2. CASE child_reaper' = child_reaper
    <3>1. Reaps("root")'
      BY <2>1, <2>2, NssFacts DEF PidInv, Reapers
    <3>2. child_reaper'["sub"] # Nil /\ zap' # "done" => Reaps("sub")'
      BY <2>1, <2>2, NssFacts DEF PidInv, Reapers
    <3>3. ASSUME zap = "done", NEW j \in Kids, InSub(j)' PROVE j = child_reaper["sub"]
      <4>1. ~adding["sub"]
        BY <3>3 DEF PidInv, Reapers
      <4>2. j # k
        BY <1>1, <1>3, <1>5, <3>3, <4>1 DEF InSub, NsOf
      <4>3. InSub(j)
        BY <1>3, <1>8, <3>3, <4>2, ListFacts DEF InSub, NsOf
      <4> QED BY <3>3, <4>3 DEF PidInv, Reapers, ReaperLast
    <3>4. ReaperLast'
      BY <2>2, <3>3 DEF ReaperLast
    <3> QED BY <2>2, <3>1, <3>2, <3>4 DEF PidInv, Reapers
  <2>3. CASE /\ work[a].ns = "sub" /\ child_reaper' = [child_reaper EXCEPT !["sub"] = k]
             /\ pid[x].nr["sub"] = 1 /\ Leads(k)'
    <3>1. child_reaper'["root"] = child_reaper["root"] /\ child_reaper'["sub"] = k
      BY <2>3, NssFacts DEF PidInv, PidTypes
    <3>2. Reaps("root")'
      BY <2>1, <3>1, NssFacts DEF PidInv, Reapers
    <3>3. Reaps("sub")'
      <4>1. pid'[task'[k].pid].ns = "sub" /\ pid'[task'[k].pid].nr["sub"] = 1
        BY <1>1, <1>3, <1>5, <2>3
      <4> QED BY <2>3, <3>1, <4>1 DEF Reaps, NsOf, Leads, Live
    <3>4. zap = "none"
      BY <2>3 DEF PidInv, Reapers
    <3> QED BY <3>2, <3>3, <3>4 DEF PidInv, Reapers, ReaperLast
  <2> QED BY <2>2, <2>3 DEF Attached
<1> QED BY <1>9, <1>10, <1>11, <1>12, <1>13, <1>14, <1>15 DEF PidInv

LEMMA AttachInv ==
  ASSUME PidConstantsOK, PidInv, NEW a \in Actors, Attach(a)
  PROVE  PidInv'
<1>1. /\ stage[a] = "attach" /\ adding[work[a].ns] /\ Forking(a)
      /\ stage' = [stage EXCEPT ![a] = "idle"] /\ work' = [work EXCEPT ![a] = Idle]
      /\ UNCHANGED <<idr, pid_allocated, adding, zap, warned>>
  BY DEF Attach, Done, AtStage, WorksOn, Forking, ForkStages
<1>k. PICK k \in Kids : /\ ~Live(k) /\ group[k].leader = Nil
                        /\ AttachProcess(a, k) \/ AttachThread(a, k)
  BY DEF Attach
<1>x. PICK x \in Pids : x = work[a].pid
  BY <1>1 DEF PidInv, Forks, ForkShape
<1>2. /\ pid[x].ns = work[a].ns /\ work[a].by \in Kids /\ Live(work[a].by)
      /\ pid[x].state = "hashed" /\ (\A y \in Types : pid[x].tasks[y] = {}) /\ work[a].ns \in Nss
  <2>1. Forking(a) /\ stage[a] = "attach"
    BY <1>1
  <2> QED BY <1>x, <2>1, ForkFacts
<1>b. PICK b \in Kids : b = work[a].by /\ Live(b)
  BY <1>2
<1>g. PICK g \in Kids : g = task[b].group /\ group[g].leader # Nil
  BY <1>b DEF PidInv, Grouped
<1>3. \A y \in GroupTypes : group[g].pids[y] \in Pids /\ pid[group[g].pids[y]].tasks[y] # {}
  <2>1. PICK l \in Kids : l = group[g].leader
    BY <1>g DEF PidInv, PidTypes, GroupRecords
  <2>2. Leads(l) /\ task[l].group = g
    BY <1>g, <2>1 DEF PidInv, Grouped, Leads
  <2> QED BY <2>2, ListFacts
<1>4. Nil \notin Kids /\ Nil \notin Pids
  BY DEF PidConstantsOK
<1>5. CASE AttachProcess(a, k)
  <2>1. PICK to : to = [y \in Types |-> IF y \in {"PID", "TGID"} THEN x ELSE group[g].pids[y]]
    OBVIOUS
  <2>2. PICK r : r = [leader |-> k, pids |-> [y \in GroupTypes |-> to[y]]]
    OBVIOUS
  <2>3. /\ group' = [group EXCEPT ![k] = r] /\ pid' = Joined(pid, k, to)
        /\ task' = [task EXCEPT ![k] = [pid |-> x, group |-> k]]
        /\ child_reaper' = IF pid[x].nr[work[a].ns] = 1 THEN [child_reaper EXCEPT ![work[a].ns] = k]
                           ELSE child_reaper
    <3> DEFINE its == group[task[work[a].by].group].pids
               joins == [y \in Types |-> IF y \in {"PID", "TGID"} THEN work[a].pid ELSE its[y]]
    <3>1. /\ group' = [group EXCEPT ![k] = [leader |-> k, pids |-> [y \in GroupTypes |-> joins[y]]]]
          /\ pid' = Joined(pid, k, joins)
          /\ task' = [task EXCEPT ![k] = [pid |-> work[a].pid, group |-> k]]
          /\ child_reaper' = IF pid[work[a].pid].nr[work[a].ns] = 1
                             THEN [child_reaper EXCEPT ![work[a].ns] = k] ELSE child_reaper
      BY <1>5, Zenon DEF AttachProcess
    <3>2. joins = to
      BY <1>b, <1>g, <1>x, <2>1
    <3> HIDE DEF its, joins
    <3>3. pid' = Joined(pid, k, to) /\ group' = [group EXCEPT ![k] = r]
      BY <2>2, <3>1, <3>2
    <3> QED BY <1>x, <3>1, <3>3
  <2>4. /\ DOMAIN to = Types /\ (\A y \in Types : to[y] \in Pids)
        /\ \A y \in Types : to[y] = x \/ (to[y] \in Pids /\ pid[to[y]].tasks[y] # {})
        /\ to["PID"] = x
    <3>1. \A y \in Types : y \notin {"PID", "TGID"} => y \in GroupTypes
      BY DEF GroupTypes
    <3> QED BY <1>3, <2>1, <3>1, NssFacts
  <2>5. /\ r \in GroupRecords /\ r.leader = k
        /\ \A y \in GroupTypes : r.pids[y] = to[y] /\ r.pids[y] \in Pids
    BY <2>2, <2>4, NssFacts DEF GroupRecords
  <2>6. /\ group' \in [Kids -> GroupRecords] /\ group'[k] = r
        /\ \A h \in Kids : h # k => group'[h] = group[h]
    BY <2>3, <2>5 DEF PidInv, PidTypes
  <2>7. /\ task' \in [Kids -> [pid : Pids \cup {Nil}, group : Kids \cup {Nil}]]
        /\ task'[k].pid = x /\ task'[k].group = k /\ \A j \in Kids : j # k => task'[j] = task[j]
    BY <2>3 DEF PidInv, PidTypes
  <2>8. Leads(k)' /\ Live(k)'
    BY <1>4, <2>5, <2>6, <2>7 DEF Leads, Live
  <2>9. \A y \in Types : ListedUnder(k, y)' = IF y \in DOMAIN to THEN to[y] ELSE Nil
    <3>1. ASSUME NEW y \in Types PROVE ListedUnder(k, y)' = to[y]
      <4>1. y # "PID" => y \in GroupTypes
        BY DEF GroupTypes
      <4> QED BY <2>4, <2>5, <2>6, <2>7, <2>8, <4>1 DEF ListedUnder
    <3> QED BY <2>4, <3>1
  \* Number 1 of "root" is the reaper's.
  <2>10. ASSUME work[a].ns = "root" PROVE pid[x].nr["root"] # 1
    <3>1. PICK r0 \in Kids : /\ r0 = child_reaper["root"] /\ Live(r0) /\ NsOf(r0) = "root"
                             /\ pid[task[r0].pid].nr["root"] = 1
      BY DEF PidInv, Reapers, Reaps, Leads
    <3>2. PICK z \in Pids : z = task[r0].pid /\ pid[z].state = "hashed" /\ pid[z].tasks["PID"] = {r0}
      BY <3>1, ListFacts
    <3>3. z # x
      BY <1>2, <3>2, NssFacts
    <3>4. pid[z].ns = "root" /\ "root" \in Levels("root")
      BY <3>1, <3>2, NssFacts DEF NsOf
    <3>5. idr["root"][1] = z
      BY <3>1, <3>2, <3>4 DEF PidInv, Numbered
    <3>6. idr["root"][pid[x].nr["root"]] = x
      BY <1>2, <2>10, <3>4 DEF PidInv, Numbered
    <3> QED BY <3>3, <3>5, <3>6
  <2>11. \/ child_reaper' = child_reaper
         \/ /\ work[a].ns = "sub" /\ child_reaper' = [child_reaper EXCEPT !["sub"] = k]
            /\ pid[x].nr["sub"] = 1
    BY <1>2, <2>3, <2>10 DEF Nss
  <2>12. Attached(a, k, x, to)
    BY <1>4, <2>3, <2>4, <2>5, <2>6, <2>7, <2>8, <2>9, <2>11 DEF Attached
  <2> QED BY <1>1, <1>k, <1>x, <2>12, AttachedInv
<1>6. CASE AttachThread(a, k)
  <2>1. PICK to : to = [y \in {"PID"} |-> x]
    OBVIOUS
  <2>2. /\ pid' = Joined(pid, k, to) /\ task' = [task EXCEPT ![k] = [pid |-> x, group |-> g]]
        /\ UNCHANGED <<child_reaper, group>>
    BY <1>6, <1>b, <1>g, <1>x, <2>1 DEF AttachThread
  <2>3. /\ task' \in [Kids -> [pid : Pids \cup {Nil}, group : Kids \cup {Nil}]]
        /\ task'[k].pid = x /\ task'[k].group = g /\ \A j \in Kids : j # k => task'[j] = task[j]
    BY <2>2 DEF PidInv, PidTypes
  <2>4. group[g].leader # k /\ g # k
    BY <1>k, <1>g DEF PidInv, Grouped
  <2>5. ~Leads(k)'
    BY <2>2, <2>3, <2>4 DEF Leads
  <2>6. \A y \in Types : ListedUnder(k, y)' = IF y \in DOMAIN to THEN to[y] ELSE Nil
    BY <2>1, <2>3, <2>5 DEF ListedUnder
  <2>7. \A y \in DOMAIN to \cap Types : to[y] = x
    BY <2>1
  <2>8. group' \in [Kids -> GroupRecords] /\ group'[k].leader = Nil /\ group'[g].leader # Nil
    BY <1>k, <1>g, <2>2 DEF PidInv, PidTypes
  <2>9. Attached(a, k, x, to)
    BY <2>2, <2>3, <2>6, <2>7, <2>8 DEF Attached
  <2> QED BY <1>1, <1>k, <1>x, <2>9, AttachedInv
<1> QED BY <1>k, <1>5, <1>6

-----------------------------------------------------------------------------
(* exchange_tids() and transfer_pid(): two tasks change places               *)

LEMMA ExecExchangeInv ==
  ASSUME PidConstantsOK, PidInv, NEW a \in Actors, ExecExchange(a)
  PROVE  PidInv'
<1>k. PICK k \in Kids :
        LET g == task[k].group
            old == group[g].leader
            Swap(S) == IF old \in S THEN (S \ {old}) \cup {k} ELSE S
        IN /\ Live(k) /\ old # k /\ ~InFork(k) /\ ~InFork(old)
           /\ InSub(k) => zap = "none"
           /\ pid' = [z \in Pids |-> [pid[z] EXCEPT !.tasks = [y \in Types |->
                IF y # "PID" THEN Swap(@[y])
                ELSE IF z = task[old].pid THEN {k} ELSE IF z = task[k].pid THEN {old} ELSE @[y]]]]
           /\ task' = [task EXCEPT ![k].pid = task[old].pid, ![old].pid = task[k].pid]
           /\ group' = [group EXCEPT ![g].leader = k]
           /\ child_reaper' = [n \in Nss |-> IF child_reaper[n] = old THEN k ELSE child_reaper[n]]
  BY DEF ExecExchange
<1>g. PICK g \in Kids : g = task[k].group /\ group[g].leader # Nil
  BY <1>k DEF PidInv, Grouped
<1>o. PICK old \in Kids : old = group[g].leader /\ Live(old) /\ task[old].group = g /\ Leads(old)
  BY <1>g DEF PidInv, PidTypes, GroupRecords, Grouped, Leads
<1>p. PICK p \in Pids : p = task[old].pid /\ pid[p].state = "hashed" /\ pid[p].tasks["PID"] = {old}
  BY <1>o, ListFacts
<1>q. PICK q \in Pids : q = task[k].pid /\ pid[q].state = "hashed" /\ pid[q].tasks["PID"] = {k}
  BY <1>k, ListFacts
<1>1. /\ old # k /\ Live(k) /\ ~Leads(k) /\ (InSub(k) => zap = "none") /\ p # q
      /\ Nil \notin Pids /\ Nil \notin Kids
  BY <1>k, <1>g, <1>o, <1>p, <1>q DEF Leads, PidConstantsOK
<1>2. /\ task' = [task EXCEPT ![k].pid = p, ![old].pid = q]
      /\ group' = [group EXCEPT ![g].leader = k]
      /\ child_reaper' = [n \in Nss |-> IF child_reaper[n] = old THEN k ELSE child_reaper[n]]
      /\ pid' = [z \in Pids |-> [pid[z] EXCEPT !.tasks = [y \in Types |->
           IF y # "PID" THEN IF old \in @[y] THEN (@[y] \ {old}) \cup {k} ELSE @[y]
           ELSE IF z = p THEN {k} ELSE IF z = q THEN {old} ELSE @[y]]]]
  BY <1>k, <1>g, <1>o, <1>p, <1>q
<1>3. UNCHANGED <<idr, pid_allocated, adding, zap, stage, work, warned>>
  BY DEF ExecExchange
\* The lists: those of the leader become those of k.
<1>4. ASSUME NEW z \in Pids
      PROVE  /\ pid'[z] \in PidRecords
             /\ pid'[z].state = pid[z].state /\ pid'[z].ns = pid[z].ns
             /\ pid'[z].nr = pid[z].nr /\ pid'[z].count = pid[z].count
             /\ \A y \in Types : y # "PID" =>
                  pid'[z].tasks[y] = IF old \in pid[z].tasks[y] THEN (pid[z].tasks[y] \ {old}) \cup {k}
                                     ELSE pid[z].tasks[y]
             /\ pid'[z].tasks["PID"] = IF z = p THEN {k} ELSE IF z = q THEN {old}
                                       ELSE pid[z].tasks["PID"]
  <2>1. PICK r \in PidRecords : r = pid[z]
    BY DEF PidInv, PidTypes
  <2>2. PICK t : t = [y \in Types |->
           IF y # "PID" THEN IF old \in r.tasks[y] THEN (r.tasks[y] \ {old}) \cup {k} ELSE r.tasks[y]
           ELSE IF z = p THEN {k} ELSE IF z = q THEN {old} ELSE r.tasks[y]]
    OBVIOUS
  <2>3. r.tasks \in [Types -> SUBSET Kids]
    BY DEF PidRecords
  <2>4. ASSUME NEW y \in Types PROVE t[y] \in SUBSET Kids
    BY <2>2, <2>3
  <2>5. t \in [Types -> SUBSET Kids]
    BY <2>2, <2>4
  <2>6. pid'[z] = [r EXCEPT !.tasks = t]
    BY <1>2, <2>1, <2>2
  <2>7. /\ [r EXCEPT !.tasks = t] \in PidRecords /\ [r EXCEPT !.tasks = t].state = r.state
        /\ [r EXCEPT !.tasks = t].ns = r.ns /\ [r EXCEPT !.tasks = t].nr = r.nr
        /\ [r EXCEPT !.tasks = t].count = r.count /\ [r EXCEPT !.tasks = t].tasks = t
    BY <2>5 DEF PidRecords
  <2>8. /\ \A y \in Types : y # "PID" =>
             t[y] = IF old \in r.tasks[y] THEN (r.tasks[y] \ {old}) \cup {k} ELSE r.tasks[y]
        /\ t["PID"] = IF z = p THEN {k} ELSE IF z = q THEN {old} ELSE r.tasks["PID"]
    BY <2>2, NssFacts
  <2> QED BY <2>1, <2>6, <2>7, <2>8
<1>5. pid' \in [Pids -> PidRecords]
  <2>1. pid' = [z \in Pids |-> pid'[z]]
    BY <1>2
  <2> QED BY <1>4, <2>1
<1>6. /\ task' \in [Kids -> [pid : Pids \cup {Nil}, group : Kids \cup {Nil}]]
      /\ \A j \in Kids : task'[j].group = task[j].group
      /\ task'[k].pid = p /\ task'[old].pid = q
      /\ \A j \in Kids : j # k /\ j # old => task'[j] = task[j]
  BY <1>1, <1>2 DEF PidInv, PidTypes
<1>7. /\ group' \in [Kids -> GroupRecords] /\ group'[g].leader = k
      /\ group'[g].pids = group[g].pids /\ \A h \in Kids : h # g => group'[h] = group[h]
  <2>1. PICK r \in GroupRecords : r = group[g]
    BY DEF PidInv, PidTypes
  <2>2. PICK s : s = [r EXCEPT !.leader = k]
    OBVIOUS
  <2>3. s \in GroupRecords /\ s.leader = k /\ s.pids = r.pids
    BY <2>2 DEF GroupRecords
  <2>4. group' = [group EXCEPT ![g] = s] /\ group \in [Kids -> GroupRecords]
    BY <1>2, <2>1, <2>2 DEF PidInv, PidTypes
  <2> QED BY <2>1, <2>3, <2>4
<1>8. /\ \A j \in Kids : Live(j)' = Live(j)
      /\ Leads(k)' /\ ~Leads(old)'
  <2>1. \A j \in Kids : Live(j)' = Live(j)
    BY <1>o, <1>1, <1>6 DEF Live
  <2>2. task'[k].group = g /\ task'[old].group = g /\ Live(k)' /\ group'[g].leader # old
    BY <1>g, <1>o, <1>1, <1>6, <1>7, <2>1
  <2>3. Leads(k)'
    BY <1>7, <2>2 DEF Leads, Live
  <2>4. ~Leads(old)'
    BY <2>2 DEF Leads
  <2> QED BY <2>1, <2>3, <2>4
<1>9. ASSUME NEW j \in Kids, j # k, j # old
      PROVE  task'[j] = task[j] /\ Leads(j)' = Leads(j) /\ \A y : ListedUnder(j, y)' = ListedUnder(j, y)
  <2>1. task'[j] = task[j] /\ Live(j)' = Live(j)
    BY <1>6, <1>8, <1>9
  <2>2. Live(j) => task[j].group \in Kids
    BY DEF PidInv, Grouped
  <2>3. Leads(j)' = Leads(j) /\ (Leads(j) => task[j].group # g)
    BY <1>o, <1>7, <1>9, <2>1, <2>2 DEF Leads, Live
  <2>4. Leads(j) => group'[task[j].group] = group[task[j].group]
    BY <1>7, <2>2, <2>3 DEF Leads
  <2> QED BY <2>1, <2>3, <2>4 DEF ListedUnder, Leads
<1>10. ASSUME NEW y \in Types
       PROVE  ListedUnder(k, y)' = ListedUnder(old, y) /\ ListedUnder(old, y)' = ListedUnder(k, y)
  <2>1. CASE y = "PID"
    BY <1>p, <1>q, <1>6, <2>1 DEF ListedUnder
  <2>2. CASE y # "PID"
    BY <1>g, <1>o, <1>1, <1>6, <1>7, <1>8, <2>2 DEF ListedUnder
  <2> QED BY <2>1, <2>2
<1>11. ASSUME NEW z \in Pids, NEW y \in Types
       PROVE  /\ pid'[z].tasks[y] = {j \in Kids : ListedUnder(j, y)' = z}
              /\ pid'[z].tasks[y] = {} <=> pid[z].tasks[y] = {}
  <2>1. pid[z].tasks[y] = {j \in Kids : ListedUnder(j, y) = z}
    BY DEF PidInv, Listed
  <2>2. \A j \in Kids : j # k /\ j # old => ListedUnder(j, y)' = ListedUnder(j, y)
    BY <1>9
  <2>3. CASE y = "PID"
    <3>1. ListedUnder(k, y)' = p /\ ListedUnder(old, y)' = q
      BY <1>p, <1>q, <1>10, <2>3 DEF ListedUnder
    <3>2. pid'[z].tasks[y] = IF z = p THEN {k} ELSE IF z = q THEN {old} ELSE pid[z].tasks[y]
      BY <1>4, <2>3
    <3>3. CASE z = p
      BY <1>p, <1>1, <2>1, <2>2, <2>3, <3>1, <3>2, <3>3
    <3>4. CASE z = q
      BY <1>q, <1>1, <2>1, <2>2, <2>3, <3>1, <3>2, <3>4
    <3>5. CASE z # p /\ z # q
      <4>1. ListedUnder(old, y) = p /\ ListedUnder(k, y) = q
        BY <1>p, <1>q, <2>3 DEF ListedUnder
      <4> QED BY <2>1, <2>2, <3>1, <3>2, <3>5, <4>1
    <3> QED BY <3>3, <3>4, <3>5
  <2>4. CASE y # "PID"
    <3>1. ListedUnder(k, y) = Nil /\ ListedUnder(old, y)' = Nil
          /\ ListedUnder(k, y)' = ListedUnder(old, y)
      BY <1>1, <1>10, <2>4 DEF ListedUnder
    <3>2. pid'[z].tasks[y] = IF old \in pid[z].tasks[y] THEN (pid[z].tasks[y] \ {old}) \cup {k}
                             ELSE pid[z].tasks[y]
      BY <1>4, <2>4
    <3>3. CASE old \in pid[z].tasks[y]
      <4>1. ListedUnder(k, y)' = z
        BY <2>1, <3>1, <3>3
      <4>2. pid'[z].tasks[y] = (pid[z].tasks[y] \ {old}) \cup {k}
        BY <3>2, <3>3
      <4>3. \A j \in Kids : j \in pid'[z].tasks[y] <=> ListedUnder(j, y)' = z
        BY <1>1, <2>1, <2>2, <3>1, <4>1, <4>2
      <4>4. pid'[z].tasks[y] \subseteq Kids
        BY <2>1, <4>2
      <4> QED BY <3>3, <4>2, <4>3, <4>4
    <3>4. CASE old \notin pid[z].tasks[y]
      <4>1. ListedUnder(k, y)' # z /\ ListedUnder(old, y) # z /\ Nil # z
        BY <1>1, <2>1, <3>1, <3>4
      <4>2. pid'[z].tasks[y] = pid[z].tasks[y]
        BY <3>2, <3>4
      <4>3. \A j \in Kids : ListedUnder(j, y)' = z <=> ListedUnder(j, y) = z
        BY <2>2, <3>1, <4>1
      <4> QED BY <2>1, <4>2, <4>3
    <3> QED BY <3>3, <3>4
  <2> QED BY <2>3, <2>4
<1>12. PidTypes'
  <2>1. child_reaper' \in [Nss -> Kids \cup {Nil}]
    BY <1>2 DEF PidInv, PidTypes
  <2> QED BY <1>3, <1>5, <1>6, <1>7, <2>1 DEF PidInv, PidTypes
<1>13. Numbered'
  BY <1>3, <1>4 DEF PidInv, Numbered
<1>14. Counted'
  <2>1. \A z : Holders(z)' = Holders(z)
    BY <1>3 DEF Holders
  <2>2. \A n \in Nss : HashedIn(n)' = HashedIn(n)
    BY <1>4 DEF HashedIn
  <2> QED BY <1>3, <1>4, <2>1, <2>2 DEF PidInv, Counted
<1>15. Forks'
  <2>1. ASSUME NEW b \in Actors, Forking(b)' PROVE ForkShape(b)'
    <3>1. Forking(b) /\ stage'[b] = stage[b] /\ work'[b] = work[b]
      BY <1>3, <2>1 DEF Forking
    <3>2. PICK z \in Pids : z = work[b].pid
      BY <3>1 DEF PidInv, Forks, ForkShape
    <3>3. ForkShape(b) /\ \A y \in Types : pid[z].tasks[y] = {}
      BY <3>1, <3>2, ForkFacts
    <3>4. \A y \in Types : pid'[z].tasks[y] = {}
      BY <1>11, <3>3
    <3>5. PICK j \in Kids : j = work[b].by /\ Live(j)
      BY <3>3 DEF ForkShape
    <3>6. Live(j)'
      BY <1>8, <3>5
    <3> QED BY <1>4, <3>1, <3>2, <3>3, <3>4, <3>5, <3>6 DEF ForkShape, Live
  <2>2. ASSUME NEW b \in Actors, stage'[b] \in {"found", "held"} PROVE HandShape(b)'
    <3>1. HandShape(b)
      BY <1>3, <2>2 DEF PidInv, Forks
    <3> QED BY <1>3, <1>4, <3>1 DEF HandShape
  <2> QED BY <1>3, <2>1, <2>2 DEF PidInv, Forks, Forking
<1>16. Listed'
  <2>1. \A z \in Pids, y \in Types : pid'[z].tasks[y] = {j \in Kids : ListedUnder(j, y)' = z}
    BY <1>11
  <2>2. ASSUME NEW i \in Kids, NEW j \in Kids, Live(j)', task'[i].pid = task'[j].pid PROVE i = j
    <3>1. \A h \in Kids : (task[h].pid = p <=> h = old) /\ (task[h].pid = q <=> h = k)
      BY <1>o, <1>p, <1>q, <1>1 DEF PidInv, Listed
    <3>2. CASE i \in {k, old} \/ j \in {k, old}
      BY <1>1, <1>6, <2>2, <3>1, <3>2
    <3>3. CASE i \notin {k, old} /\ j \notin {k, old}
      BY <1>6, <1>8, <2>2, <3>3 DEF PidInv, Listed
    <3> QED BY <3>2, <3>3
  <2>3. ASSUME NEW z \in Pids
        PROVE  pid'[z].state = "hashed" <=>
                 \/ \E y \in Types : pid'[z].tasks[y] # {}
                 \/ \E b \in Actors : stage'[b] = "attach" /\ work'[b].pid = z
    <3>1. pid[z].state = "hashed" <=> \/ \E y \in Types : pid[z].tasks[y] # {}
                                      \/ \E b \in Actors : stage[b] = "attach" /\ work[b].pid = z
      BY DEF PidInv, Listed
    <3> QED BY <1>3, <1>4, <1>11, <3>1
  <2> QED BY <2>1, <2>2, <2>3 DEF Listed
<1>17. Grouped'
  <2>1. ASSUME NEW j \in Kids, Live(j)'
        PROVE  task'[j].group \in Kids /\ group'[task'[j].group].leader # Nil
    <3>1. task[j].group \in Kids /\ group[task[j].group].leader # Nil
      BY <1>8, <2>1 DEF PidInv, Grouped
    <3> QED BY <1>1, <1>6, <1>7, <3>1
  <2>2. ASSUME NEW h \in Kids, group'[h].leader # Nil
        PROVE  \E l \in Kids : /\ l = group'[h].leader /\ Live(l)' /\ task'[l].group = h
                               /\ \A y \in GroupTypes : group'[h].pids[y] \in Pids
    <3>1. CASE h = g
      <4>1. \A y \in GroupTypes : group[g].pids[y] \in Pids
        BY <1>g DEF PidInv, Grouped
      <4> QED BY <1>g, <1>1, <1>6, <1>7, <1>8, <3>1, <4>1
    <3>2. CASE h # g
      <4>1. group'[h] = group[h]
        BY <1>7, <3>2
      <4>2. PICK l \in Kids : l = group[h].leader
        BY <2>2, <4>1 DEF PidInv, PidTypes, GroupRecords
      <4>3. Live(l) /\ task[l].group = h /\ \A y \in GroupTypes : group[h].pids[y] \in Pids
        BY <2>2, <4>1, <4>2 DEF PidInv, Grouped
      <4> QED BY <1>6, <1>8, <4>1, <4>2, <4>3
    <3> QED BY <3>1, <3>2
  <2>3. \A j \in Kids : Live(j)' => task'[j].group \in Kids /\ group'[task'[j].group].leader # Nil
    BY <2>1
  <2> QED BY <2>2, <2>3 DEF Grouped, Live
<1>18. Reapers'
  <2>1. ASSUME NEW n \in Nss, Reaps(n) PROVE Reaps(n)'
    <3>1. PICK r \in Kids : r = child_reaper[n] /\ Leads(r) /\ Live(r)
      BY <2>1 DEF Reaps, Leads
    <3>2. NsOf(r) = n /\ pid[task[r].pid].nr[n] = 1 /\ task[r].pid \in Pids
      BY <2>1, <3>1, ListFacts DEF Reaps
    <3>3. PICK s \in Kids : s = IF r = old THEN k ELSE r
      OBVIOUS
    <3>4. child_reaper'[n] = s
      BY <1>2, <3>1, <3>3
    <3>5. r # k
      BY <1>1, <3>1
    <3>6. task'[s].pid = task[r].pid /\ Leads(s)'
      BY <1>p, <1>6, <1>8, <1>9, <3>1, <3>3, <3>5
    <3>7. pid'[task'[s].pid].ns = n /\ pid'[task'[s].pid].nr[n] = 1
      BY <1>4, <3>2, <3>6 DEF NsOf
    <3> QED BY <3>4, <3>6, <3>7 DEF Reaps, NsOf, Leads, Live
  <2>2. \A n \in Nss : child_reaper'[n] # Nil <=> child_reaper[n] # Nil
    BY <1>o, <1>1, <1>2
  <2>3. Reaps("root")' /\ (child_reaper'["sub"] # Nil /\ zap' # "done" => Reaps("sub")')
    BY <1>3, <2>1, <2>2, NssFacts DEF PidInv, Reapers
  <2>4. zap' # "none" => ~adding'["sub"] /\ child_reaper'["sub"] # Nil
    BY <1>3, <2>2, NssFacts DEF PidInv, Reapers
  <2>5. ASSUME zap = "done", NEW j \in Kids, InSub(j)' PROVE j = child_reaper'["sub"]
    <3>1. \A h \in Kids : InSub(h) => h = child_reaper["sub"]
      BY <2>5 DEF PidInv, Reapers, ReaperLast
    <3>2. Live(j) /\ pid'[task'[j].pid].ns = "sub"
      BY <1>8, <2>5 DEF InSub, NsOf
    <3>3. CASE j = k
      <4>1. InSub(old)
        BY <1>o, <1>p, <1>4, <1>6, <3>2, <3>3 DEF InSub, NsOf
      <4> QED BY <1>2, <3>1, <3>3, <4>1, NssFacts
    <3>4. CASE j = old
      <4>1. InSub(k)
        BY <1>q, <1>1, <1>4, <1>6, <3>2, <3>4 DEF InSub, NsOf
      <4> QED BY <1>1, <2>5, <4>1
    <3>5. CASE j # k /\ j # old
      <4>1. InSub(j)
        BY <1>4, <1>9, <3>2, <3>5, ListFacts DEF InSub, NsOf
      <4> QED BY <1>2, <3>1, <3>5, <4>1, NssFacts
    <3> QED BY <3>3, <3>4, <3>5
  <2>6. ReaperLast'
    BY <1>3, <2>5 DEF ReaperLast
  <2> QED BY <1>3, <2>3, <2>4, <2>6 DEF PidInv, Reapers
<1> QED BY <1>12, <1>13, <1>14, <1>15, <1>16, <1>17, <1>18 DEF PidInv

-----------------------------------------------------------------------------
(* The invariant                                                             *)

LEMMA PidInitInv ==
  ASSUME PidConstantsOK, PidInit
  PROVE  PidInv
<1>p. PICK p \in Pids : p = CHOOSE x \in Pids : TRUE
  BY DEF PidConstantsOK
<1>k. PICK k \in Kids : k = CHOOSE x \in Kids : TRUE
  BY DEF PidConstantsOK
<1>1. /\ idr = [n \in Nss |-> [i \in Numbers |-> IF n = "root" /\ i = 1 THEN p ELSE Nil]]
      /\ pid_allocated = [n \in Nss |-> IF n = "root" THEN 1 ELSE 0]
      /\ adding = [n \in Nss |-> TRUE]
      /\ child_reaper = [n \in Nss |-> IF n = "root" THEN k ELSE Nil]
      /\ zap = "none" /\ ~warned
      /\ pid = [x \in Pids |->
           IF x = p THEN [NoPid EXCEPT !.state = "hashed", !.nr["root"] = 1, !.count = 1,
                                       !.tasks = [y \in Types |-> {k}]]
           ELSE NoPid]
      /\ task = [x \in Kids |-> IF x = k THEN [pid |-> p, group |-> k] ELSE Unborn]
      /\ group = [x \in Kids |->
           IF x = k THEN [leader |-> k, pids |-> [y \in GroupTypes |-> p]] ELSE NoGroup]
      /\ stage = [a \in Actors |-> "idle"] /\ work = [a \in Actors |-> Idle]
  BY <1>p, <1>k DEF PidInit
<1>2. Nil \notin Pids /\ Nil \notin Kids /\ Reserved \notin Pids /\ 1 \in Numbers /\ 0 \notin Numbers
  BY NssFacts DEF PidConstantsOK
<1>3. /\ 0 \in 0 .. (pid_max - 1) /\ 1 \in 0 .. (pid_max - 1)
      /\ NoPid \in PidRecords /\ NoPid.state = "free" /\ NoPid.ns = "root" /\ NoPid.count = 0
      /\ NoPid.nr = [n \in Nss |-> 0] /\ NoPid.tasks = [y \in Types |-> {}]
  <2>1. 0 \in 0 .. (pid_max - 1) /\ 1 \in 0 .. (pid_max - 1)
    BY DEF PidConstantsOK
  <2>2. "root" \in Nss /\ "free" \in PidStates
    BY DEF Nss, PidStates
  <2> QED BY <2>1, <2>2 DEF NoPid, PidRecords
<1>4. PICK u : u = [n \in Nss |-> IF n = "root" THEN 1 ELSE 0]
  OBVIOUS
<1>5. u \in [Nss -> 0 .. (pid_max - 1)] /\ u["root"] = 1 /\ u["sub"] = 0
  BY <1>3, <1>4 DEF Nss
<1>6. /\ pid[p].state = "hashed" /\ pid[p].ns = "root" /\ pid[p].nr = u /\ pid[p].count = 1
      /\ (\A y \in Types : pid[p].tasks[y] = {k}) /\ pid[p] \in PidRecords
  <2>1. PICK r : r = [NoPid EXCEPT !.state = "hashed", !.nr["root"] = 1, !.count = 1,
                                   !.tasks = [y \in Types |-> {k}]]
    OBVIOUS
  <2>2. r = [state |-> "hashed", ns |-> "root", nr |-> u, count |-> 1, tasks |-> [y \in Types |-> {k}]]
    <3>1. u = [[n \in Nss |-> 0] EXCEPT !["root"] = 1]
      BY <1>4 DEF Nss
    <3> QED BY <2>1, <3>1 DEF NoPid
  <2>3. r \in PidRecords
    <3>1. [y \in Types |-> {k}] \in [Types -> SUBSET Kids]
      OBVIOUS
    <3>2. "root" \in Nss /\ "hashed" \in PidStates
      BY DEF Nss, PidStates
    <3> QED BY <1>5, <2>2, <3>1, <3>2 DEF PidRecords
  <2>4. pid[p] = r
    BY <1>1, <2>1
  <2> QED BY <2>2, <2>3, <2>4
<1>7. \A x \in Pids : x # p => pid[x] = NoPid
  BY <1>1
<1>8. /\ task[k] = [pid |-> p, group |-> k] /\ \A j \in Kids : j # k => task[j] = Unborn
      /\ group[k] = [leader |-> k, pids |-> [y \in GroupTypes |-> p]]
      /\ \A j \in Kids : j # k => group[j] = NoGroup
  BY <1>1
<1>9. /\ Live(k) /\ Leads(k) /\ \A j \in Kids : j # k => ~Live(j) /\ task[j].pid = Nil
  BY <1>2, <1>8 DEF Live, Leads, Unborn
<1>10. \A y \in Types : /\ ListedUnder(k, y) = p
                        /\ \A j \in Kids : j # k => ListedUnder(j, y) = Nil
  <2>1. \A y \in Types : y # "PID" => y \in GroupTypes
    BY DEF GroupTypes
  <2> QED BY <1>8, <1>9, <2>1 DEF ListedUnder, Leads
<1>11. \A b \in Actors : stage[b] = "idle" /\ ~Forking(b)
  BY <1>1 DEF Forking, ForkStages
<1>12. PidTypes
  <2>1. idr \in [Nss -> [Numbers -> Pids \cup {Nil, Reserved}]]
    BY <1>1
  <2>2. pid \in [Pids -> PidRecords]
    <3>1. \A x \in Pids : pid[x] \in PidRecords
      BY <1>3, <1>6, <1>7
    <3> QED BY <1>1, <3>1
  <2>3. group \in [Kids -> GroupRecords]
    BY <1>1 DEF GroupRecords, NoGroup
  <2>4. Idle \in WorkRecords
    BY <1>3 DEF Idle, WorkRecords, LevelLists, Nss
  <2>5. work \in [Actors -> WorkRecords]
    BY <1>1, <2>4
  <2>6. task \in [Kids -> [pid : Pids \cup {Nil}, group : Kids \cup {Nil}]]
    BY <1>1 DEF Unborn
  <2> QED BY <1>1, <2>1, <2>2, <2>3, <2>5, <2>6 DEF PidTypes, Stages
<1>13. Forks
  BY <1>11 DEF Forks
<1>14. Numbered
  <2>1. Levels("root") = {"root"} /\ "root" \in Nss
    BY DEF Levels, Nss
  <2>2. \A x \in Pids, n \in Nss : pid[x].nr[n] # 0 => x = p /\ n = "root"
    BY <1>3, <1>5, <1>6, <1>7 DEF Nss
  <2>3. \A n \in Nss, i \in Numbers : idr[n][i] = IF n = "root" /\ i = 1 THEN p ELSE Nil
    BY <1>1
  <2>4. \A x \in Pids : pid[x].state = "hashed" => x = p
    BY <1>3, <1>7
  <2> QED BY <1>2, <1>5, <1>6, <2>1, <2>2, <2>3, <2>4 DEF Numbered
<1>15. Counted
  <2>1. HashedIn("root") = {p} /\ HashedIn("sub") = {}
    BY <1>3, <1>6, <1>7 DEF HashedIn, Levels
  <2>2. \A x \in Pids : Holders(x) = {}
    BY <1>11 DEF Holders
  <2>3. Cardinality({p}) = 1 /\ Cardinality({}) = 0
    BY FS_EmptySet, FS_Singleton
  <2>4. pid_allocated["root"] = 1 /\ pid_allocated["sub"] = 0
    BY <1>1 DEF Nss
  <2>5. \A n \in Nss : pid_allocated[n] = Cardinality(HashedIn(n))
    BY <2>1, <2>3, <2>4 DEF Nss
  <2>6. \A x \in Pids : pid[x].count = (IF pid[x].state \in {"hashed", "grace"} THEN 1 ELSE 0) + 0
    BY <1>3, <1>6, <1>7
  <2> QED BY <2>2, <2>3, <2>5, <2>6 DEF Counted
<1>16. Listed
  <2>1. ASSUME NEW x \in Pids, NEW y \in Types
        PROVE  pid[x].tasks[y] = {j \in Kids : ListedUnder(j, y) = x}
    <3>1. CASE x = p
      BY <1>2, <1>6, <1>10, <3>1
    <3>2. CASE x # p
      <4>1. pid[x].tasks[y] = {}
        BY <1>3, <1>7, <3>2
      <4> QED BY <1>2, <1>10, <3>2, <4>1
    <3> QED BY <3>1, <3>2
  <2>2. \A i, j \in Kids : Live(j) /\ task[i].pid = task[j].pid => i = j
    BY <1>9 DEF Live
  <2>3. \A x \in Pids : pid[x].state = "hashed" <=> \E y \in Types : pid[x].tasks[y] # {}
    BY <1>3, <1>6, <1>7, NssFacts
  <2> QED BY <1>11, <2>1, <2>2, <2>3 DEF Listed
<1>17. Grouped
  <2>1. NoGroup.leader = Nil
    BY DEF NoGroup
  <2> QED BY <1>2, <1>8, <1>9, <2>1 DEF Grouped
<1>18. Reapers
  <2>1. child_reaper["root"] = k /\ child_reaper["sub"] = Nil
    BY <1>1 DEF Nss
  <2>2. Reaps("root")
    BY <1>5, <1>6, <1>8, <1>9, <2>1 DEF Reaps, NsOf
  <2> QED BY <1>1, <2>1, <2>2 DEF Reapers, ReaperLast
<1> QED BY <1>12, <1>13, <1>14, <1>15, <1>16, <1>17, <1>18 DEF PidInv

LEMMA PidStepInv ==
  ASSUME PidConstantsOK, PidInv, [PidNext]_pidVars
  PROVE  PidInv'
<1>1. CASE UNCHANGED pidVars
  BY <1>1, PidStutter DEF pidVars
<1>2. ASSUME NEW a \in Actors, PidStep(a) PROVE PidInv'
  BY <1>2, AllocNumberInv, MakeVisibleInv, UnwindInv, AttachInv, ForkFailsInv, GetPidInv, PutPidInv
  DEF PidStep
<1>3. ASSUME NEW a \in Actors, PidCall(a) PROVE PidInv'
  BY <1>3, AllocBeginInv, SetSidInv, ExecExchangeInv, FindInv DEF PidCall
<1>4. ASSUME NEW k \in Kids, Detach(k) PROVE PidInv'
  BY <1>4, DetachInv
<1>5. ASSUME NEW x \in Pids, DelayedPutPid(x) PROVE PidInv'
  BY <1>5, DelayedPutPidInv
<1>6. CASE ZapBegin \/ ZapKill \/ ZapCheck
  BY <1>6, ZapBeginInv, ZapKillInv, ZapCheckInv
<1> QED BY <1>1, <1>2, <1>3, <1>4, <1>5, <1>6 DEF PidNext

\* For every number of pids, tasks, callers and numbers: the forks, the numbers,
\* the lists, the counts and the reapers stay as the argument above has them.
THEOREM PidInvariant ==
  ASSUME PidConstantsOK
  PROVE  PidSpec => []PidInv
<1>1. PidInit => PidInv
  BY PidInitInv
<1>2. PidInv /\ [PidNext]_pidVars => PidInv'
  BY PidStepInv
<1> QED BY <1>1, <1>2, PTL DEF PidSpec

\* A number leads to one pid, which tasks or a fork hold and nobody has freed;
\* the counts of the pids and of the namespaces are those of their users; and a
\* reaper that has found itself alone stays alone (alloc_pid(), free_pid(),
\* __change_pid(), transfer_pid(), zap_pid_ns_processes()).
THEOREM PidTableExact ==
  ASSUME PidConstantsOK
  PROVE  PidSpec => []PidsExact
<1>1. PidInv => PidsExact
  <2> SUFFICES ASSUME PidInv PROVE PidsExact
    OBVIOUS
  <2>1. \A n \in Nss :
          pid_allocated[n] = Cardinality({x \in Pids : pid[x].state = "hashed"
                                                       /\ n \in Levels(pid[x].ns)})
    BY DEF PidInv, Counted, HashedIn
  <2>2. \A x \in Pids :
          /\ pid[x].state = "hashed" => \A n \in Levels(pid[x].ns) : idr[n][pid[x].nr[n]] = x
          /\ (pid[x].state = "hashed")
               <=> \/ \E y \in Types : pid[x].tasks[y] # {}
                   \/ \E a \in Actors : stage[a] = "attach" /\ work[a].pid = x
    BY DEF PidInv, Numbered, Listed
  <2>3. \A x \in Pids :
          pid[x].count = (IF pid[x].state \in {"hashed", "grace"} THEN 1 ELSE 0)
            + Cardinality({a \in Actors : stage[a] = "held" /\ work[a].pid = x})
    BY DEF PidInv, Counted, Holders
  <2>4. \A k \in Kids : Live(k) =>
          /\ pid[task[k].pid].tasks["PID"] = {k}
          /\ Leads(k) => \A y \in GroupTypes : k \in pid[group[task[k].group].pids[y]].tasks[y]
    BY ListFacts
  <2>5. ~warned /\ ReaperLast
    BY DEF PidInv, Reapers
  <2> QED BY <2>1, <2>2, <2>3, <2>4, <2>5 DEF PidsExact, NumbersExact
<1> QED BY <1>1, PidInvariant, PTL
=============================================================================
