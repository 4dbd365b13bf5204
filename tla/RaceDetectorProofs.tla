------------------------- MODULE RaceDetectorProofs -------------------------
(***************************************************************************)
(* What the race detectors log, for every number of threads, locks and     *)
(* addresses and every bound on the trace: DJIT+ logs races only, and all  *)
(* that it can see; FastTrack does so for writes after writes, and its R-W *)
(* and W-R logs are no part of the theorems, as they may be false.         *)
(*                                                                         *)
(* The argument has two halves.  HbInv relates the vector clocks to        *)
(* happens-before.  What happens before the next event of a thread is in   *)
(* its clock (PastKnown); and no clock knows of a frame of a thread before *)
(* that thread has left it by a release, a creation or its end (Ahead), so *)
(* an access of a later frame than the first that a clock knows of did     *)
(* happen before (KnownPast), unless a thread began late.  StackSound says *)
(* that the stack of parents is as deep as there are threads that were     *)
(* created and have not ended, hence its top is their creator, provided    *)
(* only one thread creates others (OneCreator): with two of them the top   *)
(* may be the wrong one, and the theorems are false.                       *)
(* The other half relates what the tools remember to the trace: the        *)
(* histories of DJIT+ (HistoryExact), the write epochs of FastTrack        *)
(* (LastWriteExact).                                                       *)
(***************************************************************************)
EXTENDS RaceDetector, FiniteSetTheorems, SequenceTheorems, TLAPS

\* The stack of parents is right.
OneCreator == \A p, q \in Creators : p = q

States == {"unborn", "created", "running", "ended"}
AccessType == [tid : Tids, addr : Vars, isWrite : BOOLEAN, frame : Nat,
               before : SUBSET Nat, kept : BOOLEAN]

HbTypes ==
  /\ C \in [Tids -> [Tids -> Nat]] /\ L \in [Locks -> [Tids -> Nat]]
  /\ S \in Seq(Creators)
  /\ state \in [Tids -> States] /\ parent \in [Tids -> Tids \cup {NoOne}]
  /\ late \in BOOLEAN
  /\ accesses \in Seq(AccessType)
  /\ past \in [Tids -> SUBSET DOMAIN accesses]
  /\ lockPast \in [Locks -> SUBSET DOMAIN accesses]

\* The stack holds the creator, once for each thread that has not ended.
Started == {u \in Tids \ {0} : state[u] \in {"created", "running"}}

StackSound ==
  /\ Len(S) = Cardinality(Started)
  /\ \A u \in Started : /\ parent[u] \in Creators /\ parent[u] # u
                        /\ state[parent[u]] \in {"running", "ended"}
  /\ \A u \in Tids : state[u] \in {"unborn", "created"} =>
       /\ u # 0 /\ C[u] = [w \in Tids |-> 1]
       /\ \A i \in DOMAIN accesses : accesses[i].tid # u

\* Happens-before is in the clocks.
PastKnown ==
  /\ \A i \in DOMAIN accesses : i \in past[accesses[i].tid]
  /\ \A t \in Tids : state[t] # "created" =>
       \A i \in past[t] : accesses[i].frame <= C[t][accesses[i].tid]
  /\ \A t \in Tids : state[t] = "created" => past[t] \subseteq past[parent[t]]
  /\ \A l \in Locks : \A i \in lockPast[l] :
       accesses[i].frame <= L[l][accesses[i].tid]

\* The clocks know of no frame that its thread has not left, but the first.
Ahead ==
  /\ \A t, u \in Tids : t # u => C[t][u] < C[u][u] \/ C[t][u] <= 1
  /\ \A l \in Locks, u \in Tids : L[l][u] < C[u][u] \/ L[l][u] <= 1

\* What the clocks know of, past first frames, did happen before.
KnownPast ==
  ~late => \A i \in DOMAIN accesses : accesses[i].frame > 1 =>
    /\ \A t \in Tids : accesses[i].frame <= C[t][accesses[i].tid] => i \in past[t]
    /\ \A l \in Locks : accesses[i].frame <= L[l][accesses[i].tid] => i \in lockPast[l]

HbInv == HbTypes /\ StackSound /\ PastKnown /\ Ahead /\ KnownPast

\* What the trace remembers.
IsAccess(i, u, v, write, frame) ==
  /\ accesses[i].tid = u /\ accesses[i].addr = v /\ accesses[i].isWrite = write
  /\ accesses[i].frame = frame

HistoryExact ==
  mode = "djit" =>
    /\ \A v \in Vars, u \in Tids :
         /\ history[v][u].write > 0 =>
              \E i \in DOMAIN accesses : IsAccess(i, u, v, TRUE, history[v][u].write)
         /\ history[v][u].read > 0 =>
              \E i \in DOMAIN accesses : IsAccess(i, u, v, FALSE, history[v][u].read)
    /\ \A i \in DOMAIN accesses : accesses[i].kept =>
         accesses[i].frame <= IF accesses[i].isWrite
                              THEN history[accesses[i].addr][accesses[i].tid].write
                              ELSE history[accesses[i].addr][accesses[i].tid].read

\* i is a write that was taken, and the last one to its address.
LastTaken(i) ==
  /\ accesses[i].isWrite /\ accesses[i].kept
  /\ \A j \in (i + 1) .. Len(accesses) :
       ~(/\ accesses[j].isWrite /\ accesses[j].kept
         /\ accesses[j].addr = accesses[i].addr)

LastWriteExact ==
  mode = "fasttrack" =>
    /\ \A v \in Vars : writeEpoch[v] # F!NoEpoch =>
         \E i \in DOMAIN accesses : IsAccess(i, writeEpoch[v][2], v, TRUE, writeEpoch[v][1])
    /\ \A i \in DOMAIN accesses :
         LastTaken(i) =>
           writeEpoch[accesses[i].addr] = <<accesses[i].frame, accesses[i].tid>>

RacesInTrace == \A r \in races : r[1] \in DOMAIN accesses

-----------------------------------------------------------------------------
(* The steps of locks and threads *)

LEMMA Typing ==
  ASSUME HbTypes
  PROVE  /\ \A t, u \in Tids : C[t][u] \in Nat
         /\ \A l \in Locks, u \in Tids : L[l][u] \in Nat
         /\ DOMAIN accesses = 1 .. Len(accesses) /\ Len(accesses) \in Nat
         /\ \A i \in DOMAIN accesses :
              /\ accesses[i].tid \in Tids /\ accesses[i].addr \in Vars
              /\ accesses[i].isWrite \in BOOLEAN /\ accesses[i].kept \in BOOLEAN
              /\ accesses[i].frame \in Nat
         /\ \A t \in Tids : past[t] \subseteq DOMAIN accesses
         /\ \A l \in Locks : lockPast[l] \subseteq DOMAIN accesses
<1>1. \A i \in DOMAIN accesses : accesses[i] \in AccessType
  BY DEF HbTypes
<1>2. \A i \in DOMAIN accesses :
        /\ accesses[i].tid \in Tids /\ accesses[i].addr \in Vars
        /\ accesses[i].isWrite \in BOOLEAN /\ accesses[i].kept \in BOOLEAN
        /\ accesses[i].frame \in Nat
  BY <1>1 DEF AccessType
<1> QED
  BY <1>2 DEF HbTypes

LEMMA InitHb ==
  ASSUME ConstantsOK, InitClocks
  PROVE  HbInv
<1>1. HbTypes
  <2>1. 0 \in Tids
    BY DEF ConstantsOK, Tids
  <2>2. accesses \in Seq(AccessType) /\ S \in Seq(Creators)
    BY DEF InitClocks
  <2> QED
    BY <2>1, <2>2 DEF InitClocks, HbTypes, NoOne, States
<1>2. StackSound
  <2>1. Started = {}
    BY DEF InitClocks, Started, Tids
  <2>2. Len(S) = Cardinality(Started)
    BY <2>1, FS_EmptySet DEF InitClocks
  <2> QED
    BY <2>1, <2>2 DEF InitClocks, StackSound, Tids
<1>3. PastKnown /\ Ahead /\ KnownPast
  BY DEF ConstantsOK, InitClocks, PastKnown, Ahead, KnownPast, Tids
<1> QED
  BY <1>1, <1>2, <1>3 DEF HbInv

\* The releasing thread leaves the frame that its lock now knows of.
LEMMA ReleaseStep ==
  ASSUME ConstantsOK, HbInv, NEW t \in Tids, NEW l \in Locks, OnRelease(t, l)
  PROVE  HbInv'
<1> USE DEF HbInv, Running
<1>1. /\ \A w, u \in Tids : C'[w][u] = IF w = t /\ u = t THEN C[t][t] + 1 ELSE C[w][u]
      /\ \A m \in Locks, u \in Tids :
           L'[m][u] = IF m = l THEN MaxOf(L[l][u], C[t][u]) ELSE L[m][u]
      /\ \A m \in Locks : lockPast'[m] = IF m = l THEN lockPast[l] \cup past[t]
                                         ELSE lockPast[m]
  BY DEF HbTypes, OnRelease, NewFrame, Tick, Join
<1>2. /\ UNCHANGED <<S, state, parent, late, past, accesses>>
      /\ state[t] = "running"
  BY DEF OnRelease
<1>3. HbTypes'
  <2>1. Join(L[l], C[t]) \in [Tids -> Nat]
    BY DEF HbTypes, Join, MaxOf
  <2>2. NewFrame(C[t], t) \in [Tids -> Nat]
    BY DEF HbTypes, NewFrame, Tick
  <2> QED
    BY <1>2, <2>1, <2>2 DEF HbTypes, OnRelease
<1>4. StackSound'
  <2>1. Started' = Started
    BY <1>2 DEF Started
  <2>2. \A u \in Tids : state[u] \in {"unborn", "created"} => C'[u] = C[u]
    BY <1>2 DEF OnRelease, HbTypes
  <2> QED
    BY <1>2, <2>1, <2>2 DEF StackSound
<1> HIDE DEF HbInv
<1>a. /\ \A w, u \in Tids : C[w][u] \in Nat
      /\ \A m \in Locks, u \in Tids : L[m][u] \in Nat
  BY Typing DEF HbInv
<1>b. /\ \A w, u \in Tids : C'[w][u] \in Nat /\ C'[w][u] >= C[w][u]
      /\ \A m \in Locks, u \in Tids : L'[m][u] \in Nat /\ L'[m][u] >= L[m][u]
      /\ \A u \in Tids : L'[l][u] >= C[t][u]
  BY <1>1, <1>a DEF MaxOf
<1>5. PastKnown'
  <2>1. \A i \in DOMAIN accesses : accesses[i].tid \in Tids /\ accesses[i].frame \in Nat
    BY Typing DEF HbInv
  <2>2. \A w \in Tids : past[w] \subseteq DOMAIN accesses
    BY Typing DEF HbInv
  <2>3. \A m \in Locks : lockPast[m] \subseteq DOMAIN accesses
    BY Typing DEF HbInv
  <2>4. PastKnown
    BY DEF HbInv
  <2>5. \A w \in Tids : state[w] # "created" =>
          \A i \in past[w] : accesses[i].frame <= C'[w][accesses[i].tid]
    BY <2>1, <2>2, <2>4, <1>a, <1>b DEF PastKnown
  <2>6. \A m \in Locks : \A i \in lockPast'[m] :
          accesses[i].frame <= L'[m][accesses[i].tid]
    BY <2>1, <2>2, <2>3, <2>4, <1>1, <1>2, <1>a, <1>b DEF PastKnown
  <2> QED
    BY <1>2, <2>4, <2>5, <2>6 DEF PastKnown
<1>6. Ahead'
  <2>1. Ahead
    BY DEF HbInv
  <2>2. ASSUME NEW w \in Tids, NEW u \in Tids, w # u
        PROVE  C'[w][u] < C'[u][u] \/ C'[w][u] <= 1
    <3>1. C'[w][u] = C[w][u]
      BY <1>1, <2>2
    <3> QED
      BY <1>a, <1>b, <2>1, <2>2, <3>1 DEF Ahead
  <2>3. ASSUME NEW m \in Locks, NEW u \in Tids
        PROVE  L'[m][u] < C'[u][u] \/ L'[m][u] <= 1
    <3>1. CASE L'[m][u] = L[m][u]
      BY <1>a, <1>b, <2>1, <3>1 DEF Ahead
    <3>2. CASE L'[m][u] = C[t][u] /\ u # t
      BY <1>a, <1>b, <2>1, <3>2 DEF Ahead
    <3>3. CASE L'[m][u] = C[t][u] /\ u = t
      BY <1>1, <1>a, <3>3
    <3> QED
      BY <1>1, <3>1, <3>2, <3>3 DEF MaxOf
  <2> QED
    BY <2>2, <2>3 DEF Ahead
<1>7. KnownPast'
  <2> SUFFICES ASSUME ~late, NEW i \in DOMAIN accesses, accesses[i].frame > 1
               PROVE  /\ \A w \in Tids :
                           accesses[i].frame <= C'[w][accesses[i].tid] => i \in past[w]
                      /\ \A m \in Locks : accesses[i].frame <= L'[m][accesses[i].tid]
                                            => i \in lockPast'[m]
    BY <1>2 DEF KnownPast
  <2> DEFINE u == accesses[i].tid
             f == accesses[i].frame
  <2>1. u \in Tids /\ f \in Nat
    BY Typing DEF HbInv
  <2>2. /\ i \in past[u]
        /\ \A w \in Tids : f <= C[w][u] => i \in past[w]
        /\ \A m \in Locks : f <= L[m][u] => i \in lockPast[m]
    BY DEF HbInv, KnownPast, PastKnown
  <2> HIDE DEF u, f
  <2>3. \A w \in Tids : f <= C'[w][u] => i \in past[w]
    BY <1>1, <2>1, <2>2
  <2>4. \A m \in Locks : f <= L'[m][u] => i \in lockPast'[m]
    BY <1>1, <2>1, <2>2 DEF MaxOf
  <2> QED
    BY <2>3, <2>4 DEF u, f
<1> QED
  BY <1>3, <1>4, <1>5, <1>6, <1>7 DEF HbInv

\* The acquiring thread learns what the lock knows, accesses and frames alike.
LEMMA AcquireStep ==
  ASSUME ConstantsOK, HbInv, NEW t \in Tids, NEW l \in Locks, OnAcquire(t, l)
  PROVE  HbInv'
<1> USE DEF HbInv, Running
<1>1. /\ \A w, u \in Tids : C'[w][u] = IF w = t THEN MaxOf(C[t][u], L[l][u]) ELSE C[w][u]
      /\ \A w \in Tids : past'[w] = IF w = t THEN past[t] \cup lockPast[l] ELSE past[w]
  BY DEF HbTypes, OnAcquire, Join
<1>2. /\ UNCHANGED <<L, S, state, parent, late, lockPast, accesses>>
      /\ state[t] = "running"
  BY DEF OnAcquire
<1>3. HbTypes'
  <2>1. Join(C[t], L[l]) \in [Tids -> Nat]
    BY DEF HbTypes, Join, MaxOf
  <2> QED
    BY <1>2, <2>1 DEF HbTypes, OnAcquire
<1>4. StackSound'
  <2>1. Started' = Started
    BY <1>2 DEF Started
  <2>2. \A u \in Tids : state[u] \in {"unborn", "created"} => C'[u] = C[u]
    BY <1>2 DEF OnAcquire, HbTypes
  <2> QED
    BY <1>2, <2>1, <2>2 DEF StackSound
<1>5. PastKnown'
  <2>1. \A i \in DOMAIN accesses : accesses[i].tid \in Tids /\ accesses[i].frame \in Nat
    BY Typing
  <2>2. \A w \in Tids : state[w] # "created" =>
          \A i \in past'[w] : accesses[i].frame <= C'[w][accesses[i].tid]
    <3>1. \A w \in Tids : \A i \in past[w] : state[w] # "created" =>
            accesses[i].frame <= C[w][accesses[i].tid]
      BY DEF PastKnown
    <3>2. \A i \in lockPast[l] : accesses[i].frame <= L[l][accesses[i].tid]
      BY DEF PastKnown
    <3>3. \A w, u \in Tids : C'[w][u] \in Nat /\ C'[w][u] >= C[w][u]
      BY <1>1, Typing DEF MaxOf
    <3>4. \A u \in Tids : C'[t][u] >= L[l][u]
      BY <1>1, Typing DEF MaxOf
    <3>5. \A w \in Tids : past[w] \subseteq DOMAIN accesses
      BY Typing
    <3>6. lockPast[l] \subseteq DOMAIN accesses
      BY Typing
    <3> HIDE DEF HbInv
    <3> QED
      BY <1>1, <2>1, <3>1, <3>2, <3>3, <3>4, <3>5, <3>6, Typing DEF HbInv
  <2>3. \A w \in Tids : state[w] = "created" => past'[w] \subseteq past'[parent[w]]
    BY <1>1, <1>2 DEF PastKnown, StackSound, Started, ConstantsOK
  <2>4. \A i \in DOMAIN accesses : i \in past'[accesses[i].tid]
    BY <1>1, <2>1 DEF PastKnown
  <2>5. PastKnown
    OBVIOUS
  <2> HIDE DEF HbInv
  <2> QED
    BY <1>2, <2>2, <2>3, <2>4, <2>5 DEF PastKnown
<1>6. Ahead'
  <2>1. /\ \A w, u \in Tids : C[w][u] \in Nat
        /\ \A w, u \in Tids : w # u => C[w][u] < C[u][u] \/ C[w][u] <= 1
        /\ \A m \in Locks, u \in Tids : L[m][u] \in Nat
        /\ \A m \in Locks, u \in Tids : L[m][u] < C[u][u] \/ L[m][u] <= 1
    BY Typing DEF Ahead
  <2> HIDE DEF HbInv
  <2>2. \A w \in Tids : C'[w][w] >= C[w][w] /\ C'[w][w] \in Nat
    BY <1>1, <2>1 DEF MaxOf
  <2>3. \A w, u \in Tids : w # u => C'[w][u] < C[u][u] \/ C'[w][u] <= 1
    BY <1>1, <2>1 DEF MaxOf
  <2>4. \A w, u \in Tids : C'[w][u] \in Nat
    BY <1>1, <2>1 DEF MaxOf
  <2> QED
    BY <1>2, <2>1, <2>2, <2>3, <2>4 DEF Ahead
<1>7. KnownPast'
  <2> SUFFICES ASSUME ~late, NEW i \in DOMAIN accesses, accesses[i].frame > 1
               PROVE  /\ \A w \in Tids :
                           accesses[i].frame <= C'[w][accesses[i].tid] => i \in past'[w]
                      /\ \A m \in Locks : accesses[i].frame <= L[m][accesses[i].tid]
                                            => i \in lockPast[m]
    BY <1>2 DEF KnownPast
  <2> DEFINE u == accesses[i].tid
             f == accesses[i].frame
  <2>1. /\ u \in Tids /\ f \in Nat
        /\ \A w \in Tids : C[w][u] \in Nat
        /\ \A m \in Locks : L[m][u] \in Nat
    BY Typing
  <2>2. /\ \A w \in Tids : f <= C[w][u] => i \in past[w]
        /\ \A m \in Locks : f <= L[m][u] => i \in lockPast[m]
    BY DEF KnownPast
  <2> HIDE DEF u, f, HbInv
  <2>3. \A w \in Tids : f <= C'[w][u] => i \in past'[w]
    BY <1>1, <2>1, <2>2 DEF MaxOf
  <2> QED
    BY <2>2, <2>3 DEF u, f
<1> QED
  BY <1>3, <1>4, <1>5, <1>6, <1>7

\* The new thread happens after its creator, whose clock it has not yet got.
LEMMA CreateStep ==
  ASSUME ConstantsOK, HbInv, NEW p \in Tids, NEW u \in Tids, BeforeCreate(p, u)
  PROVE  HbInv'
<1> USE DEF HbInv, Running
<1>1. /\ \A w \in Tids : state'[w] = IF w = u THEN "created" ELSE state[w]
      /\ \A w \in Tids : parent'[w] = IF w = u THEN p ELSE parent[w]
      /\ \A w \in Tids : past'[w] = IF w = u THEN past[p] ELSE past[w]
  BY DEF HbTypes, BeforeCreate
<1>2. /\ UNCHANGED <<C, L, late, lockPast, accesses>> /\ S' = Append(S, p)
      /\ p \in Creators /\ state[p] = "running" /\ u # 0 /\ state[u] = "unborn" /\ p # u
  BY DEF BeforeCreate
<1>3. HbTypes'
  BY <1>2 DEF HbTypes, BeforeCreate, States
<1>4. StackSound'
  <2>1. Started' = Started \cup {u} /\ u \notin Started
    BY <1>1, <1>2 DEF Started
  <2>2. IsFiniteSet(Started) /\ Cardinality(Started') = Cardinality(Started) + 1
    <3>1. IsFiniteSet(Tids)
      BY FS_Interval DEF ConstantsOK, Tids
    <3>2. IsFiniteSet(Started)
      BY <3>1, FS_Subset DEF Started
    <3> QED
      BY <2>1, <3>2, FS_AddElement
  <2>3. Len(S') = Len(S) + 1
    BY <1>2 DEF HbTypes
  <2>4. \A w \in Tids : state[w] # "unborn" => w # u /\ state'[w] = state[w]
    BY <1>1, <1>2
  <2>5. \A w \in Started' : /\ parent'[w] \in Creators /\ parent'[w] # w
                            /\ state'[parent'[w]] \in {"running", "ended"}
    <3>1. Creators \subseteq Tids
      BY DEF ConstantsOK
    <3> QED
      BY <1>1, <1>2, <2>1, <2>4, <3>1 DEF StackSound, Started
  <2>6. \A w \in Tids : state'[w] \in {"unborn", "created"} =>
          /\ w # 0 /\ C'[w] = [x \in Tids |-> 1]
          /\ \A i \in DOMAIN accesses' : accesses'[i].tid # w
    BY <1>1, <1>2 DEF StackSound
  <2> QED
    BY <2>2, <2>3, <2>5, <2>6 DEF StackSound
<1>5. PastKnown'
  <2>1. \A i \in DOMAIN accesses : accesses[i].tid \in Tids /\ accesses[i].tid # u
    BY <1>2, Typing DEF StackSound
  <2>2. \A w \in Tids : state[w] = "created" => parent[w] # u /\ parent[w] \in Tids
    BY <1>2 DEF StackSound, Started, ConstantsOK
  <2> QED
    BY <1>1, <1>2, <2>1, <2>2 DEF PastKnown
<1>6. Ahead'
  BY <1>2 DEF Ahead
<1>7. KnownPast'
  <2>1. \A i \in DOMAIN accesses : accesses[i].tid \in Tids /\ accesses[i].frame \in Nat
    BY Typing
  <2>2. C[u] = [w \in Tids |-> 1]
    BY <1>2 DEF StackSound
  <2> QED
    BY <1>1, <1>2, <2>1, <2>2 DEF KnownPast
<1> QED
  BY <1>3, <1>4, <1>5, <1>6, <1>7

\* The thread on top of the stack is the creator of every thread that has not
\* ended.
LEMMA TopIsParent ==
  ASSUME ConstantsOK, OneCreator, HbInv, NEW u \in Started
  PROVE  /\ Len(S) \in Nat \ {0} /\ Top = parent[u] /\ Top \in Tids /\ Top # u
         /\ state[Top] \in {"running", "ended"}
<1>1. IsFiniteSet(Started)
  <2>1. IsFiniteSet(Tids)
    BY FS_Interval DEF ConstantsOK, Tids
  <2> QED
    BY <2>1, FS_Subset DEF Started
<1>2. Cardinality(Started) # 0
  BY <1>1, FS_EmptySet
<1>3. Len(S) \in Nat \ {0} /\ Top \in Creators
  BY <1>2 DEF HbInv, HbTypes, StackSound, Top
<1> QED
  BY <1>3 DEF HbInv, StackSound, OneCreator, ConstantsOK

\* The child gets the clock of its creator, who leaves its frame.
LEMMA BeginStep ==
  ASSUME ConstantsOK, OneCreator, HbInv, NEW u \in Tids, ThreadBegin(u)
  PROVE  HbInv'
<1> DEFINE p == Top
<1>0. u \in Started /\ u # 0 /\ state[u] = "created"
  BY DEF ThreadBegin, HbInv, StackSound, Started
<1>1. /\ p \in Tids /\ p # u /\ p = parent[u] /\ state[p] \in {"running", "ended"}
  BY <1>0, TopIsParent
<1>2. /\ \A w, x \in Tids :
           C'[w][x] = IF w = u THEN MaxOf(C[u][x], C[p][x])
                      ELSE IF w = p /\ x = p THEN C[p][p] + 1 ELSE C[w][x]
      /\ \A w \in Tids : state'[w] = IF w = u THEN "running" ELSE state[w]
      /\ late' = (late \/ ~(past[p] \subseteq past[u]))
  BY <1>1 DEF HbInv, HbTypes, ThreadBegin, Join, Tick
<1>3. UNCHANGED <<L, S, parent, past, lockPast, accesses>>
  BY DEF ThreadBegin, hbVars
<1>4. HbTypes'
  <2>1. Join(C[u], C[p]) \in [Tids -> Nat] /\ Tick(C[p], p) \in [Tids -> Nat]
    BY <1>1 DEF HbInv, HbTypes, Join, Tick, MaxOf
  <2> QED
    BY <1>2, <1>3, <2>1 DEF HbInv, HbTypes, ThreadBegin, States
<1> HIDE DEF p
<1>5. StackSound'
  <2>1. Started' = Started
    BY <1>0, <1>2 DEF Started
  <2>2. \A w \in Tids : state'[w] \in {"unborn", "created"} => C'[w] = C[w] /\ w # u
    BY <1>1, <1>2 DEF ThreadBegin, HbInv, HbTypes, p
  <2>3. \A w \in Started : parent[w] \in Tids
    BY DEF HbInv, StackSound, ConstantsOK
  <2> QED
    BY <1>2, <1>3, <2>1, <2>2, <2>3 DEF HbInv, StackSound
<1>6. /\ \A w, x \in Tids : C[w][x] \in Nat /\ C'[w][x] \in Nat /\ C'[w][x] >= C[w][x]
      /\ \A l \in Locks, x \in Tids : L[l][x] \in Nat
      /\ \A x \in Tids : C'[u][x] >= C[p][x]
      /\ C[u] = [x \in Tids |-> 1]
  <2>1. C[u] = [x \in Tids |-> 1]
    BY <1>0 DEF HbInv, StackSound
  <2>2. \A w, x \in Tids : C[w][x] \in Nat
    BY Typing DEF HbInv
  <2> QED
    BY <1>1, <1>2, <2>1, <2>2, Typing DEF HbInv, MaxOf
<1>7. PastKnown'
  <2>1. \A i \in DOMAIN accesses : accesses[i].tid \in Tids /\ accesses[i].frame \in Nat
    BY Typing DEF HbInv
  <2>2. \A w \in Tids : past[w] \subseteq DOMAIN accesses
    BY Typing DEF HbInv
  <2>3. PastKnown
    BY DEF HbInv
  <2>4. \A w \in Tids : state'[w] # "created" =>
          \A i \in past[w] : accesses[i].frame <= C'[w][accesses[i].tid]
    <3> SUFFICES ASSUME NEW w \in Tids, state'[w] # "created", NEW i \in past[w]
                 PROVE  accesses[i].frame <= C'[w][accesses[i].tid]
      OBVIOUS
    <3>1. CASE w = u
      <4>1. i \in past[p] /\ state[p] # "created"
        BY <1>0, <1>1, <2>3, <3>1 DEF PastKnown
      <4> QED
        BY <1>1, <1>6, <2>1, <2>2, <2>3, <3>1, <4>1 DEF PastKnown
    <3>2. CASE w # u
      <4>1. accesses[i].frame <= C[w][accesses[i].tid]
        BY <1>2, <2>3, <3>2 DEF PastKnown
      <4> QED
        BY <1>6, <2>1, <2>2, <4>1
    <3> QED
      BY <3>1, <3>2
  <2> QED
    BY <1>2, <1>3, <2>3, <2>4 DEF PastKnown
<1>8. Ahead'
  <2>1. Ahead
    BY DEF HbInv
  <2>2. ASSUME NEW w \in Tids, NEW x \in Tids, w # x
        PROVE  C'[w][x] < C'[x][x] \/ C'[w][x] <= 1
    <3>1. CASE w # u
      <4>1. C'[w][x] = C[w][x]
        BY <1>2, <2>2, <3>1
      <4> QED
        BY <1>6, <2>1, <2>2, <4>1 DEF Ahead
    <3>2. CASE w = u /\ x = p
      <4>1. C'[p][p] = C[p][p] + 1
        BY <1>1, <1>2
      <4>2. C'[u][p] = C[p][p] \/ C'[u][p] = 1
        BY <1>1, <1>2, <1>6 DEF MaxOf
      <4> QED
        BY <1>1, <1>6, <3>2, <4>1, <4>2
    <3>3. CASE w = u /\ x # p
      <4>1. C'[u][x] = C[p][x] \/ C'[u][x] = 1
        BY <1>1, <1>2, <1>6 DEF MaxOf
      <4>2. C[p][x] < C[x][x] \/ C[p][x] <= 1
        BY <1>1, <2>1, <3>3 DEF Ahead
      <4> QED
        BY <1>1, <1>6, <3>3, <4>1, <4>2
    <3> QED
      BY <3>1, <3>2, <3>3
  <2>3. \A l \in Locks, x \in Tids : L'[l][x] < C'[x][x] \/ L'[l][x] <= 1
    BY <1>3, <1>6, <2>1 DEF Ahead
  <2> QED
    BY <2>2, <2>3 DEF Ahead
<1>9. KnownPast'
  <2> SUFFICES ASSUME ~late', NEW i \in DOMAIN accesses, accesses[i].frame > 1
               PROVE  /\ \A w \in Tids :
                           accesses[i].frame <= C'[w][accesses[i].tid] => i \in past[w]
                      /\ \A m \in Locks : accesses[i].frame <= L[m][accesses[i].tid]
                                            => i \in lockPast[m]
    BY <1>3 DEF KnownPast
  <2> DEFINE x == accesses[i].tid
             f == accesses[i].frame
  <2>1. x \in Tids /\ f \in Nat /\ f > 1
    BY Typing DEF HbInv
  <2>2. ~late /\ past[p] \subseteq past[u]
    BY <1>2
  <2>3. /\ i \in past[x]
        /\ \A w \in Tids : f <= C[w][x] => i \in past[w]
        /\ \A m \in Locks : f <= L[m][x] => i \in lockPast[m]
    BY <2>2 DEF HbInv, KnownPast, PastKnown
  <2> HIDE DEF x, f
  <2>4. ASSUME NEW w \in Tids, f <= C'[w][x] PROVE i \in past[w]
    <3>1. CASE w = u
      <4>1. f <= C[p][x]
        BY <1>2, <1>1, <1>6, <2>1, <2>4, <3>1 DEF MaxOf
      <4> QED
        BY <1>1, <2>2, <2>3, <3>1, <4>1
    <3>2. CASE w = p /\ x = p
      BY <2>3, <3>2
    <3>3. CASE w # u /\ ~(w = p /\ x = p)
      BY <1>2, <2>1, <2>3, <2>4, <3>3
    <3> QED
      BY <3>1, <3>2, <3>3
  <2> QED
    BY <2>3, <2>4 DEF x, f
<1> QED
  BY <1>4, <1>5, <1>7, <1>8, <1>9 DEF HbInv

\* The creator gets the clock of the child, which leaves its last frame.
LEMMA EndStep ==
  ASSUME ConstantsOK, OneCreator, HbInv, NEW u \in Tids, ThreadEnded(u)
  PROVE  HbInv'
<1> DEFINE p == Top
<1>0. u \in Started /\ u # 0 /\ state[u] = "running"
  BY DEF ThreadEnded, Running, Started
<1>1. /\ p \in Tids /\ p # u /\ p = parent[u] /\ state[p] = "running"
      /\ Len(S) \in Nat \ {0}
  BY <1>0, TopIsParent DEF ThreadEnded, Running
<1>2. /\ \A w, x \in Tids :
           C'[w][x] = IF w = p THEN MaxOf(C[p][x], C[u][x])
                      ELSE IF w = u /\ x = u THEN C[u][u] + 1 ELSE C[w][x]
      /\ \A w \in Tids : state'[w] = IF w = u THEN "ended" ELSE state[w]
      /\ \A w \in Tids : past'[w] = IF w = p THEN past[p] \cup past[u] ELSE past[w]
  BY <1>1 DEF HbInv, HbTypes, ThreadEnded, Join, Tick
<1>3. /\ UNCHANGED <<L, parent, late, lockPast, accesses>>
      /\ S' = SubSeq(S, 1, Len(S) - 1)
  BY DEF ThreadEnded
<1>4. HbTypes'
  <2>1. Join(C[p], C[u]) \in [Tids -> Nat] /\ Tick(C[u], u) \in [Tids -> Nat]
    BY <1>1 DEF HbInv, HbTypes, Join, Tick, MaxOf
  <2>2. S' \in Seq(Creators)
    BY <1>1, <1>3 DEF HbInv, HbTypes
  <2> QED
    BY <1>2, <1>3, <2>1, <2>2 DEF HbInv, HbTypes, ThreadEnded, States
<1> HIDE DEF p
<1>5. StackSound'
  <2>1. Started' = Started \ {u}
    BY <1>0, <1>2 DEF Started
  <2>2. Len(S') = Cardinality(Started')
    <3>1. IsFiniteSet(Tids)
      BY FS_Interval DEF ConstantsOK, Tids
    <3>2. IsFiniteSet(Started)
      BY <3>1, FS_Subset DEF Started
    <3>3. Cardinality(Started') = Cardinality(Started) - 1
      BY <1>0, <2>1, <3>2, FS_RemoveElement
    <3>4. Len(S') = Len(S) - 1
      <4>1. S \in Seq(Creators)
        BY DEF HbInv, HbTypes
      <4>2. /\ 1 \in 1 .. Len(S) + 1 /\ Len(S) - 1 \in 1 - 1 .. Len(S)
            /\ Len(S) - 1 - 1 + 1 = Len(S) - 1
        BY <1>1
      <4>3. Len(SubSeq(S, 1, Len(S) - 1)) = Len(S) - 1
        BY <4>1, <4>2, SubSeqProperties
      <4> QED
        BY <1>3, <4>3
    <3> QED
      BY <3>3, <3>4 DEF HbInv, StackSound
  <2>3. \A w \in Tids : state'[w] \in {"unborn", "created"} =>
          C'[w] = C[w] /\ state'[w] = state[w]
    BY <1>0, <1>1, <1>2 DEF ThreadEnded, HbInv, HbTypes, p
  <2>4. \A w \in Started : parent[w] \in Tids
    BY DEF HbInv, StackSound, ConstantsOK
  <2> QED
    BY <1>2, <1>3, <2>1, <2>2, <2>3, <2>4 DEF HbInv, StackSound
<1>6. /\ \A w, x \in Tids : C[w][x] \in Nat /\ C'[w][x] \in Nat /\ C'[w][x] >= C[w][x]
      /\ \A l \in Locks, x \in Tids : L[l][x] \in Nat
      /\ \A x \in Tids : C'[p][x] >= C[u][x]
  <2>1. \A w, x \in Tids : C[w][x] \in Nat
    BY Typing DEF HbInv
  <2>2. \A l \in Locks, x \in Tids : L[l][x] \in Nat
    BY Typing DEF HbInv
  <2>3. \A x \in Tids : C'[p][x] \in Nat /\ C'[p][x] >= C[p][x] /\ C'[p][x] >= C[u][x]
    BY <1>1, <1>2, <2>1 DEF MaxOf
  <2>4. \A w, x \in Tids : w # p => C'[w][x] \in Nat /\ C'[w][x] >= C[w][x]
    BY <1>1, <1>2, <2>1
  <2> QED
    BY <2>1, <2>2, <2>3, <2>4
<1>7. PastKnown'
  <2>1. \A i \in DOMAIN accesses : accesses[i].tid \in Tids /\ accesses[i].frame \in Nat
    BY Typing DEF HbInv
  <2>2. \A w \in Tids : past[w] \subseteq DOMAIN accesses
    BY Typing DEF HbInv
  <2>3. PastKnown
    BY DEF HbInv
  <2>4. \A w \in Tids : state[w] # "created" =>
          \A i \in past[w] : accesses[i].frame <= C'[w][accesses[i].tid]
    BY <1>6, <2>1, <2>2, <2>3 DEF PastKnown
  <2>5. \A i \in past[u] : accesses[i].frame <= C'[p][accesses[i].tid]
    BY <1>0, <1>1, <1>6, <2>1, <2>2, <2>3 DEF PastKnown
  <2>6. \A w \in Tids : state[w] = "created" => w # p /\ parent[w] \in Tids
    BY <1>1 DEF HbInv, StackSound, Started, ConstantsOK
  <2>7. \A w \in Tids : state'[w] = "created" => past'[w] \subseteq past'[parent[w]]
    BY <1>2, <2>3, <2>6 DEF PastKnown
  <2>8. \A w \in Tids : state'[w] # "created" =>
          \A i \in past'[w] : accesses[i].frame <= C'[w][accesses[i].tid]
    BY <1>0, <1>1, <1>2, <2>4, <2>5
  <2>9. \A i \in DOMAIN accesses : i \in past'[accesses[i].tid]
    BY <1>2, <2>1, <2>3 DEF PastKnown
  <2> QED
    BY <1>3, <2>3, <2>7, <2>8, <2>9 DEF PastKnown
<1>8. Ahead'
  <2>1. Ahead
    BY DEF HbInv
  <2>2. ASSUME NEW w \in Tids, NEW x \in Tids, w # x
        PROVE  C'[w][x] < C'[x][x] \/ C'[w][x] <= 1
    <3>1. CASE w # p
      <4>1. C'[w][x] = C[w][x]
        BY <1>2, <2>2, <3>1
      <4> QED
        BY <1>6, <2>1, <2>2, <4>1 DEF Ahead
    <3>2. CASE w = p /\ x = u
      <4>1. C'[u][u] = C[u][u] + 1
        BY <1>1, <1>2
      <4>2. C'[p][u] = C[p][u] \/ C'[p][u] = C[u][u]
        BY <1>1, <1>2 DEF MaxOf
      <4>3. C[p][u] < C[u][u] \/ C[p][u] <= 1
        BY <1>1, <2>1 DEF Ahead
      <4> QED
        BY <1>1, <1>6, <3>2, <4>1, <4>2, <4>3
    <3>3. CASE w = p /\ x # u
      <4>1. C'[p][x] = C[p][x] \/ C'[p][x] = C[u][x]
        BY <1>1, <1>2 DEF MaxOf
      <4>2. /\ C[p][x] < C[x][x] \/ C[p][x] <= 1
            /\ C[u][x] < C[x][x] \/ C[u][x] <= 1
        BY <1>1, <2>1, <2>2, <3>3 DEF Ahead
      <4> QED
        BY <1>1, <1>6, <3>3, <4>1, <4>2
    <3> QED
      BY <3>1, <3>2, <3>3
  <2>3. \A l \in Locks, x \in Tids : L'[l][x] < C'[x][x] \/ L'[l][x] <= 1
    BY <1>3, <1>6, <2>1 DEF Ahead
  <2> QED
    BY <2>2, <2>3 DEF Ahead
<1>9. KnownPast'
  <2> SUFFICES ASSUME ~late, NEW i \in DOMAIN accesses, accesses[i].frame > 1
               PROVE  /\ \A w \in Tids :
                           accesses[i].frame <= C'[w][accesses[i].tid] => i \in past'[w]
                      /\ \A m \in Locks : accesses[i].frame <= L[m][accesses[i].tid]
                                            => i \in lockPast[m]
    BY <1>3 DEF KnownPast
  <2> DEFINE x == accesses[i].tid
             f == accesses[i].frame
  <2>1. x \in Tids /\ f \in Nat
    BY Typing DEF HbInv
  <2>2. /\ i \in past[x]
        /\ \A w \in Tids : f <= C[w][x] => i \in past[w]
        /\ \A m \in Locks : f <= L[m][x] => i \in lockPast[m]
    BY DEF HbInv, KnownPast, PastKnown
  <2> HIDE DEF x, f
  <2>3. ASSUME NEW w \in Tids, f <= C'[w][x] PROVE i \in past'[w]
    <3>1. CASE w = p
      <4>1. f <= C[p][x] \/ f <= C[u][x]
        BY <1>1, <1>2, <2>1, <2>3, <3>1 DEF MaxOf
      <4> QED
        BY <1>1, <1>2, <2>2, <3>1, <4>1
    <3>2. CASE w = u /\ x = u
      BY <1>2, <2>2, <3>2
    <3>3. CASE w # p /\ ~(w = u /\ x = u)
      BY <1>2, <2>1, <2>2, <2>3, <3>3
    <3> QED
      BY <3>1, <3>2, <3>3
  <2> QED
    BY <2>2, <2>3 DEF x, f
<1> QED
  BY <1>4, <1>5, <1>7, <1>8, <1>9 DEF HbInv

LEMMA SyncStep ==
  ASSUME ConstantsOK, OneCreator, HbInv, Sync
  PROVE  HbInv' /\ accesses' = accesses /\ (late => late')
<1>1. ASSUME NEW t \in Tids, NEW l \in Locks, OnRelease(t, l)
      PROVE  HbInv' /\ UNCHANGED <<accesses, late>>
  BY <1>1, ReleaseStep DEF OnRelease
<1>2. ASSUME NEW t \in Tids, NEW l \in Locks, OnAcquire(t, l)
      PROVE  HbInv' /\ UNCHANGED <<accesses, late>>
  BY <1>2, AcquireStep DEF OnAcquire
<1>3. ASSUME NEW p \in Tids, NEW u \in Tids, BeforeCreate(p, u)
      PROVE  HbInv' /\ UNCHANGED <<accesses, late>>
  BY <1>3, CreateStep DEF BeforeCreate
<1>4. ASSUME NEW u \in Tids, ThreadBegin(u)
      PROVE  HbInv' /\ accesses' = accesses /\ (late => late')
  BY <1>4, BeginStep DEF ThreadBegin
<1>5. ASSUME NEW u \in Tids, ThreadEnded(u)
      PROVE  HbInv' /\ UNCHANGED <<accesses, late>>
  BY <1>5, EndStep DEF ThreadEnded
<1> QED
  BY <1>1, <1>2, <1>3, <1>4, <1>5 DEF Sync

-----------------------------------------------------------------------------
(* The steps of accesses *)

\* An access joins the trace: it is the last one, and the others stay.
LEMMA Recorded ==
  ASSUME ConstantsOK, HbInv, NEW t \in Tids, NEW v \in Vars,
         NEW w \in BOOLEAN, NEW k \in BOOLEAN, Running(t), Record(t, v, w, k)
  PROVE  LET n == Len(accesses) + 1
         IN  /\ n \in Nat \ {0} /\ DOMAIN accesses = 1 .. (n - 1)
             /\ DOMAIN accesses' = 1 .. n
             /\ \A i \in 1 .. (n - 1) : accesses'[i] = accesses[i]
             /\ accesses'[n] = Access(t, v, w, k)
             /\ accesses' \in Seq(AccessType)
<1>1. accesses \in Seq(AccessType)
  BY DEF HbInv, HbTypes
<1>2. Access(t, v, w, k) \in AccessType
  <2>1. C[t][t] \in Nat
    BY DEF HbInv, HbTypes
  <2>2. past[t] \subseteq Nat
    BY <1>1, Typing DEF HbInv
  <2> QED
    BY <2>1, <2>2 DEF Access, AccessType
<1>3. accesses' = Append(accesses, Access(t, v, w, k))
  BY DEF Record
<1> QED
  BY <1>1, <1>2, <1>3

LEMMA RecordStep ==
  ASSUME ConstantsOK, HbInv, NEW t \in Tids, NEW v \in Vars,
         NEW w \in BOOLEAN, NEW k \in BOOLEAN, Running(t), Record(t, v, w, k)
  PROVE  HbInv'
<1> DEFINE n == Len(accesses) + 1
<1>1. /\ n \in Nat \ {0} /\ DOMAIN accesses = 1 .. (n - 1)
      /\ DOMAIN accesses' = 1 .. n
      /\ \A i \in 1 .. (n - 1) : accesses'[i] = accesses[i]
      /\ accesses'[n] = Access(t, v, w, k)
      /\ accesses' \in Seq(AccessType)
  BY Recorded
<1>2. /\ UNCHANGED <<C, L, S, state, parent, late, lockPast>>
      /\ past' = [past EXCEPT ![t] = @ \cup {n}]
      /\ state[t] = "running"
  BY DEF Record, Running, clockVars, progVars
<1>3. /\ accesses'[n].tid = t /\ accesses'[n].frame = C[t][t]
  BY <1>1 DEF Access
<1> HIDE DEF n
<1>4. HbTypes'
  <2>1. past' \in [Tids -> SUBSET (1 .. n)]
    BY <1>1, <1>2 DEF HbInv, HbTypes
  <2>2. lockPast' \in [Locks -> SUBSET (1 .. n)]
    BY <1>1, <1>2 DEF HbInv, HbTypes
  <2> QED
    BY <1>1, <1>2, <2>1, <2>2 DEF HbInv, HbTypes
<1>5. StackSound'
  <2>1. Started' = Started
    BY <1>2 DEF Started
  <2>2. \A u \in Tids : state[u] \in {"unborn", "created"} =>
          \A i \in DOMAIN accesses' : accesses'[i].tid # u
    BY <1>1, <1>2, <1>3 DEF HbInv, StackSound
  <2> QED
    BY <1>2, <2>1, <2>2 DEF HbInv, StackSound
<1>6. \A u \in Tids : past'[u] = IF u = t THEN past[t] \cup {n} ELSE past[u]
  BY <1>2 DEF HbInv, HbTypes
<1>7. PastKnown'
  <2>1. /\ \A i \in DOMAIN accesses : accesses[i].tid \in Tids
        /\ \A u \in Tids : past[u] \subseteq 1 .. (n - 1)
        /\ \A l \in Locks : lockPast[l] \subseteq 1 .. (n - 1)
        /\ C[t][t] \in Nat
    BY <1>1, Typing DEF HbInv
  <2>2. PastKnown
    BY DEF HbInv
  <2>3. \A i \in 1 .. n : i \in past'[accesses'[i].tid]
    <3>1. \A i \in 1 .. (n - 1) : i \in past'[accesses'[i].tid]
      BY <1>1, <1>6, <2>1, <2>2 DEF PastKnown
    <3>2. n \in past'[accesses'[n].tid]
      BY <1>3, <1>6
    <3> QED
      BY <1>1, <3>1, <3>2
  <2>4. \A u \in Tids : state[u] # "created" =>
          \A i \in past'[u] : accesses'[i].frame <= C[u][accesses'[i].tid]
    BY <1>1, <1>3, <1>6, <2>1, <2>2 DEF PastKnown
  <2>5. \A u \in Tids : state[u] = "created" => past'[u] \subseteq past'[parent[u]]
    BY <1>2, <1>6, <2>2 DEF PastKnown, HbInv, StackSound, Started, ConstantsOK
  <2>6. \A l \in Locks : \A i \in lockPast[l] :
          accesses'[i].frame <= L[l][accesses'[i].tid]
    BY <1>1, <2>1, <2>2 DEF PastKnown
  <2> QED
    BY <1>1, <1>2, <2>3, <2>4, <2>5, <2>6 DEF PastKnown
<1>8. Ahead'
  BY <1>2 DEF HbInv, Ahead
<1>9. KnownPast'
  <2> SUFFICES ASSUME ~late, NEW i \in 1 .. n, accesses'[i].frame > 1
               PROVE  /\ \A u \in Tids :
                           accesses'[i].frame <= C[u][accesses'[i].tid] => i \in past'[u]
                      /\ \A l \in Locks : accesses'[i].frame <= L[l][accesses'[i].tid]
                                            => i \in lockPast[l]
    BY <1>1, <1>2 DEF KnownPast
  <2>1. CASE i \in 1 .. (n - 1)
    BY <1>1, <1>6, <2>1 DEF HbInv, KnownPast
  <2>2. CASE i = n
    <3>1. /\ \A u \in Tids : u # t => ~(C[t][t] <= C[u][t])
          /\ \A l \in Locks : ~(C[t][t] <= L[l][t])
      BY <1>3, <2>2, Typing DEF HbInv, Ahead
    <3> QED
      BY <1>3, <1>6, <2>2, <3>1
  <2> QED
    BY <1>1, <2>1, <2>2
<1> QED
  BY <1>4, <1>5, <1>7, <1>8, <1>9 DEF HbInv

\* What an access knows of an earlier one is in the clock of its thread: all of
\* it that happens before, and unless a thread began late nothing else.
LEMMA RaceIsUnknown ==
  ASSUME ConstantsOK, HbInv, NEW t \in Tids, Running(t), NEW i \in DOMAIN accesses
  PROVE  /\ accesses[i].frame > C[t][accesses[i].tid] => i \notin past[t]
         /\ ~late /\ accesses[i].frame > 1 /\ i \notin past[t]
              => accesses[i].frame > C[t][accesses[i].tid]
         /\ accesses[i].tid = t => accesses[i].frame <= C[t][t]
<1>1. /\ accesses[i].frame \in Nat /\ accesses[i].tid \in Tids
      /\ C[t][accesses[i].tid] \in Nat /\ C[t][t] \in Nat
  BY Typing DEF HbInv
<1>2. i \in past[t] => accesses[i].frame <= C[t][accesses[i].tid]
  BY DEF HbInv, PastKnown, Running
<1>3. accesses[i].tid = t => i \in past[t]
  BY DEF HbInv, PastKnown
<1>4. ~late /\ accesses[i].frame > 1 /\ accesses[i].frame <= C[t][accesses[i].tid]
        => i \in past[t]
  BY DEF HbInv, KnownPast
<1> QED
  BY <1>1, <1>2, <1>3, <1>4

\* The races of the trace with one more access.
LEMMA RacesGrow ==
  ASSUME ConstantsOK, HbInv, NEW t \in Tids, NEW v \in Vars,
         NEW w \in BOOLEAN, NEW k \in BOOLEAN, Running(t), Record(t, v, w, k),
         NEW n \in Nat, n = Len(accesses) + 1
  PROVE  /\ \A i, m \in 1 .. (n - 1) : Races(i, m)' <=> Races(i, m)
         /\ \A i \in 1 .. (n - 1) :
              Races(i, n)' <=> (/\ accesses[i].addr = v /\ accesses[i].tid # t
                                /\ accesses[i].isWrite \/ w
                                /\ i \notin past[t])
         /\ \A i, m \in 1 .. n : Races(i, m)' => i < m
<1>1. /\ n \in Nat \ {0}
      /\ \A i \in 1 .. (n - 1) : accesses'[i] = accesses[i]
      /\ accesses'[n] = Access(t, v, w, k)
  BY Recorded
<1>2. \A i, m \in 1 .. (n - 1) : Races(i, m)' <=> Races(i, m)
  BY <1>1 DEF Races
<1>3. \A i \in 1 .. (n - 1) :
        Races(i, n)' <=> (/\ accesses[i].addr = v /\ accesses[i].tid # t
                          /\ accesses[i].isWrite \/ w
                          /\ i \notin past[t])
  <2> TAKE i \in 1 .. (n - 1)
  <2>1. /\ accesses'[n].addr = v /\ accesses'[n].tid = t /\ (accesses'[n].isWrite <=> w)
        /\ accesses'[n].before = past[t] /\ accesses'[i] = accesses[i] /\ i < n
    BY <1>1 DEF Access
  <2> QED
    BY <2>1 DEF Races
<1>4. \A i, m \in 1 .. n : Races(i, m)' => i < m
  BY DEF Races
<1> QED
  BY <1>2, <1>3, <1>4

-----------------------------------------------------------------------------
(* DJIT+ *)

HistoryTypes ==
  history \in [Vars -> [Tids -> [read : Nat, write : Nat]]]

DjitInv == HistoryTypes /\ HistoryExact /\ RacesInTrace

\* The threads whose last accesses to v t does not know of.
UnknownTo(t, v, w) ==
  {u \in Tids \ {t} : \/ history[v][u].write > C[t][u]
                      \/ w /\ history[v][u].read > C[t][u]}

DjitAccess(t, v, w) ==
  LET n == Len(accesses) + 1
      U == UnknownTo(t, v, w)
  IN
  /\ Running(t) /\ Record(t, v, w, U = {})
  /\ races \subseteq races'
  /\ \A r \in races' \ races : r[1] = n /\ r[2] \in U
  /\ \A u \in U : \E r \in races' :
       r[1] = n /\ r[2] = u /\ r[3] \in {"R-W", "W-W", "W-R"}
  /\ history' = IF U # {} THEN history
                ELSE IF w THEN [history EXCEPT ![v][t].write = C[t][t]]
                ELSE [history EXCEPT ![v][t].read = C[t][t]]

\* Djit is HbClocks with a history: its own copy of the clocks is the same.
LEMMA DjitSteps ==
  ASSUME D!Next
  PROVE  \/ Sync /\ UNCHANGED <<history, races>>
         \/ \E t \in Tids, v \in Vars, w \in BOOLEAN : DjitAccess(t, v, w)
<1>1. CASE D!Sync /\ UNCHANGED D!djitVars
  BY <1>1 DEF D!Sync, D!djitVars, D!OnRelease, D!OnAcquire, D!BeforeCreate, D!ThreadBegin,
    D!ThreadEnded, D!Running, D!NewFrame, D!Tick, D!Join, D!MaxOf, D!Top, D!Tids, D!NoOne,
    D!hbVars, Sync, OnRelease, OnAcquire, BeforeCreate, ThreadBegin, ThreadEnded, Running,
    NewFrame, Tick, Join, MaxOf, Top, Tids, NoOne, hbVars
<1>2. ASSUME NEW t \in D!Tids, NEW v \in Vars, D!OnRead(t, v)
      PROVE  t \in Tids /\ DjitAccess(t, v, FALSE)
  <2> DEFINE U == UnknownTo(t, v, FALSE)
             n == Len(accesses) + 1
  <2>1. t \in Tids /\ Running(t) /\ Record(t, v, FALSE, U = {})
    BY <1>2 DEF D!OnRead, D!Tids, Tids, D!Running, Running, D!Record, Record, D!Access,
      Access, D!clockVars, clockVars, D!progVars, progVars, D!Others, D!Unknown, UnknownTo
  <2>2. races' = races \cup {<<n, u, "R-W">> : u \in U}
    BY <1>2 DEF D!OnRead, D!Others, D!Unknown, UnknownTo, D!Tids, Tids
  <2>3. history' = IF U # {} THEN history ELSE [history EXCEPT ![v][t].read = C[t][t]]
    BY <1>2 DEF D!OnRead, D!Others, D!Unknown, UnknownTo, D!Tids, Tids
  <2> HIDE DEF U
  <2>4. \A u \in U : <<n, u, "R-W">> \in races'
    BY <2>2
  <2>5. \A r \in races' \ races : r[1] = n /\ r[2] \in U
    BY <2>2
  <2>6. \A u \in U : \E r \in races' :
          r[1] = n /\ r[2] = u /\ r[3] \in {"R-W", "W-W", "W-R"}
    BY <2>4
  <2> QED
    BY <2>1, <2>2, <2>3, <2>5, <2>6 DEF DjitAccess, U
<1>3. ASSUME NEW t \in D!Tids, NEW v \in Vars, D!OnWrite(t, v)
      PROVE  t \in Tids /\ DjitAccess(t, v, TRUE)
  <2> DEFINE ww == {u \in Tids \ {t} : history[v][u].write > C[t][u]}
             wr == {u \in Tids \ {t} : history[v][u].read > C[t][u]}
             U == ww \cup wr
             n == Len(accesses) + 1
  <2>0. UnknownTo(t, v, TRUE) = U
    BY DEF UnknownTo
  <2>1. t \in Tids /\ Running(t) /\ Record(t, v, TRUE, U = {})
    BY <1>3 DEF D!OnWrite, D!ReadersUnknown, D!Tids, Tids, D!Running, Running, D!Record,
      Record, D!Access, Access, D!clockVars, clockVars, D!progVars, progVars, D!Others,
      D!Unknown
  <2>2. races' = races \cup {<<n, u, "W-W">> : u \in ww} \cup {<<n, u, "W-R">> : u \in wr}
    BY <1>3 DEF D!OnWrite, D!ReadersUnknown, D!Others, D!Unknown, D!Tids, Tids
  <2>3. history' = IF U # {} THEN history ELSE [history EXCEPT ![v][t].write = C[t][t]]
    BY <1>3 DEF D!OnWrite, D!ReadersUnknown, D!Others, D!Unknown, D!Tids, Tids
  <2> HIDE DEF ww, wr
  <2>4. /\ \A u \in ww : <<n, u, "W-W">> \in races'
        /\ \A u \in wr : <<n, u, "W-R">> \in races'
    BY <2>2
  <2>5. \A r \in races' \ races : r[1] = n /\ r[2] \in U
    BY <2>2
  <2>6. \A u \in U : \E r \in races' :
          r[1] = n /\ r[2] = u /\ r[3] \in {"R-W", "W-W", "W-R"}
    BY <2>4
  <2> HIDE DEF U
  <2> QED
    BY <2>0, <2>1, <2>2, <2>3, <2>5, <2>6 DEF DjitAccess
<1> QED
  BY <1>1, <1>2, <1>3 DEF D!Next, D!djitVars

LEMMA DjitAccessStep ==
  ASSUME ConstantsOK, HbInv, mode = "djit", mode' = mode, DjitInv,
         NoFalseAlarm, LaterFramesComplete,
         NEW t \in Tids, NEW v \in Vars, NEW w \in BOOLEAN, DjitAccess(t, v, w)
  PROVE  DjitInv' /\ NoFalseAlarm' /\ LaterFramesComplete'
<1>n. PICK n \in Nat : n = Len(accesses) + 1
  BY Typing DEF HbInv
<1> DEFINE U == UnknownTo(t, v, w)
           k == U = {}
           old(i) == IF accesses[i].isWrite
                     THEN history[accesses[i].addr][accesses[i].tid].write
                     ELSE history[accesses[i].addr][accesses[i].tid].read
<1>0. /\ Running(t) /\ Record(t, v, w, k) /\ k \in BOOLEAN /\ UNCHANGED <<C, late>>
  BY DEF DjitAccess, Record, clockVars, progVars
<1>3. /\ races \subseteq races'
      /\ \A r \in races' \ races : r[1] = n /\ r[2] \in U
      /\ \A u \in U : \E r \in races' :
           r[1] = n /\ r[2] = u /\ r[3] \in {"R-W", "W-W", "W-R"}
      /\ history' = IF ~k THEN history
                    ELSE IF w THEN [history EXCEPT ![v][t].write = C[t][t]]
                    ELSE [history EXCEPT ![v][t].read = C[t][t]]
  BY <1>n DEF DjitAccess
<1> HIDE DEF U, k
<1>1. /\ n \in Nat \ {0} /\ DOMAIN accesses = 1 .. (n - 1)
      /\ DOMAIN accesses' = 1 .. n
      /\ \A i \in 1 .. (n - 1) : accesses'[i] = accesses[i]
      /\ accesses'[n] = Access(t, v, w, k)
  BY <1>n, <1>0, Recorded
<1>2. /\ \A i, m \in 1 .. (n - 1) : Races(i, m)' <=> Races(i, m)
      /\ \A i \in 1 .. (n - 1) :
           Races(i, n)' <=> (/\ accesses[i].addr = v /\ accesses[i].tid # t
                             /\ accesses[i].isWrite \/ w
                             /\ i \notin past[t])
      /\ \A i, m \in 1 .. n : Races(i, m)' => i < m
  BY <1>n, <1>0, RacesGrow
<1>4. /\ accesses'[n].tid = t /\ accesses'[n].addr = v /\ accesses'[n].isWrite = w
      /\ accesses'[n].frame = C[t][t] /\ accesses'[n].kept = k
  BY <1>1 DEF Access
<1>5. /\ \A u \in Tids : C[t][u] \in Nat
      /\ \A i \in 1 .. (n - 1) : /\ accesses[i].tid \in Tids /\ accesses[i].addr \in Vars
                                 /\ accesses[i].frame \in Nat
                                 /\ accesses[i].isWrite \in BOOLEAN
  BY <1>1, Typing DEF HbInv
<1>6. \A i \in 1 .. (n - 1) :
        /\ accesses[i].frame > C[t][accesses[i].tid] => i \notin past[t]
        /\ ~late /\ accesses[i].frame > 1 /\ i \notin past[t]
              => accesses[i].frame > C[t][accesses[i].tid]
        /\ accesses[i].tid = t => accesses[i].frame <= C[t][t]
  BY <1>0, <1>1, RaceIsUnknown
<1>7. \A x \in Vars, u \in Tids :
        history[x][u].read \in Nat /\ history[x][u].write \in Nat
  <2>1. \A x \in Vars, u \in Tids : history[x][u] \in [read : Nat, write : Nat]
    BY DEF DjitInv, HistoryTypes
  <2> QED
    BY <2>1
<1>8. \A x \in Vars, u \in Tids :
        /\ history'[x][u].write = IF k /\ w /\ x = v /\ u = t THEN C[t][t]
                                  ELSE history[x][u].write
        /\ history'[x][u].read = IF k /\ ~w /\ x = v /\ u = t THEN C[t][t]
                                 ELSE history[x][u].read
  BY <1>3 DEF DjitInv, HistoryTypes
<1>9. HistoryTypes'
  BY <1>3, <1>5 DEF DjitInv, HistoryTypes
<1>10. HistoryExact'
  <2>1. ASSUME NEW x \in Vars, NEW u \in Tids, history'[x][u].write > 0
        PROVE  \E i \in 1 .. n : IsAccess(i, u, x, TRUE, history[x][u].write)'
    <3>1. CASE k /\ w /\ x = v /\ u = t
      <4>1. history'[x][u].write = C[t][t]
        BY <1>8, <3>1
      <4>2. accesses'[n].isWrite = TRUE
        BY <1>4, <3>1
      <4>3. IsAccess(n, u, x, TRUE, history[x][u].write)'
        BY <1>4, <3>1, <4>1, <4>2 DEF IsAccess
      <4> QED
        BY <1>1, <4>3 DEF IsAccess
    <3>2. CASE ~(k /\ w /\ x = v /\ u = t)
      <4>1. history'[x][u].write = history[x][u].write
        BY <1>8, <3>2
      <4>2. PICK i \in 1 .. (n - 1) : IsAccess(i, u, x, TRUE, history[x][u].write)
        BY <1>1, <2>1, <4>1 DEF DjitInv, HistoryExact
      <4> QED
        BY <1>1, <4>1, <4>2 DEF IsAccess
    <3> QED
      BY <3>1, <3>2
  <2>2. ASSUME NEW x \in Vars, NEW u \in Tids, history'[x][u].read > 0
        PROVE  \E i \in 1 .. n : IsAccess(i, u, x, FALSE, history[x][u].read)'
    <3>1. CASE k /\ ~w /\ x = v /\ u = t
      <4>1. history'[x][u].read = C[t][t]
        BY <1>8, <3>1
      <4>2. accesses'[n].isWrite = FALSE
        BY <1>4, <3>1
      <4>3. IsAccess(n, u, x, FALSE, history[x][u].read)'
        BY <1>4, <3>1, <4>1, <4>2 DEF IsAccess
      <4> QED
        BY <1>1, <4>3 DEF IsAccess
    <3>2. CASE ~(k /\ ~w /\ x = v /\ u = t)
      <4>1. history'[x][u].read = history[x][u].read
        BY <1>8, <3>2
      <4>2. PICK i \in 1 .. (n - 1) : IsAccess(i, u, x, FALSE, history[x][u].read)
        BY <1>1, <2>2, <4>1 DEF DjitInv, HistoryExact
      <4> QED
        BY <1>1, <4>1, <4>2 DEF IsAccess
    <3> QED
      BY <3>1, <3>2
  <2>3. ASSUME NEW i \in 1 .. n, accesses'[i].kept
        PROVE  accesses'[i].frame <=
                 IF accesses'[i].isWrite
                 THEN history'[accesses'[i].addr][accesses'[i].tid].write
                 ELSE history'[accesses'[i].addr][accesses'[i].tid].read
    <3>1. CASE i = n
      BY <1>4, <1>5, <1>8, <2>3, <3>1
    <3>2. CASE i \in 1 .. (n - 1)
      <4>1. accesses'[i] = accesses[i] /\ accesses[i].kept
        BY <1>1, <2>3, <3>2
      <4>2. accesses[i].frame <= old(i)
        BY <1>1, <3>2, <4>1 DEF DjitInv, HistoryExact
      <4> QED
        BY <1>5, <1>6, <1>7, <1>8, <3>2, <4>1, <4>2
    <3> QED
      BY <1>1, <3>1, <3>2
  <2> QED
    BY <1>1, <2>1, <2>2, <2>3 DEF HistoryExact
<1>11. RacesInTrace'
  BY <1>1, <1>3 DEF DjitInv, RacesInTrace
<1>12. NoFalseAlarm'
  <2> SUFFICES ASSUME NEW r \in races'
               PROVE  \E i \in 1 .. n : /\ Races(i, r[1])' /\ accesses'[i].tid = r[2]
    BY <1>1 DEF NoFalseAlarm
  <2>1. CASE r \in races
    <3>1. r[1] \in 1 .. (n - 1)
      BY <1>1, <2>1 DEF DjitInv, RacesInTrace
    <3>2. PICK i \in 1 .. (n - 1) : Races(i, r[1]) /\ accesses[i].tid = r[2]
      BY <1>1, <2>1 DEF NoFalseAlarm
    <3> QED
      BY <1>1, <1>2, <3>1, <3>2
  <2>2. CASE r \notin races
    <3>1. r[1] = n /\ r[2] \in U
      BY <1>3, <2>2
    <3> DEFINE u == r[2]
    <3>2. u \in Tids \ {t} /\ (\/ history[v][u].write > C[t][u]
                               \/ w /\ history[v][u].read > C[t][u])
      BY <3>1 DEF U, UnknownTo
    <3> HIDE DEF u
    <3>3. CASE history[v][u].write > C[t][u]
      <4>1. PICK i \in 1 .. (n - 1) : IsAccess(i, u, v, TRUE, history[v][u].write)
        <5>1. history[v][u].write > 0
          BY <1>5, <1>7, <3>2, <3>3
        <5> QED
          BY <1>1, <3>2, <5>1 DEF DjitInv, HistoryExact
      <4>2. Races(i, n)'
        BY <1>2, <1>6, <3>2, <3>3, <4>1 DEF IsAccess
      <4> QED
        BY <1>1, <3>1, <4>1, <4>2 DEF IsAccess, u
    <3>4. CASE w /\ history[v][u].read > C[t][u]
      <4>1. PICK i \in 1 .. (n - 1) : IsAccess(i, u, v, FALSE, history[v][u].read)
        <5>1. history[v][u].read > 0
          BY <1>5, <1>7, <3>2, <3>4
        <5> QED
          BY <1>1, <3>2, <5>1 DEF DjitInv, HistoryExact
      <4>2. Races(i, n)'
        BY <1>2, <1>6, <3>2, <3>4, <4>1 DEF IsAccess
      <4> QED
        BY <1>1, <3>1, <4>1, <4>2 DEF IsAccess, u
    <3> QED
      BY <3>2, <3>3, <3>4
  <2> QED
    BY <2>1, <2>2
<1>13. LaterFramesComplete'
  <2> SUFFICES ASSUME ~late, NEW i \in 1 .. n, NEW m \in 1 .. n,
                      Races(i, m)', accesses'[i].kept, accesses'[i].frame > 1
               PROVE  Report(m, accesses[i].tid, {"R-W", "W-W", "W-R"})'
    BY <1>0, <1>1 DEF LaterFramesComplete
  <2>1. i \in 1 .. (n - 1)
    BY <1>1, <1>2
  <2>2. accesses'[i] = accesses[i]
    BY <1>1, <2>1
  <2>3. CASE m \in 1 .. (n - 1)
    <3>1. Report(m, accesses[i].tid, {"R-W", "W-W", "W-R"})
      BY <1>1, <1>2, <2>1, <2>2, <2>3 DEF LaterFramesComplete
    <3> QED
      BY <1>3, <2>2, <3>1 DEF Report
  <2>4. CASE m = n
    <3> DEFINE u == accesses[i].tid
    <3>1. /\ accesses[i].addr = v /\ u # t /\ (accesses[i].isWrite \/ w)
          /\ i \notin past[t]
      BY <1>2, <2>1, <2>4
    <3>2. accesses[i].frame > C[t][u]
      BY <1>6, <2>1, <2>2, <3>1
    <3>3. accesses[i].frame <= old(i)
      BY <1>1, <2>1, <2>2 DEF DjitInv, HistoryExact
    <3>4. u \in U
      BY <1>5, <1>7, <2>1, <3>1, <3>2, <3>3 DEF U, UnknownTo
    <3> QED
      BY <1>3, <2>2, <2>4, <3>4 DEF Report
  <2> QED
    BY <1>1, <2>3, <2>4
<1> QED
  BY <1>9, <1>10, <1>11, <1>12, <1>13 DEF DjitInv

-----------------------------------------------------------------------------
(* FastTrack: of the writes *)

Epochs == {F!NoEpoch} \cup (Nat \X Tids)

FastTrackInv == writeEpoch \in [Vars -> Epochs] /\ LastWriteExact /\ RacesInTrace

\* The last write of v is by another thread and t does not know of it.
UnknownWrite(t, v) ==
  /\ writeEpoch[v] # F!NoEpoch /\ writeEpoch[v][2] # t
  /\ writeEpoch[v][1] > C[t][writeEpoch[v][2]]

FastTrackAccess(t, v, w, k) ==
  LET n == Len(accesses) + 1
  IN
  /\ Running(t) /\ Record(t, v, w, k)
  /\ races \subseteq races'
  /\ \A r \in races' \ races :
       /\ r[1] = n
       /\ r[3] = "W-W" => w /\ UnknownWrite(t, v) /\ r[2] = writeEpoch[v][2]
  /\ w /\ UnknownWrite(t, v) =>
       \E r \in races' : r[1] = n /\ r[2] = writeEpoch[v][2] /\ r[3] \in {"W-W"}
  /\ writeEpoch' = IF w /\ k THEN [writeEpoch EXCEPT ![v] = <<C[t][t], t>>]
                   ELSE writeEpoch

LEMMA FastTrackSteps ==
  ASSUME F!Next
  PROVE  \/ Sync /\ UNCHANGED <<writeEpoch, races>>
         \/ \E t \in Tids, v \in Vars, w, k \in BOOLEAN : FastTrackAccess(t, v, w, k)
<1>1. CASE F!Sync /\ UNCHANGED F!ftVars
  BY <1>1 DEF F!Sync, F!ftVars, F!OnRelease, F!OnAcquire, F!BeforeCreate, F!ThreadBegin,
    F!ThreadEnded, F!Running, F!NewFrame, F!Tick, F!Join, F!MaxOf, F!Top, F!Tids, F!NoOne,
    F!hbVars, Sync, OnRelease, OnAcquire, BeforeCreate, ThreadBegin, ThreadEnded, Running,
    NewFrame, Tick, Join, MaxOf, Top, Tids, NoOne, hbVars
<1>2. ASSUME NEW n, NEW u, NEW kind \in {"R-W", "W-R", "W-W"},
             races' = races \/ races' = races \cup {<<n, u, kind>>}
      PROVE  /\ races \subseteq races'
             /\ \A r \in races' \ races : r[1] = n /\ r[2] = u /\ r[3] = kind
  <2>1. races \subseteq races' /\ \A r \in races' \ races : r = <<n, u, kind>>
    BY <1>2
  <2> QED
    BY <2>1
<1>3. ASSUME NEW t \in F!Tids, NEW v \in Vars, F!OnRead(t, v)
      PROVE  t \in Tids /\ \E k \in BOOLEAN : FastTrackAccess(t, v, FALSE, k)
  <2> DEFINE n == Len(accesses) + 1
  <2>1. t \in Tids /\ Running(t) /\ writeEpoch' = writeEpoch
    BY <1>3 DEF F!OnRead, F!Tids, Tids, F!Running, Running
  <2>2. ASSUME NEW k \in BOOLEAN, NEW u, Record(t, v, FALSE, k),
               races' = races \/ races' = races \cup {<<n, u, "R-W">>}
        PROVE  FastTrackAccess(t, v, FALSE, k)
    <3>1. /\ races \subseteq races'
          /\ \A r \in races' \ races : r[1] = n /\ r[2] = u /\ r[3] = "R-W"
      BY <1>2, <2>2
    <3> HIDE DEF n
    <3> QED
      BY <2>1, <2>2, <3>1 DEF FastTrackAccess, n
  <2>3. CASE F!ReadEpochKnown(t, v)
    <3> DEFINE k == ~(F!LastWrite(v) > C[t][readEpoch[v][2]])
    <3>1. k \in BOOLEAN /\ Record(t, v, FALSE, k)
      BY <2>3 DEF F!ReadEpochKnown, F!Record, Record, F!Access, Access,
        F!clockVars, clockVars, F!progVars, progVars
    <3>2. races' = races \/ races' = races \cup {<<n, writeEpoch[v][2], "R-W">>}
      BY <2>3 DEF F!ReadEpochKnown, F!Logged
    <3> HIDE DEF k, n
    <3> QED
      BY <2>1, <2>2, <3>1, <3>2
  <2>4. CASE F!ReadShared(t, v)
    <3>1. PICK junk \in F!Junk :
                 LET unordered == F!LastWrite(v) > junk
                 IN  /\ F!Record(t, v, FALSE, ~unordered)
                     /\ IF unordered THEN F!Logged(writeEpoch[v][2], "R-W")
                        ELSE UNCHANGED races
      BY <2>4 DEF F!ReadShared
    <3> DEFINE k == ~(F!LastWrite(v) > junk)
    <3>2. k \in BOOLEAN /\ Record(t, v, FALSE, k)
      BY <3>1 DEF F!Record, Record, F!Access, Access,
        F!clockVars, clockVars, F!progVars, progVars
    <3>3. races' = races \/ races' = races \cup {<<n, writeEpoch[v][2], "R-W">>}
      BY <3>1 DEF F!Logged
    <3> HIDE DEF k, n
    <3> QED
      BY <2>1, <2>2, <3>2, <3>3
  <2>5. CASE F!ReadFirst(t, v)
    <3>1. Record(t, v, FALSE, TRUE) /\ races' = races
      BY <2>5 DEF F!ReadFirst, F!Record, Record, F!Access, Access,
        F!clockVars, clockVars, F!progVars, progVars
    <3> QED
      BY <2>1, <2>2, <3>1
  <2> QED
    BY <1>3, <2>1, <2>3, <2>4, <2>5 DEF F!OnRead
<1>4. ASSUME NEW t \in F!Tids, NEW v \in Vars, F!OnWrite(t, v)
      PROVE  t \in Tids /\ \E k \in BOOLEAN : FastTrackAccess(t, v, TRUE, k)
  <2> DEFINE n == Len(accesses) + 1
  <2>1. t \in Tids /\ Running(t)
    BY <1>4 DEF F!OnWrite, F!Tids, Tids, F!Running, Running
  <2>2. ASSUME NEW k \in BOOLEAN, NEW u, Record(t, v, TRUE, k), ~UnknownWrite(t, v),
               races' = races \/ races' = races \cup {<<n, u, "W-R">>},
               writeEpoch' = IF k THEN [writeEpoch EXCEPT ![v] = <<C[t][t], t>>]
                             ELSE writeEpoch
        PROVE  FastTrackAccess(t, v, TRUE, k)
    <3>1. /\ races \subseteq races'
          /\ \A r \in races' \ races : r[1] = n /\ r[2] = u /\ r[3] = "W-R"
      BY <1>2, <2>2
    <3> HIDE DEF n
    <3> QED
      BY <2>1, <2>2, <3>1 DEF FastTrackAccess, n
  <2>3. CASE F!WriteAgain(t, v)
    <3>1. Record(t, v, TRUE, TRUE) /\ races' = races /\ ~UnknownWrite(t, v)
      BY <2>3 DEF F!WriteAgain, F!WrittenByOther, UnknownWrite, F!Record, Record, F!Access,
        Access, F!clockVars, clockVars, F!progVars, progVars
    <3>2. writeEpoch' = [writeEpoch EXCEPT ![v] = <<C[t][t], t>>]
      BY <2>3 DEF F!WriteAgain, F!Epoch
    <3> QED
      BY <2>1, <2>2, <3>1, <3>2
  <2>4. CASE F!WriteExclusive(t, v)
    <3> DEFINE k == readEpoch[v][1] <= C[t][writeEpoch[v][2]]
    <3>1. k \in BOOLEAN /\ Record(t, v, TRUE, k) /\ ~UnknownWrite(t, v)
      BY <2>4 DEF F!WriteExclusive, F!UnorderedWrite, UnknownWrite, F!Record, Record,
        F!Access, Access, F!clockVars, clockVars, F!progVars, progVars
    <3>2. /\ races' = races \/ races' = races \cup {<<n, readEpoch[v][2], "W-R">>}
          /\ writeEpoch' = IF k THEN [writeEpoch EXCEPT ![v] = <<C[t][t], t>>]
                           ELSE writeEpoch
      BY <2>4 DEF F!WriteExclusive, F!Epoch, F!Logged
    <3> HIDE DEF k, n
    <3> QED
      BY <2>1, <2>2, <3>1, <3>2
  <2>5. CASE F!WriteShared(t, v)
    <3> DEFINE k == readMap[v] # F!NoClock => \A x \in F!Tids : readMap[v][x] <= C[t][x]
    <3>1. k \in BOOLEAN /\ Record(t, v, TRUE, k) /\ ~UnknownWrite(t, v)
      BY <2>5 DEF F!WriteShared, F!UnorderedWrite, UnknownWrite, F!Record, Record,
        F!Access, Access, F!clockVars, clockVars, F!progVars, progVars
    <3>2. /\ races' = races \/ races' = races \cup {<<n, 0, "W-R">>}
          /\ writeEpoch' = IF k THEN [writeEpoch EXCEPT ![v] = <<C[t][t], t>>]
                           ELSE writeEpoch
      BY <2>5 DEF F!WriteShared, F!Epoch, F!Logged
    <3> HIDE DEF k, n
    <3> QED
      BY <2>1, <2>2, <3>1, <3>2
  <2>6. CASE F!WriteAfterWrite(t, v)
    <3>1. /\ Record(t, v, TRUE, FALSE) /\ UnknownWrite(t, v)
          /\ races' = races \cup {<<n, writeEpoch[v][2], "W-W">>}
          /\ writeEpoch' = writeEpoch
      BY <2>6 DEF F!WriteAfterWrite, F!WrittenByOther, F!UnorderedWrite, UnknownWrite,
        F!Logged, F!Record, Record, F!Access, Access, F!clockVars, clockVars, F!progVars,
        progVars
    <3>2. /\ races \subseteq races' /\ <<n, writeEpoch[v][2], "W-W">> \in races'
          /\ \A r \in races' \ races : r[1] = n /\ r[2] = writeEpoch[v][2] /\ r[3] = "W-W"
      BY <1>2, <3>1
    <3>3. \E r \in races' : r[1] = n /\ r[2] = writeEpoch[v][2] /\ r[3] \in {"W-W"}
      BY <3>2
    <3> HIDE DEF n
    <3> QED
      BY <2>1, <3>1, <3>2, <3>3 DEF FastTrackAccess, n
  <2> QED
    BY <1>4, <2>1, <2>3, <2>4, <2>5, <2>6 DEF F!OnWrite
<1> QED
  BY <1>1, <1>3, <1>4 DEF F!Next, F!ftVars

LEMMA FastTrackAccessStep ==
  ASSUME ConstantsOK, HbInv, mode = "fasttrack", mode' = mode, FastTrackInv,
         WriteReportsTrue, WriteRacesReported,
         NEW t \in Tids, NEW v \in Vars, NEW w \in BOOLEAN, NEW k \in BOOLEAN,
         FastTrackAccess(t, v, w, k)
  PROVE  FastTrackInv' /\ WriteReportsTrue' /\ WriteRacesReported'
<1>n. PICK n \in Nat : n = Len(accesses) + 1
  BY Typing DEF HbInv
<1>0. /\ Running(t) /\ Record(t, v, w, k) /\ UNCHANGED <<C, late>>
  BY DEF FastTrackAccess, Record, clockVars, progVars
<1>1. /\ n \in Nat \ {0} /\ DOMAIN accesses = 1 .. (n - 1)
      /\ DOMAIN accesses' = 1 .. n /\ Len(accesses') = n
      /\ \A i \in 1 .. (n - 1) : accesses'[i] = accesses[i]
      /\ accesses'[n] = Access(t, v, w, k)
  BY <1>n, <1>0, Recorded
<1>2. /\ \A i, m \in 1 .. (n - 1) : Races(i, m)' <=> Races(i, m)
      /\ \A i \in 1 .. (n - 1) :
           Races(i, n)' <=> (/\ accesses[i].addr = v /\ accesses[i].tid # t
                             /\ accesses[i].isWrite \/ w
                             /\ i \notin past[t])
      /\ \A i, m \in 1 .. n : Races(i, m)' => i < m
  BY <1>n, <1>0, RacesGrow
<1>3. /\ races \subseteq races'
      /\ \A r \in races' \ races :
           /\ r[1] = n
           /\ r[3] = "W-W" => w /\ UnknownWrite(t, v) /\ r[2] = writeEpoch[v][2]
      /\ w /\ UnknownWrite(t, v) =>
           \E r \in races' : r[1] = n /\ r[2] = writeEpoch[v][2] /\ r[3] \in {"W-W"}
      /\ writeEpoch' = IF w /\ k THEN [writeEpoch EXCEPT ![v] = <<C[t][t], t>>]
                       ELSE writeEpoch
  BY <1>n DEF FastTrackAccess
<1>4. /\ accesses'[n].tid = t /\ accesses'[n].addr = v /\ accesses'[n].isWrite = w
      /\ accesses'[n].frame = C[t][t] /\ accesses'[n].kept = k
  BY <1>1 DEF Access
<1>5. /\ \A u \in Tids : C[t][u] \in Nat
      /\ \A i \in 1 .. (n - 1) : /\ accesses[i].tid \in Tids /\ accesses[i].addr \in Vars
                                 /\ accesses[i].frame \in Nat
                                 /\ accesses[i].isWrite \in BOOLEAN
  BY <1>1, Typing DEF HbInv
<1>6. \A i \in 1 .. (n - 1) :
        /\ accesses[i].frame > C[t][accesses[i].tid] => i \notin past[t]
        /\ ~late /\ accesses[i].frame > 1 /\ i \notin past[t]
              => accesses[i].frame > C[t][accesses[i].tid]
  BY <1>0, <1>1, RaceIsUnknown
<1>7. writeEpoch' \in [Vars -> Epochs]
  <2>1. <<C[t][t], t>> \in Epochs
    BY <1>5 DEF Epochs
  <2> QED
    BY <1>3, <2>1 DEF FastTrackInv
<1>8. \A x \in Vars : writeEpoch'[x] = IF w /\ k /\ x = v THEN <<C[t][t], t>>
                                       ELSE writeEpoch[x]
  BY <1>3 DEF FastTrackInv
\* Which earlier write was the last one to be taken depends on earlier ones only.
<1>9. \A i \in 1 .. (n - 1) :
        LastTaken(i)' <=> LastTaken(i) /\ ~(w /\ k /\ accesses[i].addr = v)
  <2> SUFFICES ASSUME NEW i \in 1 .. (n - 1)
               PROVE  LastTaken(i)' <=> LastTaken(i) /\ ~(w /\ k /\ accesses[i].addr = v)
    OBVIOUS
  <2>1. accesses'[i] = accesses[i] /\ Len(accesses) = n - 1
    BY <1>n, <1>1
  <2>2. \A j \in i + 1 .. n - 1 : accesses'[j] = accesses[j]
    BY <1>1
  <2>3. ASSUME NEW j \in i + 1 .. n PROVE j = n \/ j \in i + 1 .. n - 1
    BY <1>1
  <2>4. n \in i + 1 .. n /\ \A j \in i + 1 .. n - 1 : j \in i + 1 .. n
    BY <1>1
  <2> QED
    BY <1>1, <1>4, <2>1, <2>2, <2>3, <2>4 DEF LastTaken
<1>10. LastWriteExact'
  <2>1. ASSUME NEW x \in Vars, writeEpoch'[x] # F!NoEpoch
        PROVE  \E i \in 1 .. n : /\ accesses'[i].tid = writeEpoch'[x][2]
                                 /\ accesses'[i].addr = x /\ accesses'[i].isWrite = TRUE
                                 /\ accesses'[i].frame = writeEpoch'[x][1]
    <3>1. CASE w /\ k /\ x = v
      <4>1. writeEpoch'[x] = <<C[t][t], t>> /\ accesses'[n].isWrite = TRUE
        BY <1>4, <1>8, <3>1
      <4>2. writeEpoch'[x][1] = C[t][t] /\ writeEpoch'[x][2] = t
        BY <4>1
      <4>3. n \in 1 .. n
        BY <1>1
      <4> QED
        BY <1>4, <3>1, <4>1, <4>2, <4>3
    <3>2. CASE ~(w /\ k /\ x = v)
      <4>1. writeEpoch'[x] = writeEpoch[x]
        BY <1>8, <3>2
      <4>2. PICK i \in 1 .. (n - 1) :
                   IsAccess(i, writeEpoch[x][2], x, TRUE, writeEpoch[x][1])
        BY <1>1, <2>1, <4>1 DEF FastTrackInv, LastWriteExact, F!NoEpoch
      <4> QED
        BY <1>1, <4>1, <4>2 DEF IsAccess
    <3> QED
      BY <3>1, <3>2
  <2>2. ASSUME NEW i \in 1 .. n, LastTaken(i)'
        PROVE  writeEpoch'[accesses'[i].addr] = <<accesses'[i].frame, accesses'[i].tid>>
    <3>1. CASE i = n
      BY <1>4, <1>8, <2>2, <3>1 DEF LastTaken
    <3>2. CASE i \in 1 .. (n - 1)
      <4>1. LastTaken(i) /\ ~(w /\ k /\ accesses[i].addr = v)
        BY <1>9, <2>2, <3>2
      <4>2. writeEpoch[accesses[i].addr] = <<accesses[i].frame, accesses[i].tid>>
        BY <1>1, <3>2, <4>1 DEF FastTrackInv, LastWriteExact
      <4> QED
        BY <1>1, <1>5, <1>8, <3>2, <4>1, <4>2
    <3> QED
      BY <1>1, <3>1, <3>2
  <2> QED
    BY <1>1, <2>1, <2>2 DEF LastWriteExact, IsAccess, F!NoEpoch
<1>11. RacesInTrace'
  BY <1>1, <1>3 DEF FastTrackInv, RacesInTrace
<1>12. WriteReportsTrue'
  <2> SUFFICES ASSUME NEW r \in races', r[3] = "W-W"
               PROVE  \E i \in 1 .. n : /\ Races(i, r[1])' /\ accesses'[i].isWrite
                                        /\ accesses'[i].tid = r[2]
    BY <1>1 DEF WriteReportsTrue
  <2>1. CASE r \in races
    <3>1. r[1] \in 1 .. (n - 1)
      BY <1>1, <2>1 DEF FastTrackInv, RacesInTrace
    <3>2. PICK i \in 1 .. (n - 1) :
                 Races(i, r[1]) /\ accesses[i].isWrite /\ accesses[i].tid = r[2]
      BY <1>1, <2>1 DEF WriteReportsTrue
    <3> QED
      BY <1>1, <1>2, <3>1, <3>2
  <2>2. CASE r \notin races
    <3>1. r[1] = n /\ w /\ UnknownWrite(t, v) /\ r[2] = writeEpoch[v][2]
      BY <1>3, <2>2
    <3>2. PICK i \in 1 .. (n - 1) :
                 IsAccess(i, writeEpoch[v][2], v, TRUE, writeEpoch[v][1])
      BY <1>1, <3>1 DEF FastTrackInv, LastWriteExact, UnknownWrite
    <3>3. Races(i, n)'
      BY <1>2, <1>6, <3>1, <3>2 DEF UnknownWrite, IsAccess
    <3> QED
      BY <1>1, <3>1, <3>2, <3>3 DEF IsAccess
  <2> QED
    BY <2>1, <2>2
<1>13. WriteRacesReported'
  <2> SUFFICES ASSUME ~late, NEW i \in 1 .. n, NEW m \in 1 .. n, accesses'[m].isWrite,
                      LastKeptWrite(i, m)', Races(i, m)', accesses'[i].frame > 1
               PROVE  Report(m, accesses[i].tid, {"W-W"})' /\ i \in 1 .. (n - 1)
    BY <1>0, <1>1 DEF WriteRacesReported
  <2>1. i \in 1 .. (n - 1) /\ accesses'[i] = accesses[i] /\ i < m
    BY <1>1, <1>2
  <2>2. CASE m \in 1 .. (n - 1)
    <3>1. \A j \in 1 .. m : accesses'[j] = accesses[j]
      BY <1>1, <2>2
    <3>2. \A j \in i + 1 .. m - 1 : j \in 1 .. m
      BY <1>1, <2>1, <2>2
    <3>3. LastKeptWrite(i, m)
      BY <2>1, <2>2, <3>1, <3>2 DEF LastKeptWrite
    <3>4. Report(m, accesses[i].tid, {"W-W"})
      BY <1>1, <1>2, <2>1, <2>2, <3>3 DEF WriteRacesReported
    <3> QED
      BY <1>3, <2>1, <3>4 DEF Report
  <2>3. CASE m = n
    <3>1. /\ accesses[i].addr = v /\ accesses[i].tid # t /\ i \notin past[t]
      BY <1>2, <2>1, <2>3
    <3>2. LastTaken(i)
      <4>1. Len(accesses) = n - 1 /\ \A j \in i + 1 .. n - 1 : accesses'[j] = accesses[j]
        BY <1>n, <1>1, <2>1
      <4> QED
        BY <1>4, <2>1, <2>3, <3>1, <4>1 DEF LastTaken, LastKeptWrite
    <3>3. writeEpoch[v] = <<accesses[i].frame, accesses[i].tid>>
      BY <1>1, <2>1, <3>1, <3>2 DEF FastTrackInv, LastWriteExact
    <3>4. UnknownWrite(t, v) /\ writeEpoch[v][2] = accesses[i].tid
      BY <1>6, <2>1, <3>1, <3>3 DEF UnknownWrite, F!NoEpoch
    <3>5. w
      BY <1>4, <2>3
    <3> QED
      BY <1>3, <2>1, <2>3, <3>4, <3>5 DEF Report
  <2> QED
    BY <1>1, <2>2, <2>3
<1> QED
  BY <1>7, <1>10, <1>11, <1>12, <1>13 DEF FastTrackInv

-----------------------------------------------------------------------------
(* Both *)

RaceInv ==
  /\ HbInv /\ mode \in {"djit", "fasttrack"}
  /\ mode = "djit" => DjitInv /\ NoFalseAlarm /\ LaterFramesComplete
  /\ mode = "fasttrack" => FastTrackInv /\ WriteReportsTrue /\ WriteRacesReported

LEMMA InitRace ==
  ASSUME ConstantsOK, Init
  PROVE  RaceInv
<1>1. HbInv
  <2>1. InitClocks
    BY DEF Init, D!Init, D!InitClocks, InitClocks, D!Tids, Tids, D!NoOne, NoOne
  <2> QED
    BY <2>1, InitHb
<1>2. accesses = <<>> /\ races = {} /\ mode \in {"djit", "fasttrack"}
  BY DEF Init, D!Init, D!InitClocks
<1>3. ASSUME mode = "djit" PROVE DjitInv /\ NoFalseAlarm /\ LaterFramesComplete
  <2>1. history = [v \in Vars |-> [u \in Tids |-> [read |-> 0, write |-> 0]]]
    BY DEF Init, D!Init, D!Tids, Tids
  <2>2. HistoryTypes /\ HistoryExact
    BY <1>2, <2>1 DEF HistoryTypes, HistoryExact
  <2> QED
    BY <1>2, <2>2 DEF DjitInv, RacesInTrace, NoFalseAlarm, LaterFramesComplete
<1>4. ASSUME mode = "fasttrack"
      PROVE  FastTrackInv /\ WriteReportsTrue /\ WriteRacesReported
  <2>1. writeEpoch = [v \in Vars |-> F!NoEpoch]
    BY DEF Init, F!Init
  <2>2. writeEpoch \in [Vars -> Epochs] /\ LastWriteExact
    BY <1>2, <2>1 DEF Epochs, LastWriteExact
  <2> QED
    BY <1>2, <2>2 DEF FastTrackInv, RacesInTrace, WriteReportsTrue, WriteRacesReported
<1> QED
  BY <1>1, <1>2, <1>3, <1>4 DEF RaceInv

\* A step of the clocks alone changes nothing of what is logged and remembered.
LEMMA SyncKeepsDjit ==
  ASSUME DjitInv, NoFalseAlarm, LaterFramesComplete, mode' = mode,
         UNCHANGED <<history, races, accesses>>, late => late', late \in BOOLEAN
  PROVE  DjitInv' /\ NoFalseAlarm' /\ LaterFramesComplete'
<1>1. DjitInv'
  BY DEF DjitInv, HistoryTypes, HistoryExact, IsAccess, RacesInTrace
<1>2. \A i, n : Races(i, n)' <=> Races(i, n)
  BY DEF Races
<1>3. NoFalseAlarm'
  BY <1>2 DEF NoFalseAlarm
<1>4. LaterFramesComplete'
  BY <1>2 DEF LaterFramesComplete, Report
<1> QED
  BY <1>1, <1>3, <1>4

LEMMA SyncKeepsFastTrack ==
  ASSUME FastTrackInv, WriteReportsTrue, WriteRacesReported, mode' = mode,
         UNCHANGED <<writeEpoch, races, accesses>>, late => late', late \in BOOLEAN
  PROVE  FastTrackInv' /\ WriteReportsTrue' /\ WriteRacesReported'
<1>1. FastTrackInv'
  BY DEF FastTrackInv, LastWriteExact, IsAccess, LastTaken, RacesInTrace, F!NoEpoch
<1>2. \A i, n : Races(i, n)' <=> Races(i, n)
  BY DEF Races
<1>3. \A i, n : LastKeptWrite(i, n)' <=> LastKeptWrite(i, n)
  BY DEF LastKeptWrite
<1>4. WriteReportsTrue'
  BY <1>2 DEF WriteReportsTrue
<1>5. WriteRacesReported'
  BY <1>2, <1>3 DEF WriteRacesReported, Report
<1> QED
  BY <1>1, <1>4, <1>5

LEMMA NextRace ==
  ASSUME ConstantsOK, OneCreator, RaceInv, [Next]_vars
  PROVE  RaceInv'
<1>1. HbInv /\ mode \in {"djit", "fasttrack"} /\ late \in BOOLEAN
  BY DEF RaceInv, HbInv, HbTypes
<1>2. CASE UNCHANGED vars
  <2>1. HbInv'
    BY <1>1, <1>2 DEF vars, clockVars, progVars, hbVars, HbInv, HbTypes, StackSound,
      Started, PastKnown, Ahead, KnownPast
  <2>2. UNCHANGED <<accesses, races, history, writeEpoch, late, mode>>
    BY <1>2 DEF vars, progVars, djitOnly, ftOnly
  <2> QED
    BY <1>1, <2>1, <2>2, SyncKeepsDjit, SyncKeepsFastTrack DEF RaceInv
<1>3. CASE mode = "djit" /\ D!Next /\ UNCHANGED <<mode, ftOnly>>
  <2>1. CASE Sync /\ UNCHANGED <<history, races>>
    <3>1. HbInv' /\ accesses' = accesses /\ (late => late')
      BY <1>1, <2>1, SyncStep
    <3> QED
      BY <1>1, <1>3, <2>1, <3>1, SyncKeepsDjit DEF RaceInv
  <2>2. ASSUME NEW t \in Tids, NEW v \in Vars, NEW w \in BOOLEAN, DjitAccess(t, v, w)
        PROVE  RaceInv'
    <3>1. DjitInv' /\ NoFalseAlarm' /\ LaterFramesComplete'
      BY <1>1, <1>3, <2>2, DjitAccessStep DEF RaceInv
    <3>2. HbInv'
      <4>1. Running(t) /\ Record(t, v, w, UnknownTo(t, v, w) = {})
        BY <2>2 DEF DjitAccess
      <4> QED
        BY <1>1, <4>1, RecordStep
    <3> QED
      BY <1>3, <3>1, <3>2 DEF RaceInv
  <2> QED
    BY <1>3, <2>1, <2>2, DjitSteps
<1>4. CASE mode = "fasttrack" /\ F!Next /\ UNCHANGED <<mode, djitOnly>>
  <2>1. CASE Sync /\ UNCHANGED <<writeEpoch, races>>
    <3>1. HbInv' /\ accesses' = accesses /\ (late => late')
      BY <1>1, <2>1, SyncStep
    <3> QED
      BY <1>1, <1>4, <2>1, <3>1, SyncKeepsFastTrack DEF RaceInv
  <2>2. ASSUME NEW t \in Tids, NEW v \in Vars, NEW w \in BOOLEAN, NEW k \in BOOLEAN,
               FastTrackAccess(t, v, w, k)
        PROVE  RaceInv'
    <3>1. FastTrackInv' /\ WriteReportsTrue' /\ WriteRacesReported'
      BY <1>1, <1>4, <2>2, FastTrackAccessStep DEF RaceInv
    <3>2. HbInv'
      <4>1. Running(t) /\ Record(t, v, w, k)
        BY <2>2 DEF FastTrackAccess
      <4> QED
        BY <1>1, <4>1, RecordStep
    <3> QED
      BY <1>4, <3>1, <3>2 DEF RaceInv
  <2> QED
    BY <1>4, <2>1, <2>2, FastTrackSteps
<1> QED
  BY <1>2, <1>3, <1>4 DEF Next

\* Happens-before is in the clocks and nothing else is, the history and the
\* epochs are those of the trace: for traces with one creating thread.
THEOREM RaceInvariant ==
  ASSUME ConstantsOK, OneCreator
  PROVE  Spec => []RaceInv
<1>1. Init => RaceInv
  BY InitRace
<1>2. RaceInv /\ [Next]_vars => RaceInv'
  BY NextRace
<1> QED
  BY <1>1, <1>2, PTL DEF Spec

\* No false alarm of DJIT+, no false W-W report of FastTrack (onRead_DJIT,
\* onWrite_DJIT, onWrite_FT), for any number of threads, locks and addresses.
THEOREM DetectorsReportTrue ==
  ASSUME ConstantsOK, OneCreator
  PROVE  Spec => []ReportsTrue
<1>1. RaceInv => ReportsTrue
  BY DEF RaceInv, ReportsTrue, NoFalseAlarm, WriteReportsTrue
<1> QED
  BY <1>1, RaceInvariant, PTL

\* Races with what the tool remembers, past the first frames and in traces
\* without a late thread, are logged (the same handlers).
THEOREM DetectorsReportRaces ==
  ASSUME ConstantsOK, OneCreator
  PROVE  Spec => []RacesReported
<1>1. RaceInv => RacesReported
  BY DEF RaceInv, RacesReported, LaterFramesComplete, WriteRacesReported
<1> QED
  BY <1>1, RaceInvariant, PTL
=============================================================================
