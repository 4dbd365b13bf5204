------------------------------ MODULE HbClocks ------------------------------
(***************************************************************************)
(* The part that the two race detectors of cs636/assignment1 share: the    *)
(* vector clocks of threads and locks, and the stack of the parents of     *)
(* threads, driven by the events of a trace.                               *)
(*                                                                         *)
(* Beside the clocks runs what they stand for, happens-before itself:      *)
(* past[t] is the set of the accesses that happen before the next event of *)
(* t, kept by sets alone.  The traces are those of a program that creates  *)
(* threads, waits for them, and uses its locks correctly.                  *)
(***************************************************************************)
EXTENDS Integers, Sequences, FiniteSets

CONSTANTS
  NumThreads,   \* max_threads
  Locks,
  Creators,     \* the threads that create threads
  Vars,         \* the addresses
  MaxAccesses,  \* bound on the accesses of a trace
  MaxTime       \* bound on the time frames of a thread

Tids == 0 .. (NumThreads - 1)

ConstantsOK ==
  /\ NumThreads \in Nat \ {0}
  /\ Creators \subseteq Tids
  /\ MaxAccesses \in Nat /\ MaxTime \in Nat

VARIABLES
  \* the tool
  C,          \* threads_map: the vector clock of each thread
  L,          \* locks_map: the vector clock of each lock
  S,          \* the stack of parents
  \* the traced program
  state,      \* of each thread: "unborn", "created", "running", "ended"
  parent,     \* who created it
  holder,     \* the holder of each lock
  late,       \* has a thread begun after its creator went on? see ThreadBegin
  \* happens-before
  past,       \* the accesses before the next event of each thread
  lockPast,   \* those before the next acquire of each lock
  accesses    \* the accesses of the trace, in order

clockVars == <<C, L, S>>
progVars == <<state, parent, holder, late>>
hbVars == <<past, lockPast>>

NoOne == -1

InitClocks ==
  /\ C = [t \in Tids |-> [u \in Tids |-> 1]]
  /\ L = [l \in Locks |-> [u \in Tids |-> 0]]
  /\ S = <<>>
  /\ state = [t \in Tids |-> IF t = 0 THEN "running" ELSE "unborn"]
  /\ parent = [t \in Tids |-> NoOne]
  /\ holder = [l \in Locks |-> NoOne]
  /\ late = FALSE
  /\ past = [t \in Tids |-> {}]
  /\ lockPast = [l \in Locks |-> {}]
  /\ accesses = <<>>

Running(t) == state[t] = "running"

MaxOf(a, b) == IF a >= b THEN a ELSE b
Join(c, d) == [u \in Tids |-> MaxOf(c[u], d[u])]
\* A thread that starts a new time frame.
Tick(c, t) == [c EXCEPT ![t] = @ + 1]

-----------------------------------------------------------------------------
(* Locks *)

\* Mutant: the releasing thread stays in its time frame.
NoNewFrame(c, t) == c

NewFrame(c, t) == Tick(c, t)

\* onRelease()
OnRelease(t, l) ==
  /\ Running(t) /\ holder[l] = t /\ C[t][t] < MaxTime
  /\ holder' = [holder EXCEPT ![l] = NoOne]
  /\ L' = [L EXCEPT ![l] = Join(@, C[t])]
  /\ C' = [C EXCEPT ![t] = NewFrame(@, t)]
  /\ lockPast' = [lockPast EXCEPT ![l] = @ \cup past[t]]
  /\ UNCHANGED <<S, state, parent, late, past, accesses>>

\* onAcquire()
OnAcquire(t, l) ==
  /\ Running(t) /\ holder[l] = NoOne
  /\ holder' = [holder EXCEPT ![l] = t]
  /\ C' = [C EXCEPT ![t] = Join(@, L[l])]
  /\ past' = [past EXCEPT ![t] = @ \cup lockPast[l]]
  /\ UNCHANGED <<L, S, state, parent, late, lockPast, accesses>>

-----------------------------------------------------------------------------
(* Threads *)

\* "Parent: p": p is about to create the thread u.
BeforeCreate(p, u) ==
  /\ p \in Creators /\ Running(p) /\ C[p][p] < MaxTime
  /\ u # 0 /\ state[u] = "unborn" /\ \A w \in 1 .. (u - 1) : state[w] # "unborn"
  /\ state' = [state EXCEPT ![u] = "created"]
  /\ parent' = [parent EXCEPT ![u] = p]
  /\ S' = Append(S, p)
  /\ past' = [past EXCEPT ![u] = past[p]]
  /\ UNCHANGED <<C, L, holder, late, lockPast, accesses>>

Top == S[Len(S)]

\* "Thread begin: u": the child gets the clock of the thread on top of the
\* stack, which starts a new time frame.  That is late when this thread knows
\* of more accesses by now than happen before the child.
ThreadBegin(u) ==
  /\ state[u] = "created"
  /\ C[Top][Top] < MaxTime
  /\ state' = [state EXCEPT ![u] = "running"]
  /\ C' = [C EXCEPT ![u] = Join(@, C[Top]), ![Top] = Tick(C[Top], Top)]
  /\ late' = (late \/ ~(past[Top] \subseteq past[u]))
  /\ UNCHANGED <<L, S, parent, holder, hbVars, accesses>>

\* "Thread ended: u": the thread popped from the stack gets its clock.  The
\* tool takes this for the join, and so do the traces here: the creator of u
\* is already waiting for it.
ThreadEnded(u) ==
  /\ u # 0 /\ Running(u) /\ Running(parent[u]) /\ C[u][u] < MaxTime
  /\ \A l \in Locks : holder[l] # u
  /\ \A w \in Tids : parent[w] = u => state[w] = "ended"
  /\ state' = [state EXCEPT ![u] = "ended"]
  /\ S' = SubSeq(S, 1, Len(S) - 1)
  /\ C' = [C EXCEPT ![Top] = Join(@, C[u]), ![u] = Tick(@, u)]
  /\ past' = [past EXCEPT ![parent[u]] = @ \cup past[u]]
  /\ UNCHANGED <<L, parent, holder, late, lockPast, accesses>>

Sync ==
  \/ \E t \in Tids, l \in Locks : OnRelease(t, l) \/ OnAcquire(t, l)
  \/ \E p, u \in Tids : BeforeCreate(p, u)
  \/ \E u \in Tids : ThreadBegin(u) \/ ThreadEnded(u)

-----------------------------------------------------------------------------
(* Accesses, as happens-before sees them *)

Access(t, v, w, kept) ==
  [tid |-> t, addr |-> v, isWrite |-> w, frame |-> C[t][t],
   before |-> past[t], kept |-> kept]

\* The access joins the trace; kept is whether the tool remembers it.
Record(t, v, w, kept) ==
  LET n == Len(accesses) + 1 IN
  /\ n <= MaxAccesses
  /\ accesses' = Append(accesses, Access(t, v, w, kept))
  /\ past' = [past EXCEPT ![t] = @ \cup {n}]
  /\ UNCHANGED <<clockVars, progVars, lockPast>>

\* Accesses i < n conflict and neither happens before the other.
Races(i, n) ==
  /\ i < n
  /\ accesses[i].addr = accesses[n].addr
  /\ accesses[i].tid # accesses[n].tid
  /\ accesses[i].isWrite \/ accesses[n].isWrite
  /\ i \notin accesses[n].before
=============================================================================
