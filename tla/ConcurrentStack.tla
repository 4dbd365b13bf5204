--------------------------- MODULE ConcurrentStack ---------------------------
(***************************************************************************)
(* The lock-free stack of cs610/assignment5/problem2.  Each atomic load,   *)
(* compare-and-swap and access to a node is a step.                        *)
(*                                                                         *)
(* Any thread may push and pop at any time.  pop() deletes its node at     *)
(* once, and new may hand the address out again: what a pop() that still   *)
(* holds the address reads there is what the next owner has written, or,   *)
(* of free memory, anything.  Its exchange can succeed all the same (aba); *)
(* the steps after that are those of the code too.                         *)
(***************************************************************************)
EXTENDS Integers, Sequences, FiniteSets

CONSTANTS
  Users,
  Nodes,     \* the addresses new can return
  Null, None,
  MaxOps     \* a bound: how many calls each thread makes

StackConstantsOK ==
  /\ IsFiniteSet(Nodes) /\ Null \notin Nodes
  /\ MaxOps \in [Users -> Nat]

VARIABLES
  top,
  mem,    \* value and next of each node
  live,   \* the addresses that are allocated
  pc,
  node,   \* new_node
  old,    \* old_top
  nxt,    \* next_node
  got,    \* what the last pop() returned
  ops,    \* how many calls a thread has made
  stale,  \* history: the pops whose old_top has been deleted since they loaded it
  aba     \* history: has the exchange of one of these succeeded?

locals == <<node, old, nxt, got, ops>>
history == <<stale, aba>>
stackVars == <<top, mem, live, pc, locals, history>>

StackInit ==
  /\ top = Null
  /\ mem = [a \in Nodes |-> [value |-> None, next |-> Null]]
  /\ live = {}
  /\ pc = [p \in Users |-> "idle"]
  /\ node = [p \in Users |-> Null]
  /\ old = [p \in Users |-> Null]
  /\ nxt = [p \in Users |-> Null]
  /\ got = [p \in Users |-> None]
  /\ ops = [p \in Users |-> 0]
  /\ stale = {} /\ aba = FALSE

Goto(p, l) == pc' = [pc EXCEPT ![p] = l]
At(p, l) == pc[p] = l

Begin(p) ==
  /\ At(p, "idle") /\ ops[p] < MaxOps[p]
  /\ ops' = [ops EXCEPT ![p] = @ + 1]

-----------------------------------------------------------------------------
(* push() *)

PushCall(p) ==
  /\ Begin(p)
  /\ \E a \in Nodes \ live :
       /\ live' = live \cup {a}
       /\ node' = [node EXCEPT ![p] = a]
       /\ mem' = [mem EXCEPT ![a] = [value |-> <<p, ops[p] + 1>>, next |-> Null]]
  /\ Goto(p, "push_load")
  /\ UNCHANGED <<top, old, nxt, got, history>>

PushLoad(p) ==
  /\ At(p, "push_load")
  /\ old' = [old EXCEPT ![p] = top]
  /\ Goto(p, "push_next")
  /\ UNCHANGED <<top, mem, live, node, nxt, got, ops, history>>

PushNext(p) ==
  /\ At(p, "push_next")
  /\ mem' = [mem EXCEPT ![node[p]].next = old[p]]
  /\ Goto(p, "push_cas")
  /\ UNCHANGED <<top, live, locals, history>>

\* Mutant: the new node is stored, whatever the top is by now.
Stored(p) == TRUE

Same(p) == top = old[p]

\* compare_exchange_weak()
PushCas(p) ==
  /\ At(p, "push_cas") /\ Same(p)
  /\ top' = node[p]
  /\ Goto(p, "idle")
  /\ UNCHANGED <<mem, live, locals, history>>

\* It fails, perhaps without a reason, and old_top is loaded again.
PushCasFails(p) ==
  /\ At(p, "push_cas")
  /\ old' = [old EXCEPT ![p] = top]
  /\ Goto(p, "push_next")
  /\ UNCHANGED <<top, mem, live, node, nxt, got, ops, history>>

-----------------------------------------------------------------------------
(* pop() *)

PopCall(p) ==
  /\ Begin(p)
  /\ Goto(p, "pop_load")
  /\ UNCHANGED <<top, mem, live, node, old, nxt, got, history>>

\* old_top is loaded: by the first load, or by the exchange that failed.  It
\* returns -1 when there is no top.
LoadTop(p) ==
  /\ old' = [old EXCEPT ![p] = top]
  /\ stale' = stale \ {p}
  /\ IF top = Null
     THEN Goto(p, "idle") /\ got' = [got EXCEPT ![p] = None]
     ELSE Goto(p, "pop_next") /\ UNCHANGED got

PopLoad(p) ==
  /\ At(p, "pop_load") /\ LoadTop(p)
  /\ UNCHANGED <<top, mem, live, node, nxt, ops, aba>>

\* Free memory may hold anything.
FoundAt(a) == IF a \in live THEN {mem[a].next} ELSE Nodes \cup {Null}

\* The node may have been deleted by another pop().
PopNext(p) ==
  /\ At(p, "pop_next")
  /\ \E a \in FoundAt(old[p]) : nxt' = [nxt EXCEPT ![p] = a]
  /\ Goto(p, "pop_cas")
  /\ UNCHANGED <<top, mem, live, node, old, got, ops, history>>

\* compare_exchange_strong()
PopCas(p) ==
  /\ At(p, "pop_cas")
  /\ IF Same(p)
     THEN /\ top' = nxt[p]
          /\ got' = [got EXCEPT ![p] = mem[old[p]].value]
          /\ Goto(p, "pop_delete")
          /\ aba' = (aba \/ p \in stale)
          /\ stale' = stale \ {p}
          /\ UNCHANGED old
     ELSE LoadTop(p) /\ UNCHANGED <<top, aba>>
  /\ UNCHANGED <<mem, live, node, nxt, ops>>

\* The pops that have loaded the address of p's node.
Holding(p) ==
  {q \in Users : (At(q, "pop_next") \/ At(q, "pop_cas")) /\ old[q] = old[p]}

PopDelete(p) ==
  /\ At(p, "pop_delete")
  /\ live' = live \ {old[p]}
  /\ stale' = stale \cup Holding(p)
  /\ Goto(p, "idle")
  /\ UNCHANGED <<top, mem, locals, aba>>

StackStep(p) ==
  \/ PushLoad(p) \/ PushNext(p) \/ PushCas(p) \/ PushCasFails(p)
  \/ PopLoad(p) \/ PopNext(p) \/ PopCas(p) \/ PopDelete(p)

StackNext == \E p \in Users : PushCall(p) \/ PopCall(p) \/ StackStep(p)

\* A thread inside a call keeps running, and a weak compare-and-swap that can
\* succeed again and again does in the end.
StackSpec == StackInit /\ [][StackNext]_stackVars
StackFairSpec ==
  /\ StackSpec
  /\ \A p \in Users : WF_stackVars(StackStep(p)) /\ SF_stackVars(PushCas(p))

-----------------------------------------------------------------------------
\* The nodes from first on, along the next of a memory; walk[k] is Null past the end.
WalkFrom(first, memory) ==
  LET walk[k \in 0 .. Cardinality(Nodes)] ==
        IF k = 0 THEN first
        ELSE IF walk[k - 1] = Null THEN Null ELSE memory[walk[k - 1]].next
  IN walk
Walk == WalkFrom(top, mem)
Height == Cardinality({k \in DOMAIN Walk : Walk[k] # Null})
Contents == [k \in 1 .. Height |-> mem[Walk[k - 1]].value]
Given == UNION {{p} \X (1 .. MaxOps[p]) : p \in Users}

\* However many pops and pushes overlap, there is one way in which the links go
\* wrong: an exchange of pop() succeeds although the node it had loaded was
\* deleted, and pushed again, since (aba).  Until then every node of the stack is
\* allocated, and a pop() whose node was not deleted installs the next of the
\* node it removes (pop, push).
SoundLinks ==
  ~aba =>
    /\ \A k \in 0 .. (Height - 1) : Walk[k] \in live
    /\ \A p \in Users \ stale : At(p, "pop_cas") /\ top = old[p] =>
         old[p] \in live /\ nxt[p] = mem[top].next

\* push() and pop() are those of a LIFO stack and take effect at their
\* successful exchange, an empty pop() when it loads the top, until the
\* exchange of a pop() succeeds whose node was deleted and pushed again.
Lifo == INSTANCE LifoStack WITH Procs <- Users, stack <- Contents, Values <- Given
ImplementsStack == Lifo!Init /\ [][aba' \/ Lifo!Next]_<<Contents, got>>

\* Every call returns.
Inside(p) == pc[p] # "idle"
StackCallsReturn == \A p \in Users : Inside(p) ~> ~Inside(p)
=============================================================================
