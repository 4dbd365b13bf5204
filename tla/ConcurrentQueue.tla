--------------------------- MODULE ConcurrentQueue ---------------------------
(***************************************************************************)
(* The lock-free queue of cs636/assignment2/problem2: a linked list with a *)
(* dummy node, head and tail packed with a tag that counts their updates.  *)
(* Each atomic load and compare-and-swap is a step.                        *)
(*                                                                         *)
(* Any number of threads are in enq() and deq() at once.  deq() deletes    *)
(* the old dummy at once, and new may hand out its address again, while    *)
(* others still hold it: stale says which.  What a thread reads or writes  *)
(* through such an address is undefined; a behaviour ends there, with the  *)
(* thread at "dangling".                                                   *)
(***************************************************************************)
EXTENDS Integers, Sequences, FiniteSets

CONSTANTS
  Procs,
  CanEnq, CanDeq,   \* the threads that call enq() and those that call deq()
  Nodes,            \* the addresses new can return
  Null,
  Empty,            \* deq() returned false
  TagMod,           \* 2^16 in the code
  MaxOps            \* bound on the calls of each thread

ConstantsOK ==
  /\ CanEnq \cup CanDeq \subseteq Procs
  /\ Null \notin Nodes
  /\ TagMod \in Nat \ {0} /\ MaxOps \in [Procs -> Nat]

VARIABLES
  head, tail,   \* packed: address and tag
  mem,          \* value and next of each node
  live,         \* the addresses that are allocated
  pc,
  node,         \* new_node
  seen,         \* curr_tail, curr_head
  nxt,          \* next_packed
  got,          \* what the last deq() returned
  ops,          \* how many calls a thread has made
  stale,        \* history: the threads whose next access is to a deleted node
  tailStale,    \* history: the node of the tail has been deleted
  crowded       \* history: have two enq(), or two deq(), been under way at once?

locals == <<node, seen, nxt, got, ops>>
history == <<stale, tailStale, crowded>>
vars == <<head, tail, mem, live, pc, locals, history>>

Given == UNION {{p} \X (1 .. MaxOps[p]) : p \in Procs}
Packed(a, tag) == [ptr |-> a, tag |-> tag % TagMod]

\* Addresses are alike, so it makes no difference which one comes first.
FirstDummy == CHOOSE a \in Nodes : TRUE

Init ==
  /\ head = Packed(FirstDummy, 0) /\ tail = head
  /\ mem = [a \in Nodes |-> [value |-> Empty, next |-> Null]]
  /\ live = {FirstDummy}
  /\ pc = [p \in Procs |-> "idle"]
  /\ node = [p \in Procs |-> Null]
  /\ seen = [p \in Procs |-> head]
  /\ nxt = [p \in Procs |-> Null]
  /\ got = [p \in Procs |-> Empty]
  /\ ops = [p \in Procs |-> 0]
  /\ stale = {} /\ tailStale = FALSE /\ crowded = FALSE

Goto(p, l) == pc' = [pc EXCEPT ![p] = l]

InEnq(p) == pc[p] \in {"enq_tail", "enq_next", "enq_help", "enq_link", "enq_swing"}
InDeq(p) == pc[p] \in {"deq_head", "deq_next", "deq_value", "deq_cas", "deq_free"}
Dangling == \E p \in Procs : pc[p] = "dangling"

\* p can take its next step, which is at l.
At(p, l) == pc[p] = l /\ ~Dangling

\* The address that p goes on with: to read or write there or, in enq_help, to
\* make it the tail.
Aim(p) ==
  CASE pc[p] \in {"enq_next", "enq_link", "deq_next"} -> seen[p].ptr
    [] pc[p] \in {"enq_help", "deq_value"} -> nxt[p]
    [] OTHER -> Null

\* The node that p reads or writes has not been deleted since p has its address.
Access(p) == p \notin stale

\* The word that follows seen[p] when it is made to point to a.
Successor(p, a) == Packed(a, seen[p].tag + 1)

-----------------------------------------------------------------------------
(* enq() *)

\* Mutant: a failed attempt goes on with the tail it has read.
RetryStale == "enq_next"

Retry == "enq_tail"

\* new Node(value).
EnqCall(p) ==
  /\ At(p, "idle") /\ p \in CanEnq /\ ops[p] < MaxOps[p]
  /\ \E a \in Nodes \ live :
       /\ live' = live \cup {a}
       /\ node' = [node EXCEPT ![p] = a]
       /\ mem' = [mem EXCEPT ![a] = [value |-> <<p, ops[p] + 1>>, next |-> Null]]
  /\ ops' = [ops EXCEPT ![p] = @ + 1]
  /\ crowded' = (crowded \/ \E q \in Procs : InEnq(q))
  /\ Goto(p, "enq_tail")
  /\ UNCHANGED <<head, tail, seen, nxt, got, stale, tailStale>>

EnqReadTail(p) ==
  /\ At(p, "enq_tail")
  /\ seen' = [seen EXCEPT ![p] = tail]
  /\ stale' = IF tailStale THEN stale \cup {p} ELSE stale
  /\ Goto(p, "enq_next")
  /\ UNCHANGED <<head, tail, mem, live, node, nxt, got, ops, tailStale, crowded>>

EnqReadNext(p) ==
  /\ At(p, "enq_next") /\ Access(p)
  /\ nxt' = [nxt EXCEPT ![p] = mem[seen[p].ptr].next]
  /\ Goto(p, IF nxt'[p] # Null THEN "enq_help" ELSE "enq_link")
  /\ UNCHANGED <<head, tail, mem, live, node, seen, got, ops, history>>

\* Mutant: the tail is stored to, whatever it is by now.
TailStored(p) == TRUE

TailSame(p) == tail = seen[p]

\* The tail lags behind: compare_exchange_weak() helps it on, or
\* fails, perhaps without a reason.
EnqHelp(p) ==
  /\ At(p, "enq_help") /\ TailSame(p)
  /\ tail' = Successor(p, nxt[p])
  /\ tailStale' = (p \in stale)
  /\ stale' = stale \ {p}
  /\ Goto(p, Retry)
  /\ UNCHANGED <<head, mem, live, locals, crowded>>

EnqHelpFails(p) ==
  /\ At(p, "enq_help")
  /\ stale' = stale \ {p}
  /\ Goto(p, Retry)
  /\ UNCHANGED <<head, tail, mem, live, locals, tailStale, crowded>>

\* Mutant: the link is stored to, whatever it is by now.
LinkStored(p) == TRUE

LinkSame(p) == mem[seen[p].ptr].next = Null

\* compare_exchange_weak() on the next of the last node; it may fail without
\* a reason.
EnqLink(p) ==
  /\ At(p, "enq_link") /\ Access(p) /\ LinkSame(p)
  /\ mem' = [mem EXCEPT ![seen[p].ptr].next = node[p]]
  /\ Goto(p, "enq_swing")
  /\ UNCHANGED <<head, tail, live, locals, history>>

EnqLinkFails(p) ==
  /\ At(p, "enq_link") /\ Access(p)
  /\ Goto(p, Retry)
  /\ UNCHANGED <<head, tail, mem, live, locals, history>>

\* compare_exchange_strong() on the tail; enq() returns true.
EnqSwing(p) ==
  /\ At(p, "enq_swing")
  /\ tail' = IF TailSame(p) THEN Successor(p, node[p]) ELSE tail
  /\ tailStale' = (tailStale /\ ~TailSame(p))
  /\ Goto(p, "idle")
  /\ UNCHANGED <<head, mem, live, locals, stale, crowded>>

-----------------------------------------------------------------------------
(* deq() *)

DeqCall(p) ==
  /\ At(p, "idle") /\ p \in CanDeq /\ ops[p] < MaxOps[p]
  /\ ops' = [ops EXCEPT ![p] = @ + 1]
  /\ crowded' = (crowded \/ \E q \in Procs : InDeq(q))
  /\ Goto(p, "deq_head")
  /\ UNCHANGED <<head, tail, mem, live, node, seen, nxt, got, stale, tailStale>>

DeqReadHead(p) ==
  /\ At(p, "deq_head")
  /\ seen' = [seen EXCEPT ![p] = head]
  /\ Goto(p, "deq_next")
  /\ UNCHANGED <<head, tail, mem, live, node, nxt, got, ops, history>>

\* Without a next node deq() returns false.
DeqReadNext(p) ==
  /\ At(p, "deq_next") /\ Access(p)
  /\ nxt' = [nxt EXCEPT ![p] = mem[seen[p].ptr].next]
  /\ IF nxt'[p] = Null
     THEN Goto(p, "idle") /\ got' = [got EXCEPT ![p] = Empty]
     ELSE Goto(p, "deq_value") /\ UNCHANGED got
  /\ UNCHANGED <<head, tail, mem, live, node, seen, ops, history>>

\* value = extract_ptr(next_packed)->value, kept in node's place.
DeqReadValue(p) ==
  /\ At(p, "deq_value") /\ Access(p)
  /\ node' = [node EXCEPT ![p] = mem[nxt[p]].value]
  /\ Goto(p, "deq_cas")
  /\ UNCHANGED <<head, tail, mem, live, seen, nxt, got, ops, history>>

\* compare_exchange_strong() on the head.
DeqCas(p) ==
  /\ At(p, "deq_cas")
  /\ IF head = seen[p]
     THEN /\ head' = Successor(p, nxt[p])
          /\ got' = [got EXCEPT ![p] = node[p]]
          /\ Goto(p, "deq_free")
     ELSE Goto(p, "deq_head") /\ UNCHANGED <<head, got>>
  /\ UNCHANGED <<tail, mem, live, node, seen, nxt, ops, history>>

OldDummy(p) == seen[p].ptr

\* delete head_node; deq() returns true.
DeqFree(p) ==
  /\ At(p, "deq_free")
  /\ live' = live \ {OldDummy(p)}
  /\ stale' = stale \cup {q \in Procs : Aim(q) = OldDummy(p)}
  /\ tailStale' = (tailStale \/ tail.ptr = OldDummy(p))
  /\ Goto(p, "idle")
  /\ UNCHANGED <<head, tail, mem, locals, crowded>>

-----------------------------------------------------------------------------
(* Both *)

\* tail_node->next, head_node->next or the value of the next node, when the node
\* has been deleted since p, or the tail, was made to point to it.
DanglingAccess(p) ==
  /\ \E l \in {"enq_next", "enq_link", "deq_next", "deq_value"} : At(p, l)
  /\ p \in stale
  /\ Goto(p, "dangling")
  /\ UNCHANGED <<head, tail, mem, live, locals, history>>

-----------------------------------------------------------------------------
Step(p) ==
  \/ EnqReadTail(p) \/ EnqReadNext(p) \/ EnqHelp(p) \/ EnqHelpFails(p)
  \/ EnqLink(p) \/ EnqLinkFails(p) \/ EnqSwing(p)
  \/ DeqReadHead(p) \/ DeqReadNext(p) \/ DeqReadValue(p) \/ DeqCas(p)
  \/ DeqFree(p) \/ DanglingAccess(p)

Next == \E p \in Procs : EnqCall(p) \/ DeqCall(p) \/ Step(p)

\* A thread inside a call keeps running, and a weak compare-and-swap that can
\* succeed again and again does in the end.
Spec == Init /\ [][Next]_vars
FairSpec ==
  /\ Spec
  /\ \A p \in Procs : WF_vars(Step(p)) /\ SF_vars(EnqHelp(p) \/ EnqLink(p))

-----------------------------------------------------------------------------
\* The nodes after the dummy, following next; walk[k] is Null past the end.
Walk ==
  LET walk[k \in 0 .. Cardinality(Nodes)] ==
        IF k = 0 THEN mem[head.ptr].next
        ELSE IF walk[k - 1] = Null THEN Null ELSE mem[walk[k - 1]].next
  IN walk
Length == Cardinality({k \in DOMAIN Walk : Walk[k] # Null})
Contents == [k \in 1 .. Length |-> mem[Walk[k - 1]].value]

\* The list is a FIFO queue, with as many enq() and deq() at once as there are
\* threads: enq() takes effect when it links its node, deq() when it moves the
\* head or finds no next node (enq, deq).
Fifo == INSTANCE FifoQueue WITH queue <- Contents, Values <- Given
ImplementsFifo == Fifo!Spec

\* delete head_node leaves nobody with the address of the node as long as one
\* thread at a time is in enq() and one in deq(); beside a second one of either
\* kind it can (deq).
DanglingOnlyCrowded == Dangling => crowded

\* Every call returns, if no thread meets a node that was deleted.
Busy(p) == pc[p] # "idle" /\ ~Dangling
CallsReturn == \A p \in Procs : Busy(p) ~> ~Busy(p)
=============================================================================
