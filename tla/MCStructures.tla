---------------------------- MODULE MCStructures ----------------------------
(* Finite instances of the concurrent data structures.  A behaviour is one  *)
(* of the structure that kind names.  The Bloom filter and the stack are      *)
(* extended, so that their names are those that their proofs use; the others *)
(* are instantiated.                                                          *)
EXTENDS BloomFilter, ConcurrentStack, TLC

CONSTANTS t1, t2, t3, t4, a1, a2, a3

VARIABLES
  kind,
  head, tail, qmem, qlive, qpc, qnode, seen, qnxt, qgot, qops,
  qstale, tailStale, crowded,
  kv, cnxt, used, heads, count, overloaded, state, batch, pos, nodes, attempts,
  cfound, new, canswer, batches,
  code, table, size, stuck, oanswer, inserts

queueVars ==
  <<head, tail, qmem, qlive, qpc, qnode, seen, qnxt, qgot, qops, qstale, tailStale,
    crowded>>
chainedVars ==
  <<kv, cnxt, used, heads, count, overloaded, state, batch, pos, nodes, attempts,
    cfound, new, canswer, batches>>
openVars == <<code, table, size, stuck, oanswer, inserts>>
allVars == <<kind, queueVars, vars, stackVars, chainedVars, openVars>>

Everyone == {t1, t2, t3, t4}

\* Two threads enqueue and two dequeue, side by side from the start.  With two
\* deq() beside an enq(), a deleted node can be the one an exchange goes to.
QueueNodes == {a1, a2, a3}
QueueOps == t1 :> 1 @@ t2 :> 1 @@ t3 :> 1 @@ t4 :> 2
Q == INSTANCE ConcurrentQueue WITH
       mem <- qmem, live <- qlive, pc <- qpc, node <- qnode, nxt <- qnxt,
       got <- qgot, ops <- qops, stale <- qstale,
       Procs <- Everyone, CanEnq <- {t1, t2}, CanDeq <- {t3, t4},
       Nodes <- QueueNodes, Empty <- None, TagMod <- 4,
       MaxOps <- QueueOps

\* Stripes of 1 byte of 2 bits: bits 0,1 in stripe 0; 2,3 in 1; 4,5 in 2.
\* "aba" and "bbc" have two stripes, "cba" has three; none of them locks a
\* higher stripe before a lower one.
FilterHash == "aba" :> <<0, 5, 1>> @@ "bbc" :> <<2, 3, 4>> @@ "cba" :> <<4, 3, 0>>
FilterValues == DOMAIN FilterHash
FilterCalls == t1 :> 2 @@ t2 :> 1

\* Three threads push and pop as they like.  With three calls of one of them and
\* two addresses, a popped address is back on top before a slow pop() exchanges,
\* and the next it has read is wrong by then.
StackUsers == {t1, t2, t3}
StackNodes == {a1, a2}
StackOps == t1 :> 3 @@ t2 :> 1 @@ t3 :> 1

\* Keys 1 and 2 share a bucket, 3 and 4 too; a second key of a bucket makes
\* the table resize.
Frac == <<1, 0, 3, 5>>
Inserts ==
  {<< <<1, "u">>, <<2, "v">> >>, << <<2, "u">>, <<2, "v">> >>, << <<3, "v">> >>,
   << <<1, "v">>, <<4, "u">> >>}
KeyLists == {<< <<1>>, <<2>> >>, << <<2>>, <<2>> >>, << <<3>>, <<4>> >>}
Slots == {1, 2}
C == INSTANCE ChainedHashTable WITH
       nxt <- cnxt, found <- cfound, answer <- canswer,
       Keys <- 1..4, Vals <- {"u", "v"}, Nodes <- 1..6,
       Denom <- 8, FirstBuckets <- 2, BucketThreshold <- 1, MaxBatches <- 3

\* All keys begin at slot 0, so that a search misses free slots; or such that
\* a resize does not end.
OpenKeys == {1, 2, 6, 9, 17}
Codes ==
  {[k \in OpenKeys |-> 0],
   [k \in OpenKeys |-> IF k = 6 THEN 4 ELSE IF k \in {1, 9} THEN 1 ELSE 0]}
O == INSTANCE OpenHashTable WITH
       answer <- oanswer,
       Threads <- {t1}, Keys <- OpenKeys, Vals <- {"v"}, FirstCapacity <- 4,
       MaxInserts <- 5

ASSUME
  /\ Q!ConstantsOK /\ StackConstantsOK /\ C!ConstantsOK
  /\ O!ConstantsOK

Structures == {"queue", "filter", "stack", "chained", "open"}

StructuresStart ==
  /\ Q!Init /\ Init /\ StackInit /\ C!Init /\ O!Init
  /\ kind # "open" => code = CHOOSE f \in Codes : TRUE

Queue == kind = "queue" /\ UNCHANGED <<kind, vars, stackVars, chainedVars, openVars>>
Filter == kind = "filter" /\ UNCHANGED <<kind, queueVars, stackVars, chainedVars, openVars>>
Stack == kind = "stack" /\ UNCHANGED <<kind, queueVars, vars, chainedVars, openVars>>
Chained == kind = "chained" /\ UNCHANGED <<kind, queueVars, vars, stackVars, openVars>>
Open == kind = "open" /\ UNCHANGED <<kind, queueVars, vars, stackVars, chainedVars>>

StructuresNext ==
  \/ Queue /\ Q!Next
  \/ Filter /\ Next
  \/ Stack /\ StackNext
  \/ Chained /\ C!Next
  \/ Open /\ O!Next

\* The fairness of the modules, thread by thread.
Thread(t) ==
  \/ Queue /\ Q!Step(t)
  \/ Filter /\ t \in Procs /\ Run(t)
  \/ Stack /\ t \in Users /\ StackStep(t)
  \/ Chained /\ t = t1 /\ C!Run
Exchange(t) ==
  \/ Queue /\ (Q!EnqHelp(t) \/ Q!EnqLink(t))
  \/ Stack /\ t \in Users /\ PushCas(t)

StructuresSpec ==
  kind \in Structures /\ StructuresStart /\ [][StructuresNext]_allVars

\* The properties of the modules.
ImplementsFifo == Q!ImplementsFifo /\ []Q!DanglingOnlyCrowded
ChainedIsMap ==
  C!ImplementsMap /\ C!ResizeLosesRestOnly
  /\ [](kind = "chained" => C!Consistent)
OpenIsMap == O!ImplementsMap /\ [](kind = "open" => O!SizeExact)

\* The operations of each thread are few, and in the end none is under way: also
\* not in the open table, unless a resize meets an entry whose search does not
\* visit all the slots.
AnyBusy(t) ==
  \/ Q!Busy(t)
  \/ t \in Procs /\ Busy(t)
  \/ t \in Users /\ Inside(t)
  \/ t = t1 /\ (state # "idle" \/ ~O!EveryCallReturns)

\* "Rehash all existing elements" (check_and_resize of the chained table).
AllRehashed == C!AllRehashed
=============================================================================
