--------------------------- MODULE ChainedHashTable ---------------------------
(***************************************************************************)
(* The chained hash table of cs636/assignment2/problem1.  Calls come in    *)
(* batches.  A batch of insertions is carried out by one thread; the       *)
(* iterations of a batch of deletions or lookups run in parallel, each     *)
(* critical section under the mutex of its bucket being a step.            *)
(*                                                                         *)
(* Chains are kept as pointers, because resizing them goes wrong.  The     *)
(* node pools of the threads are one set of nodes that are not in use.     *)
(***************************************************************************)
EXTENDS Integers, Sequences, FiniteSets, SequencesExt

CONSTANTS
  Keys, Vals, None,   \* None: -1; no answer yet
  Nodes,              \* 1 .. the number of nodes
  Inserts, KeyLists,  \* the batches: sequences of <<key, value>>, of <<key>>
  Slots,              \* 1 .. the length of the longest batch
  Frac, Denom,        \* key * A - floor(key * A) = Frac[key] / Denom
  FirstBuckets,       \* INITIAL_BUCKET_COUNT
  BucketThreshold,    \* BUCKET_THRESHOLD
  MaxBatches          \* bound on the batches

ConstantsOK ==
  /\ Keys \subseteq Nat /\ None \notin Vals
  /\ Frac \in [Keys -> 0 .. (Denom - 1)]
  /\ FirstBuckets \in Nat \ {0, 1} /\ BucketThreshold \in Nat \ {0}

Nil == 0

VARIABLES
  kv,           \* packed_kv of each node
  nxt,          \* next of each node
  used,         \* the nodes acquired and not released
  heads,        \* head of each bucket
  count,        \* count of each bucket
  overloaded,   \* overloaded_buckets
  state,        \* "idle", or what the program is doing
  batch,        \* the batch being carried out
  pos,          \* index of the insert loop
  nodes,        \* the vector of new nodes
  attempts,     \* of the search of each iteration; -1 when it is done
  found,        \* the bucket that the search of each iteration gave
  new,          \* the new buckets: heads, count; old bucket; current
  answer,
  batches

insertVars == <<pos, nodes>>
searchVars == <<attempts, found>>
vars == <<kv, nxt, used, heads, count, overloaded, state, batch, insertVars,
          searchVars, new, answer, batches>>

NoNew == [heads |-> <<>>, count |-> <<>>, old |-> 0, cur |-> Nil]

\* init_hash_table().
Init ==
  /\ kv = [n \in Nodes |-> <<>>]
  /\ nxt = [n \in Nodes |-> Nil]
  /\ used = {}
  /\ heads = [b \in 0 .. (FirstBuckets - 1) |-> Nil]
  /\ count = [b \in 0 .. (FirstBuckets - 1) |-> 0]
  /\ overloaded = 0
  /\ state = "idle" /\ batch = <<>>
  /\ pos = 0 /\ nodes = <<>>
  /\ attempts = [i \in Slots |-> -1]
  /\ found = [i \in Slots |-> 0]
  /\ new = NoNew
  /\ answer = [i \in Slots |-> None]
  /\ batches = 0

bucket_count == Cardinality(DOMAIN heads)

primary_hash(k, n) == (n * Frac[k]) \div Denom
secondary_hash(k, n) == 1 + (k % (n - 1))
BucketAt(k, a, n) == (primary_hash(k, n) + a * secondary_hash(k, n)) % n

KeyOf(n) == kv[n][1]

\* The chain that starts at n, as a sequence.
Chain(n) ==
  LET walk[k \in 0 .. Cardinality(Nodes)] ==
        IF k = 0 THEN n ELSE IF walk[k - 1] = Nil THEN Nil ELSE nxt[walk[k - 1]]
  IN IF n = Nil THEN <<>>
     ELSE [k \in 1 .. Cardinality({j \in DOMAIN walk : walk[j] # Nil}) |-> walk[k - 1]]

\* Where k is in the chain that starts at n, or 0.
PlaceOf(k, n) ==
  LET at == {j \in DOMAIN Chain(n) : KeyOf(Chain(n)[j]) = k}
  IN IF at = {} THEN 0 ELSE CHOOSE j \in at : \A i \in at : j <= i

Answer(i, r) == answer' = [answer EXCEPT ![i] = r]

StartBatch(s, list) ==
  /\ state = "idle" /\ batches < MaxBatches
  /\ state' = s /\ batch' = list
  /\ batches' = batches + 1
  /\ answer' = [i \in Slots |-> None]

-----------------------------------------------------------------------------
(* batch_insert() *)

\* The nodes are acquired and filled in parallel.  That Nodes may run out, as
\* lost nodes are never released, is a bound of the model.
BatchInsert ==
  /\ \E list \in Inserts :
       LET fresh == SubSeq(SetToSortSeq(Nodes \ used, <), 1, Len(list))
       IN /\ Len(list) <= Cardinality(Nodes \ used)
          /\ StartBatch("insert", list)
          /\ nodes' = fresh
          /\ used' = used \cup ToSet(fresh)
          /\ kv' = [n \in Nodes |-> IF n \in ToSet(fresh)
                                   THEN list[CHOOSE i \in DOMAIN list : fresh[i] = n]
                                   ELSE kv[n]]
          /\ nxt' = [n \in Nodes |-> IF n \in ToSet(fresh) THEN Nil ELSE nxt[n]]
  /\ pos' = 1
  /\ UNCHANGED <<heads, count, overloaded, searchVars, new>>

\* check_and_resize(): OVERLOAD_RATIO makes no difference, because any
\* overloaded bucket is enough.
ResizeDue == overloaded' > 0

\* Mutant: the duplicate is not looked for.
NeverDuplicate(k, b) == FALSE

Duplicate(k, b) == PlaceOf(k, heads[b]) # 0

\* find_bucket() for an insertion is the first bucket of the search.
InsertPair ==
  LET k == batch[pos][1]
      n == nodes[pos]
      b == primary_hash(k, bucket_count)
  IN /\ state = "insert" /\ pos \in DOMAIN batch
     /\ IF Duplicate(k, b)
        THEN /\ Answer(pos, <<"insert", k, FALSE>>)
             /\ pos' = pos + 1
             /\ UNCHANGED <<nxt, heads, count, overloaded, state, nodes, new>>
        ELSE /\ Answer(pos, <<"insert", k, TRUE>>)
             /\ count' = [count EXCEPT ![b] = @ + 1]
             /\ overloaded' = IF count[b] = BucketThreshold
                              THEN overloaded + 1 ELSE overloaded
             /\ nxt' = [nxt EXCEPT ![n] = heads[b]]
             /\ heads' = [heads EXCEPT ![b] = n]
             /\ nodes' = [nodes EXCEPT ![pos] = Nil]
             /\ IF ResizeDue
                THEN /\ state' = "resize"
                     /\ new' = [heads |-> [j \in 0 .. (2 * bucket_count - 1) |-> Nil],
                                count |-> [j \in 0 .. (2 * bucket_count - 1) |-> 0],
                                old |-> 0, cur |-> heads'[0]]
                     /\ UNCHANGED pos
                ELSE pos' = pos + 1 /\ UNCHANGED <<state, new>>
     /\ UNCHANGED <<kv, used, batch, searchVars, batches>>

\* The nodes that were not needed are released.
EndInsert ==
  /\ state = "insert" /\ pos \notin DOMAIN batch
  /\ used' = used \ {nodes[i] : i \in DOMAIN nodes}
  /\ state' = "idle" /\ batch' = <<>> /\ pos' = 0 /\ nodes' = <<>>
  /\ UNCHANGED <<kv, nxt, heads, count, overloaded, searchVars, new, answer, batches>>

\* What the loop takes for the rest of the chain: next has been overwritten
\* when it is read.
Following(n) == nxt'[n]

\* The loop moves current to the first bucket of its search with room.
ResizeNode ==
  LET n == new.cur
      size == Cardinality(DOMAIN new.heads)
      room == {a \in 0 .. (size - 1) :
                 new.count[BucketAt(KeyOf(n), a, size)] < BucketThreshold}
      b == BucketAt(KeyOf(n), CHOOSE a \in room : \A c \in room : a <= c, size)
  IN /\ state = "resize" /\ n # Nil
     /\ IF room = {}
        THEN nxt' = nxt /\ new' = [new EXCEPT !.cur = nxt[n]]
        ELSE /\ nxt' = [nxt EXCEPT ![n] = new.heads[b]]
             /\ new' = [new EXCEPT !.heads[b] = n, !.count[b] = @ + 1,
                                   !.cur = Following(n)]
     /\ UNCHANGED <<kv, used, heads, count, overloaded, state, batch, insertVars,
                    searchVars, answer, batches>>

ResizeNextBucket ==
  /\ state = "resize" /\ new.cur = Nil /\ new.old < bucket_count - 1
  /\ new' = [new EXCEPT !.old = @ + 1, !.cur = heads[new.old + 1]]
  /\ UNCHANGED <<kv, nxt, used, heads, count, overloaded, state, batch, insertVars,
                 searchVars, answer, batches>>

ResizeEnd ==
  /\ state = "resize" /\ new.cur = Nil /\ new.old = bucket_count - 1
  /\ heads' = new.heads /\ count' = new.count /\ overloaded' = 0
  /\ new' = NoNew
  /\ state' = "insert" /\ pos' = pos + 1
  /\ UNCHANGED <<kv, nxt, used, batch, nodes, searchVars, answer, batches>>

-----------------------------------------------------------------------------
(* batch_delete(), batch_lookup() *)

StartParallel(s) ==
  /\ \E list \in KeyLists :
       /\ StartBatch(s, list)
       /\ attempts' = [i \in Slots |-> IF i \in DOMAIN list THEN 0 ELSE -1]
  /\ found' = [i \in Slots |-> -1]
  /\ UNCHANGED <<kv, nxt, used, heads, count, overloaded, insertVars, new>>

BatchDelete == StartParallel("delete")
BatchLookup == StartParallel("lookup")

Running(i) == state \in {"delete", "lookup"} /\ attempts[i] # -1

\* find_bucket(): one bucket is searched under its lock, which is let go.  A
\* search that fails gives the first bucket.
FindBucket(i) ==
  LET k == batch[i][1]
      b == BucketAt(k, attempts[i], bucket_count)
  IN /\ Running(i) /\ found[i] = -1
     /\ IF PlaceOf(k, heads[b]) # 0
        THEN found' = [found EXCEPT ![i] = b] /\ UNCHANGED attempts
        ELSE /\ attempts' = [attempts EXCEPT ![i] = @ + 1]
             /\ found' = IF attempts[i] + 1 < bucket_count THEN found
                         ELSE [found EXCEPT ![i] = primary_hash(k, bucket_count)]
     /\ UNCHANGED <<kv, nxt, used, heads, count, overloaded, state, batch,
                    insertVars, new, answer, batches>>

Done(i) == attempts' = [attempts EXCEPT ![i] = -1] /\ UNCHANGED found

\* Mutant: the key is taken to be where find_bucket() has seen it.
SeenBefore(i) == attempts[i] < bucket_count

Again(i) == PlaceOf(batch[i][1], heads[found[i]]) # 0

DeleteKey(i) ==
  LET k == batch[i][1]
      b == found[i]
      j == PlaceOf(k, heads[b])
      chain == Chain(heads[b])
  IN /\ Running(i) /\ state = "delete" /\ found[i] # -1
     /\ IF j = 0
        THEN UNCHANGED <<nxt, used, heads, count, overloaded>>
        ELSE /\ IF j = 1
                THEN heads' = [heads EXCEPT ![b] = nxt[chain[1]]] /\ nxt' = nxt
                ELSE heads' = heads /\ nxt' = [nxt EXCEPT ![chain[j - 1]] = nxt[chain[j]]]
             /\ count' = [count EXCEPT ![b] = @ - 1]
             /\ overloaded' = IF count[b] = BucketThreshold + 1
                              THEN overloaded - 1 ELSE overloaded
             /\ used' = used \ {chain[j]}
     /\ Answer(i, <<"delete", k, Again(i)>>)
     /\ Done(i)
     /\ UNCHANGED <<kv, state, batch, insertVars, new, batches>>

LookupKey(i) ==
  LET k == batch[i][1]
      chain == Chain(heads[found[i]])
  IN /\ Running(i) /\ state = "lookup" /\ found[i] # -1
     /\ Answer(i, <<"lookup", k,
                    IF Again(i) THEN kv[chain[PlaceOf(k, heads[found[i]])]][2] ELSE None>>)
     /\ Done(i)
     /\ UNCHANGED <<kv, nxt, used, heads, count, overloaded, state, batch,
                    insertVars, new, batches>>

EndParallel ==
  /\ state \in {"delete", "lookup"} /\ \A i \in Slots : attempts[i] = -1
  /\ state' = "idle" /\ batch' = <<>>
  /\ found' = [i \in Slots |-> 0]
  /\ UNCHANGED <<kv, nxt, used, heads, count, overloaded, insertVars, attempts,
                 new, answer, batches>>

Run ==
  \/ InsertPair \/ EndInsert \/ ResizeNode \/ ResizeNextBucket \/ ResizeEnd
  \/ \E i \in Slots : FindBucket(i) \/ DeleteKey(i) \/ LookupKey(i)
  \/ EndParallel

Next == BatchInsert \/ BatchDelete \/ BatchLookup \/ Run

Spec == Init /\ [][Next]_vars
FairSpec == Spec /\ WF_vars(Run)

-----------------------------------------------------------------------------
Elements(n) == ToSet(Chain(n))

\* The nodes a search can reach, or will be able to when the resize is over.
Reachable ==
  IF state # "resize" THEN UNION {Elements(heads[b]) : b \in DOMAIN heads}
  ELSE UNION {Elements(new.heads[b]) : b \in DOMAIN new.heads}
       \cup Elements(new.cur)
       \cup UNION {Elements(heads[b]) : b \in (new.old + 1) .. (bucket_count - 1)}
Dict ==
  [k \in {KeyOf(n) : n \in Reachable} |->
     kv[CHOOSE n \in Reachable : KeyOf(n) = k][2]]

\* No key is in the table twice, no node of it has been released, and the
\* counters, which decide when to resize, agree with the chains
\* (batch_insert, batch_delete, check_and_resize).
Consistent ==
  /\ \A n, m \in Reachable : KeyOf(n) = KeyOf(m) => n = m
  /\ Reachable \subseteq used
  /\ state # "resize" =>
       /\ \A b \in DOMAIN heads : count[b] = Len(Chain(heads[b]))
       /\ overloaded = Cardinality({b \in DOMAIN heads : count[b] > BucketThreshold})

\* However the deletions and lookups of a batch interleave, the table is a map
\* and its answers are those of this map (batch_insert, batch_delete,
\* batch_lookup).  The steps of check_and_resize() are left to the two
\* properties below.
Map == INSTANCE KeyValueMap WITH dict <- Dict, Callers <- Slots, Bounded <- FALSE
ImplementsMap ==
  Map!Init /\ [][state # "resize" => Map!Next]_<<Dict, answer>>

\* "Rehash all existing elements" (check_and_resize).  The code does not: where
\* it goes on in a chain is read from a node it has moved already.
AllRehashed == [][state = "resize" => Dict' = Dict]_vars

\* What check_and_resize() loses is no more than that: no entry changes or comes
\* in, and only those behind the node that is moved, in its chain, may go.
ResizeLosesRestOnly ==
  [][state = "resize" =>
       \A k \in DOMAIN Dict' \cup DOMAIN Dict :
         \/ k \in DOMAIN Dict /\ k \in DOMAIN Dict' /\ Dict'[k] = Dict[k]
         \/ \E n \in Elements(new.cur) \ {new.cur} : KeyOf(n) = k]_vars

\* Every batch ends.
BatchesEnd == state # "idle" ~> state = "idle"
=============================================================================
