---------------------------- MODULE OpenHashTable ----------------------------
(***************************************************************************)
(* The open-addressing hash table of cs610/assignment5/problem1: double    *)
(* hashing, tombstones, and a resize that doubles the capacity.  One mutex *)
(* covers each call, so a call is one step.                                *)
(*                                                                         *)
(* murmurHash(key, n) is a number that depends on the key, modulo n.  That *)
(* number is arbitrary here (code): "Primary hash : can be replaced".      *)
(***************************************************************************)
EXTENDS Integers, Sequences, FiniteSets, SequencesExt

CONSTANTS
  Threads,
  Keys,          \* positive: 0 is SENTINEL_KEY
  Vals,
  Codes,         \* the possible assignments of a hash number to each key
  FirstCapacity,
  MaxInserts,    \* bound on the calls of insert()
  None           \* SENTINEL_VALUE; no answer yet

ConstantsOK ==
  /\ Keys \subseteq Nat \ {0} /\ Codes \subseteq [Keys -> Nat]
  /\ FirstCapacity \in Nat \ {0, 1}
  /\ None \notin Vals

VARIABLES
  code,      \* the hash number of each key
  table,     \* the slots, from 0: [occ, key, val]
  size,
  stuck,     \* a call loops for ever, with the mutex
  answer,    \* of the last call of each thread
  inserts    \* how often insert() has been called

vars == <<code, table, size, stuck, answer, inserts>>

Empty == [occ |-> FALSE, key |-> 0, val |-> None]
Tombstone == [occ |-> TRUE, key |-> 0, val |-> None]

capacity == Cardinality(DOMAIN table)
EmptyTable(n) == [i \in 0 .. (n - 1) |-> Empty]

\* initHashTable().
Init ==
  /\ code \in Codes
  /\ table = EmptyTable(FirstCapacity)
  /\ size = 0 /\ stuck = FALSE /\ inserts = 0
  /\ answer = [t \in Threads |-> None]

primaryHash(k, n) == code[k] % n
secondaryHash(k, n) == 1 + (k % (n - 1))

\* The slots that a search for k visits, in order.
Probe(k, n) ==
  [a \in 1 .. n |-> (primaryHash(k, n) + (a - 1) * secondaryHash(k, n)) % n]

\* The first slot of the search that is one of goals, or -1.
FirstSlot(k, n, goals) ==
  LET hits == {a \in 1 .. n : Probe(k, n)[a] \in goals}
  IN IF hits = {} THEN -1 ELSE Probe(k, n)[Min(hits)]

\* Neither empty nor a tombstone.
Holds(slot) == slot.occ /\ slot.key # 0

-----------------------------------------------------------------------------
(* resize(): the entries go to a table of twice the size, in slot order.  The *)
(* search for a free slot has no bound: when the step visits occupied slots    *)
(* only, it does not end.                                                      *)

\* Mutant: the entry goes to its first slot, occupied or not.
PlaceAnyhow(new, slot) ==
  LET n == Cardinality(DOMAIN new)
  IN [new EXCEPT ![primaryHash(slot.key, n)] = slot]

Place(new, slot) ==
  LET n == Cardinality(DOMAIN new)
      free == FirstSlot(slot.key, n, {i \in DOMAIN new : ~new[i].occ})
  IN IF free = -1 THEN <<>> ELSE [new EXCEPT ![free] = slot]

\* The new table, or <<>> if a search does not end.
Resized ==
  LET live == SelectSeq([i \in 1 .. capacity |-> table[i - 1]], Holds)
  IN FoldLeft(LAMBDA new, slot : IF new = <<>> THEN new ELSE Place(new, slot),
              EmptyTable(2 * capacity), live)

\* (float)size / capacity > 0.8
Overloaded == 5 * size > 4 * capacity

-----------------------------------------------------------------------------
Answer(t, r) == answer' = [answer EXCEPT ![t] = r]

\* The table in which insert() searches.
Ready == IF Overloaded THEN Resized ELSE table

InsertStuck(t) ==
  /\ Ready = <<>>
  /\ stuck' = TRUE
  /\ UNCHANGED <<table, size, answer>>

InsertReady(t, k, v) ==
  LET base == Ready
      n == Cardinality(DOMAIN base)
      slot == FirstSlot(k, n, {i \in DOMAIN base : ~Holds(base[i])})
  IN /\ base # <<>>
     /\ IF slot = -1
        THEN table' = base /\ size' = size /\ Answer(t, <<"insert", k, FALSE>>)
        ELSE /\ table' = [base EXCEPT ![slot] = [occ |-> TRUE, key |-> k, val |-> v]]
             /\ size' = size + 1
             /\ Answer(t, <<"insert", k, TRUE>>)
     /\ UNCHANGED stuck

\* insert() does not look for the key: the callers insert a key once.
Present(k) == \E i \in DOMAIN table : Holds(table[i]) /\ table[i].key = k

insert(t, k, v) ==
  /\ ~stuck /\ inserts < MaxInserts /\ ~Present(k)
  /\ inserts' = inserts + 1
  /\ InsertStuck(t) \/ InsertReady(t, k, v)
  /\ UNCHANGED code

\* Mutant: the slot of a deleted entry becomes empty.
Erased == Empty

Deleted == Tombstone

\* The search of deleteEntry() ends at the first slot that was never used.
deleteEntry(t, k) ==
  LET goals == {i \in DOMAIN table : ~table[i].occ \/ table[i].key = k}
      slot == FirstSlot(k, capacity, goals)
  IN /\ ~stuck
     /\ IF slot = -1 \/ ~table[slot].occ
        THEN Answer(t, <<"delete", k, FALSE>>) /\ UNCHANGED <<table, size>>
        ELSE /\ table' = [table EXCEPT ![slot] = Deleted]
             /\ size' = size - 1
             /\ Answer(t, <<"delete", k, TRUE>>)
     /\ UNCHANGED <<code, stuck, inserts>>

\* lookup() visits every slot of the search.
lookup(t, k) ==
  LET slot == FirstSlot(k, capacity, {i \in DOMAIN table : table[i].key = k})
  IN /\ ~stuck
     /\ Answer(t, <<"lookup", k, IF slot = -1 THEN None ELSE table[slot].val>>)
     /\ UNCHANGED <<code, table, size, stuck, inserts>>

Next ==
  \E t \in Threads, k \in Keys :
    \/ \E v \in Vals : insert(t, k, v)
    \/ deleteEntry(t, k)
    \/ lookup(t, k)

Spec == Init /\ [][Next]_vars

-----------------------------------------------------------------------------
Live == {i \in DOMAIN table : Holds(table[i])}
Dict ==
  [k \in {table[i].key : i \in Live} |->
     table[CHOOSE i \in Live : table[i].key = k].val]

\* size counts the entries, through tombstones and resizes.
SizeExact == size = Cardinality(Live)

\* insert(), deleteEntry() and lookup() answer as a map does, whatever is left
\* behind by deletions and moved by resizes.
Map == INSTANCE KeyValueMap WITH dict <- Dict, Callers <- Threads, Bounded <- TRUE
ImplementsMap == Map!Spec

\* Every call returns, as long as the searches of a resize visit all slots of the
\* new table: the step of the entry and the capacity have no common factor.
VisitsAll(k, n) == {Probe(k, n)[a] : a \in 1 .. n} = 0 .. (n - 1)
EveryCallReturns ==
  stuck => \E i \in Live : ~VisitsAll(table[i].key, 2 * capacity)
=============================================================================
