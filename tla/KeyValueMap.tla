----------------------------- MODULE KeyValueMap -----------------------------
(***************************************************************************)
(* What a hash table promises: each insert, delete and lookup takes effect *)
(* at one instant on a map, and its answer is that of the map.             *)
(***************************************************************************)
EXTENDS Functions

CONSTANTS
  Callers, Keys, Vals, None,
  Bounded   \* may the table have no room for a key?

VARIABLES dict, answer

Maps == UNION {[K -> Vals] : K \in SUBSET Keys}

Init == dict = [k \in {} |-> None] /\ answer \in [Callers -> {None}]

Answer(c, r) == answer' = [answer EXCEPT ![c] = r]

\* A new call, or a batch of calls: their old answers are gone.
Begin ==
  /\ \E S \in SUBSET Callers :
       answer' = [c \in Callers |-> IF c \in S THEN None ELSE answer[c]]
  /\ dict' = dict

Insert(c, k, v) ==
  /\ Answer(c, <<"insert", k, TRUE>>)
  /\ k \notin DOMAIN dict
  /\ dict' = [j \in DOMAIN dict \cup {k} |-> IF j = k THEN v ELSE dict[j]]

\* The key is there already, or the table has no room.
InsertFails(c, k) ==
  Answer(c, <<"insert", k, FALSE>>) /\ (k \in DOMAIN dict \/ Bounded) /\ dict' = dict

Delete(c, k) ==
  /\ Answer(c, <<"delete", k, TRUE>>)
  /\ k \in DOMAIN dict
  /\ dict' = Restrict(dict, DOMAIN dict \ {k})

DeleteFails(c, k) ==
  Answer(c, <<"delete", k, FALSE>>) /\ k \notin DOMAIN dict /\ dict' = dict

Lookup(c, k) ==
  /\ Answer(c, <<"lookup", k, IF k \in DOMAIN dict THEN dict[k] ELSE None>>)
  /\ dict' = dict

Next ==
  \/ Begin
  \/ \E c \in Callers, k \in Keys :
       \/ \E v \in Vals : Insert(c, k, v)
       \/ InsertFails(c, k) \/ Delete(c, k) \/ DeleteFails(c, k) \/ Lookup(c, k)

Spec == Init /\ [][Next]_<<dict, answer>>
=============================================================================
