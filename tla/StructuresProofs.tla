-------------------------- MODULE StructuresProofs --------------------------
(***************************************************************************)
(* Proofs about the Bloom filter, for every number of threads, values and  *)
(* stripes and every hash, and about the lock-free stack, for any threads  *)
(* and nodes and any mixture of pushes and pops.                           *)
(*                                                                         *)
(* The filter: what it promises its callers (FilterSound).  A thread is at *)
(* an instruction of the body of its call.  The stripes it owns are those  *)
(* that the instructions before it have locked and not unlocked, so that   *)
(* the loads and stores of add() and the count of print_stats() are under  *)
(* the locks they need.                                                    *)
(*                                                                         *)
(* The stack: its links are sound, and it implements LifoStack (StackInv   *)
(* is inductive).  Its nodes are a chain of different nodes from the top   *)
(* to Null.  A push() owns a node that is not of the chain, whose next is  *)
(* old_top when it exchanges; a pop() that has exchanged owns the node it  *)
(* deletes.  A pop() whose node nobody has deleted (it is not stale) has   *)
(* loaded a node of the chain or one that another pop() still owns, so     *)
(* that new cannot give it out and the next that was read is still its     *)
(* next.  The exchange of a stale pop() is the event aba.                  *)
(* What the walk from the top finds is the chain, by induction along it.   *)
(***************************************************************************)
EXTENDS BloomFilter, ConcurrentStack, FiniteSetTheorems, SequenceTheorems,
        WellFoundedInduction, TLAPS

-----------------------------------------------------------------------------
(* The Bloom filter                                                          *)

Instructions ==
  ({"lock", "unlock"} \X Stripes) \cup ({"load", "store", "test"} \X Bits) \cup {<<"count">>}

Calls == {<<"none">>, <<"stats">>} \cup ({"add", "contains"} \X Values)

Body(c) ==
  CASE c[1] = "add" -> AddBody(c[2])
    [] c[1] = "contains" -> ContainsBody(c[2])
    [] c[1] = "stats" -> StatsBody
    [] OTHER -> <<>>

\* The stripes that are locked before instruction k of a body.
Held(body, k) ==
  {s \in Stripes :
     \E j \in 1 .. (k - 1) :
       body[j] = Lock(s) /\ \A i \in j .. (k - 1) : body[i] # Unlock(s)}

\* The index of the next instruction of p in the body of its call.
InstrOf(p) == Len(Body(call[p])) - Len(todo[p]) + 1

IsSet(b) == b \in bitArray[ByteOf(b)]

TypeInv ==
  /\ bitArray \in [Bytes -> SUBSET Bits]
  /\ owner \in [Stripes -> Procs \cup {NoProc}]
  /\ todo \in [Procs -> Seq(Instructions)]
  /\ call \in [Procs -> Calls]
  /\ reg \in [Procs -> SUBSET Bits]
  /\ found \in [Procs -> BOOLEAN]
  /\ stats \in [Procs -> SUBSET Bits]
  /\ calls \in [Procs -> Nat]
  /\ added \subseteq Values
  /\ sure \in [Procs -> BOOLEAN]

\* The instructions that are left are the end of the body.
TodoInv ==
  \A p \in Procs :
    /\ Len(todo[p]) <= Len(Body(call[p]))
    /\ \A i \in 1 .. Len(todo[p]) : todo[p][i] = Body(call[p])[InstrOf(p) - 1 + i]

OwnerInv ==
  \A p \in Procs, s \in Stripes :
    owner[s] = p <=> s \in Held(Body(call[p]), InstrOf(p))

\* The bits that an add() has stored are set, and the byte that it has loaded
\* does not change before it stores it.
AddInv ==
  \A p \in Procs, v \in Values, i \in 1..3 : call[p] = <<"add", v>> =>
    /\ InstrOf(p) > Len(LockOrder(v)) + 2 * i => IsSet(Hash[v][i])
    /\ InstrOf(p) = Len(LockOrder(v)) + 2 * i => reg[p] = bitArray[ByteOf(Hash[v][i])]

AddedInv == \A v \in added : \A i \in 1..3 : IsSet(Hash[v][i])

ContainsInv ==
  \A p \in Procs, v \in Values :
    call[p] = <<"contains", v>> /\ sure[p] => v \in added /\ found[p]

StatsInv ==
  \A p \in Procs : call[p] = <<"stats">> /\ InstrOf(p) > StripeCount + 1 =>
    \E S \in SUBSET Values : stats[p] = UNION {BitsOf(v) : v \in S}

\* The values whose bits may be found in the array: added, or being added.
Started == added \cup {v \in Values : \E p \in Procs : call[p] = <<"add", v>> /\ InstrOf(p) > 1}

BitsInv == \A y \in Bytes : \A b \in bitArray[y] : \E v \in Started : b \in BitsOf(v)

FilterInv ==
  /\ TypeInv /\ TodoInv /\ OwnerInv /\ AddInv /\ AddedInv
  /\ ContainsInv /\ StatsInv /\ BitsInv

-----------------------------------------------------------------------------
(* Bits and stripes *)

LEMMA Quotient ==
  ASSUME NEW d \in Nat \ {0}, NEW m \in Nat, NEW x \in 0 .. (d * m - 1)
  PROVE  x \div d \in 0 .. (m - 1)
<1> DEFINE q == x \div d
<1>1. q \in Int /\ d * q <= x /\ x < d * q + d
  OBVIOUS
<1>2. q >= 0
  <2> SUFFICES ASSUME q <= -1 PROVE FALSE
    BY <1>1
  <2>1. d * q <= d * (-1)
    BY <1>1
  <2> QED BY <2>1, <1>1
<1>3. q < m
  <2> SUFFICES ASSUME m <= q PROVE FALSE
    BY <1>1
  <2>1. d * m <= d * q
    BY <1>1
  <2> QED BY <2>1, <1>1
<1> QED BY <1>1, <1>2, <1>3

LEMMA BitPlace ==
  ASSUME NEW b \in Bits
  PROVE  ByteOf(b) \in Bytes /\ get_stripe(b) \in Stripes
<1> DEFINE BB == ByteBits
           SS == StripeSize
           SC == StripeCount
<1>1. BB \in Nat \ {0} /\ SS \in Nat \ {0} /\ SC \in Nat \ {0} /\ SS * SC \in Nat
  BY Parameters DEF ConstantsOK
<1>2. BB * SS * SC = BB * (SS * SC)
  BY <1>1
<1>3. ByteOf(b) \in Bytes
  BY <1>1, <1>2, Quotient DEF ByteOf, Bytes, Bits
<1>4. get_stripe(b) \in Stripes
  BY <1>1, <1>3, Quotient DEF get_stripe, Bytes, Stripes
<1> QED BY <1>3, <1>4

LEMMA ValueBits ==
  ASSUME NEW v \in Values, NEW i \in 1..3
  PROVE  /\ Hash[v][i] \in Bits /\ Hash[v][i] \in BitsOf(v)
         /\ Stripe(v)[i] = get_stripe(Hash[v][i]) /\ Stripe(v)[i] \in Stripes
<1>1. Hash[v][i] \in Bits
  BY Parameters DEF ConstantsOK
<1> QED BY <1>1, BitPlace DEF BitsOf, Stripe

-----------------------------------------------------------------------------
(* The orders of the locks *)

LEMMA AscendingOrder ==
  ASSUME NEW s, s[1] \in Int, s[2] \in Int, s[3] \in Int,
         s[1] # s[2], s[1] # s[3], s[2] # s[3]
  PROVE  /\ Ascending(s) \in [1..3 -> {s[1], s[2], s[3]}]
         /\ Ascending(s)[1] < Ascending(s)[2] /\ Ascending(s)[2] < Ascending(s)[3]
<1> DEFINE P(t) == t[1] < t[2] /\ t[2] < t[3]
           T == [1..3 -> {s[1], s[2], s[3]}]
           f(a, b, c) == [i \in 1..3 |-> IF i = 1 THEN a ELSE IF i = 2 THEN b ELSE c]
<1>1. \A a, b, c \in {s[1], s[2], s[3]} :
        a < b /\ b < c => f(a, b, c) \in T /\ P(f(a, b, c))
  OBVIOUS
<1>2. \E a, b, c \in {s[1], s[2], s[3]} : a < b /\ b < c
  OBVIOUS
<1>3. \E t \in T : P(t)
  BY <1>1, <1>2
<1> QED BY <1>3 DEF Ascending

\* Every stripe of a value is locked once, and unlocked once.
LEMMA Orders ==
  ASSUME NEW v \in Values
  PROVE  /\ Len(LockOrder(v)) \in 1..3
         /\ LockOrder(v) \in [1 .. Len(LockOrder(v)) -> Stripes]
         /\ UnlockOrder(v) \in [1 .. Len(LockOrder(v)) -> Stripes]
         /\ Len(UnlockOrder(v)) = Len(LockOrder(v))
         /\ \A i, j \in 1 .. Len(LockOrder(v)) :
              i # j => /\ LockOrder(v)[i] # LockOrder(v)[j]
                       /\ UnlockOrder(v)[i] # UnlockOrder(v)[j]
         /\ \A i \in 1..3 : \E j \in 1 .. Len(LockOrder(v)) : LockOrder(v)[j] = Stripe(v)[i]
         /\ \A i \in 1 .. Len(LockOrder(v)) :
              /\ \E j \in 1 .. Len(LockOrder(v)) : UnlockOrder(v)[j] = LockOrder(v)[i]
              /\ \E j \in 1 .. Len(LockOrder(v)) : LockOrder(v)[j] = UnlockOrder(v)[i]
<1> DEFINE s == Stripe(v)
           o == LockOrder(v)
           u == UnlockOrder(v)
<1>1. s[1] \in Stripes /\ s[2] \in Stripes /\ s[3] \in Stripes
  BY ValueBits
<1>2. Stripes \subseteq Int
  BY DEF Stripes
<1>3. CASE s[1] = s[2] /\ s[2] = s[3]
  BY <1>1, <1>3 DEF LockOrder, UnlockOrder
<1>4. CASE s[1] = s[2] /\ s[2] # s[3]
  BY <1>1, <1>4 DEF LockOrder, UnlockOrder
<1>5. CASE s[1] = s[3] /\ s[2] # s[3]
  BY <1>1, <1>5 DEF LockOrder, UnlockOrder
<1>6. CASE s[2] = s[3] /\ s[1] # s[3]
  BY <1>1, <1>6 DEF LockOrder, UnlockOrder
<1>7. CASE s[1] # s[2] /\ s[1] # s[3] /\ s[2] # s[3]
  <2>1. o = Ascending(s)
    BY <1>7 DEF LockOrder
  <2>2. o \in [1..3 -> {s[1], s[2], s[3]}] /\ o[1] < o[2] /\ o[2] < o[3]
    BY <1>1, <1>2, <1>7, <2>1, AscendingOrder
  <2>3. Len(o) = 3
    BY <2>2
  <2>4. u = <<s[3], s[2], s[1]>>
    BY <2>3 DEF UnlockOrder
  <2>5. o[1] \in {s[1], s[2], s[3]} /\ o[2] \in {s[1], s[2], s[3]} /\ o[3] \in {s[1], s[2], s[3]}
    BY <2>2
  <2>6. \A i \in 1..3 : \E j \in 1..3 : o[j] = s[i]
    <3>1. o[1] \in Int /\ o[2] \in Int /\ o[3] \in Int
      BY <1>1, <1>2, <2>5
    <3>2. o[1] # o[2] /\ o[1] # o[3] /\ o[2] # o[3]
      BY <2>2, <3>1
    <3>3. \A i \in 1..3 : s[i] = o[1] \/ s[i] = o[2] \/ s[i] = o[3]
      BY <2>5, <3>2
    <3> QED BY <3>3
  <2>7. o \in [1..3 -> Stripes] /\ u \in [1..3 -> Stripes] /\ Len(u) = 3
    BY <1>1, <2>2, <2>4
  <2>8. \A i, j \in 1..3 : i # j => o[i] # o[j] /\ u[i] # u[j]
    <3>0. o[1] \in Int /\ o[2] \in Int /\ o[3] \in Int
      BY <1>1, <1>2, <2>5
    <3>1. o[1] # o[2] /\ o[1] # o[3] /\ o[2] # o[3]
      BY <2>2, <3>0
    <3>2. u[1] # u[2] /\ u[1] # u[3] /\ u[2] # u[3]
      BY <1>7, <2>4
    <3> QED BY <3>1, <3>2
  <2>9. \A i \in 1..3 : \E j \in 1..3 : u[j] = o[i]
    BY <2>4, <2>5
  <2>10. \A i \in 1..3 : \E j \in 1..3 : o[j] = u[i]
    BY <2>4, <2>6
  <2> QED BY <2>3, <2>6, <2>7, <2>8, <2>9, <2>10
<1> QED BY <1>3, <1>4, <1>5, <1>6, <1>7

-----------------------------------------------------------------------------
(* The bodies *)

LEMMA ThreeParts ==
  ASSUME NEW S, NEW a \in Seq(S), NEW b \in Seq(S), NEW c \in Seq(S)
  PROVE  /\ a \o b \o c \in Seq(S) /\ Len(a \o b \o c) = Len(a) + Len(b) + Len(c)
         /\ \A k \in 1 .. Len(a) : (a \o b \o c)[k] = a[k]
         /\ \A k \in 1 .. Len(b) : (a \o b \o c)[Len(a) + k] = b[k]
         /\ \A k \in 1 .. Len(c) : (a \o b \o c)[Len(a) + Len(b) + k] = c[k]
<1>1. /\ a \o b \in Seq(S) /\ Len(a \o b) = Len(a) + Len(b)
      /\ \A k \in 1 .. Len(a) + Len(b) :
           (a \o b)[k] = IF k <= Len(a) THEN a[k] ELSE b[k - Len(a)]
  BY ConcatProperties
<1>2. /\ (a \o b) \o c \in Seq(S) /\ Len((a \o b) \o c) = Len(a \o b) + Len(c)
      /\ \A k \in 1 .. Len(a \o b) + Len(c) :
           ((a \o b) \o c)[k] = IF k <= Len(a \o b) THEN (a \o b)[k] ELSE c[k - Len(a \o b)]
  BY <1>1, ConcatProperties
<1>3. Len(a) \in Nat /\ Len(b) \in Nat /\ Len(c) \in Nat
  BY LenProperties
<1>4. \A k \in 1 .. Len(b) : (a \o b)[Len(a) + k] = b[k]
  BY <1>1, <1>3
<1> QED BY <1>1, <1>2, <1>3, <1>4

LEMMA AddShape ==
  ASSUME NEW v \in Values, NEW n, n = Len(LockOrder(v))
  PROVE  /\ AddBody(v) \in Seq(Instructions) /\ Len(AddBody(v)) = 2 * n + 6 /\ n \in 1..3
         /\ \A k \in 1 .. n : AddBody(v)[k] = Lock(LockOrder(v)[k])
         /\ \A i \in 1..3 : /\ AddBody(v)[n + 2 * i - 1] = Load(Hash[v][i])
                           /\ AddBody(v)[n + 2 * i] = Store(Hash[v][i])
         /\ \A k \in 1 .. n : AddBody(v)[n + 6 + k] = Unlock(UnlockOrder(v)[k])
<1> DEFINE l == Locks(LockOrder(v))
           m == SetBits(Hash[v])
           u == Unlocks(UnlockOrder(v))
<1>1. /\ n \in 1..3 /\ Len(UnlockOrder(v)) = n
      /\ LockOrder(v) \in [1..n -> Stripes] /\ UnlockOrder(v) \in [1..n -> Stripes]
  BY Orders
<1>2. l \in Seq(Instructions) /\ Len(l) = n /\ \A k \in 1..n : l[k] = Lock(LockOrder(v)[k])
  BY <1>1 DEF Locks, Lock, Instructions
<1>3. u \in Seq(Instructions) /\ Len(u) = n /\ \A k \in 1..n : u[k] = Unlock(UnlockOrder(v)[k])
  BY <1>1 DEF Unlocks, Unlock, Instructions
<1>4. Hash[v][1] \in Bits /\ Hash[v][2] \in Bits /\ Hash[v][3] \in Bits
  BY ValueBits
<1>5. /\ m \in Seq(Instructions) /\ Len(m) = 6
      /\ \A i \in 1..3 : m[2 * i - 1] = Load(Hash[v][i]) /\ m[2 * i] = Store(Hash[v][i])
  BY <1>4 DEF SetBits, Load, Store, Instructions
<1>6. AddBody(v) = l \o m \o u
  BY DEF AddBody
<1> HIDE DEF l, m, u
<1>7. /\ AddBody(v) \in Seq(Instructions) /\ Len(AddBody(v)) = n + 6 + n
      /\ \A k \in 1 .. n : AddBody(v)[k] = l[k]
      /\ \A k \in 1 .. 6 : AddBody(v)[n + k] = m[k]
      /\ \A k \in 1 .. n : AddBody(v)[n + 6 + k] = u[k]
  <2>1. l \in Seq(Instructions) /\ m \in Seq(Instructions) /\ u \in Seq(Instructions)
    BY <1>2, <1>3, <1>5
  <2>2. Len(l) = n /\ Len(m) = 6 /\ Len(u) = n
    BY <1>2, <1>3, <1>5
  <2>3. AddBody(v) \in Seq(Instructions) /\ Len(AddBody(v)) = Len(l) + Len(m) + Len(u)
    BY <1>6, <2>1, ThreeParts
  <2>4. \A k \in 1 .. Len(l) : AddBody(v)[k] = l[k]
    BY <1>6, <2>1, ThreeParts
  <2>5. \A k \in 1 .. Len(m) : AddBody(v)[Len(l) + k] = m[k]
    BY <1>6, <2>1, ThreeParts
  <2>6. \A k \in 1 .. Len(u) : AddBody(v)[Len(l) + Len(m) + k] = u[k]
    BY <1>6, <2>1, ThreeParts
  <2> QED BY <2>2, <2>3, <2>4, <2>5, <2>6
<1>8. \A i \in 1..3 : /\ AddBody(v)[n + 2 * i - 1] = Load(Hash[v][i])
                       /\ AddBody(v)[n + 2 * i] = Store(Hash[v][i])
  <2> SUFFICES ASSUME NEW i \in 1..3
               PROVE  /\ AddBody(v)[n + 2 * i - 1] = Load(Hash[v][i])
                      /\ AddBody(v)[n + 2 * i] = Store(Hash[v][i])
    OBVIOUS
  <2>1. /\ 2 * i - 1 \in 1..6 /\ n + 2 * i - 1 = n + (2 * i - 1)
        /\ 2 * i \in 1..6
    BY <1>1
  <2> QED BY <1>5, <1>7, <2>1
<1>9. Len(AddBody(v)) = 2 * n + 6
  BY <1>1, <1>7
<1>10. \A k \in 1 .. n : /\ AddBody(v)[k] = Lock(LockOrder(v)[k])
                         /\ AddBody(v)[n + 6 + k] = Unlock(UnlockOrder(v)[k])
  BY <1>2, <1>3, <1>7
<1> QED BY <1>1, <1>7, <1>8, <1>9, <1>10

LEMMA StatsShape ==
  ASSUME NEW n, n = StripeCount
  PROVE  /\ n \in Nat \ {0} /\ StatsBody \in Seq(Instructions) /\ Len(StatsBody) = 2 * n + 1
         /\ \A k \in 1 .. n : StatsBody[k] = Lock(k - 1)
         /\ StatsBody[n + 1] = <<"count">>
         /\ \A k \in 1 .. n : StatsBody[n + 1 + k] = Unlock(k - 1)
<1> DEFINE l == Locks(StatsLocks)
           m == << <<"count">> >>
           u == Unlocks(StatsLocks)
<1>1. n \in Nat \ {0}
  BY Parameters DEF ConstantsOK
<1>2. StatsLocks \in Seq(Stripes) /\ Len(StatsLocks) = n /\ \A k \in 1..n : StatsLocks[k] = k - 1
  BY <1>1 DEF StatsLocks, Stripes
<1>3. l \in Seq(Instructions) /\ Len(l) = n /\ \A k \in 1..n : l[k] = Lock(k - 1)
  BY <1>1, <1>2 DEF Locks, Lock, Instructions
<1>4. u \in Seq(Instructions) /\ Len(u) = n /\ \A k \in 1..n : u[k] = Unlock(k - 1)
  BY <1>1, <1>2 DEF Unlocks, Unlock, Instructions
<1>5. m \in Seq(Instructions) /\ Len(m) = 1 /\ m[1] = <<"count">>
  BY DEF Instructions
<1>6. StatsBody = l \o m \o u
  BY DEF StatsBody
<1> HIDE DEF l, m, u
<1>7. /\ StatsBody \in Seq(Instructions) /\ Len(StatsBody) = n + 1 + n
      /\ \A k \in 1 .. n : StatsBody[k] = l[k]
      /\ \A k \in 1 .. 1 : StatsBody[n + k] = m[k]
      /\ \A k \in 1 .. n : StatsBody[n + 1 + k] = u[k]
  <2>1. l \in Seq(Instructions) /\ m \in Seq(Instructions) /\ u \in Seq(Instructions)
    BY <1>3, <1>4, <1>5
  <2>2. Len(l) = n /\ Len(m) = 1 /\ Len(u) = n
    BY <1>3, <1>4, <1>5
  <2>3. StatsBody \in Seq(Instructions) /\ Len(StatsBody) = Len(l) + Len(m) + Len(u)
    BY <1>6, <2>1, ThreeParts
  <2>4. \A k \in 1 .. Len(l) : StatsBody[k] = l[k]
    BY <1>6, <2>1, ThreeParts
  <2>5. \A k \in 1 .. Len(m) : StatsBody[Len(l) + k] = m[k]
    BY <1>6, <2>1, ThreeParts
  <2>6. \A k \in 1 .. Len(u) : StatsBody[Len(l) + Len(m) + k] = u[k]
    BY <1>6, <2>1, ThreeParts
  <2> QED BY <2>2, <2>3, <2>4, <2>5, <2>6
<1>8. StatsBody[n + 1] = <<"count">>
  BY <1>5, <1>7
<1>9. Len(StatsBody) = 2 * n + 1
  BY <1>1, <1>7
<1> QED BY <1>1, <1>3, <1>4, <1>7, <1>8, <1>9

-----------------------------------------------------------------------------
(* The stripes held along a body *)

LEMMA HeldStep ==
  ASSUME NEW body, NEW k \in Nat \ {0}
  PROVE  /\ Held(body, 1) = {}
         /\ \A s \in Stripes : body[k] = Lock(s) => Held(body, k + 1) = Held(body, k) \cup {s}
         /\ \A s \in Stripes : body[k] = Unlock(s) => Held(body, k + 1) = Held(body, k) \ {s}
         /\ (\A s \in Stripes : body[k] # Lock(s) /\ body[k] # Unlock(s)) =>
              Held(body, k + 1) = Held(body, k)
<1>1. \A s \in Stripes :
        s \in Held(body, k + 1) <=> \/ body[k] = Lock(s)
                                    \/ s \in Held(body, k) /\ body[k] # Unlock(s)
  <2> SUFFICES ASSUME NEW s \in Stripes
               PROVE  s \in Held(body, k + 1) <=> \/ body[k] = Lock(s)
                                                  \/ s \in Held(body, k) /\ body[k] # Unlock(s)
    OBVIOUS
  <2>1. Lock(s) # Unlock(s)
    BY DEF Lock, Unlock
  <2>2. s \in Held(body, k + 1) <=>
          \E j \in 1 .. k : body[j] = Lock(s) /\ \A i \in j .. k : body[i] # Unlock(s)
    BY DEF Held
  <2>3. s \in Held(body, k) <=>
          \E j \in 1 .. (k - 1) : body[j] = Lock(s) /\ \A i \in j .. (k - 1) : body[i] # Unlock(s)
    BY DEF Held
  <2>4. ASSUME body[k] = Lock(s) PROVE s \in Held(body, k + 1)
    BY <2>1, <2>2, <2>4
  <2>5. ASSUME s \in Held(body, k), body[k] # Unlock(s) PROVE s \in Held(body, k + 1)
    BY <2>2, <2>3, <2>5
  <2>6. ASSUME s \in Held(body, k + 1), body[k] # Lock(s)
        PROVE  s \in Held(body, k) /\ body[k] # Unlock(s)
    BY <2>2, <2>3, <2>6
  <2> QED BY <2>4, <2>5, <2>6
<1>3. Held(body, k) \subseteq Stripes /\ Held(body, k + 1) \subseteq Stripes
  BY DEF Held
<1>4. Held(body, 1) = {}
  BY DEF Held
<1>5. ASSUME NEW s \in Stripes, body[k] = Lock(s) PROVE Held(body, k + 1) = Held(body, k) \cup {s}
  <2>1. \A t \in Stripes : (body[k] = Lock(t) <=> t = s) /\ body[k] # Unlock(t)
    BY <1>5 DEF Lock, Unlock
  <2>2. \A t \in Stripes : t \in Held(body, k + 1) <=> t = s \/ t \in Held(body, k)
    BY <1>1, <2>1
  <2> QED BY <1>3, <2>2
<1>6. ASSUME NEW s \in Stripes, body[k] = Unlock(s) PROVE Held(body, k + 1) = Held(body, k) \ {s}
  <2>1. \A t \in Stripes : (body[k] = Unlock(t) <=> t = s) /\ body[k] # Lock(t)
    BY <1>6 DEF Lock, Unlock
  <2>2. \A t \in Stripes : t \in Held(body, k + 1) <=> t # s /\ t \in Held(body, k)
    BY <1>1, <2>1
  <2> QED BY <1>3, <2>2
<1>7. ASSUME \A s \in Stripes : body[k] # Lock(s) /\ body[k] # Unlock(s)
      PROVE  Held(body, k + 1) = Held(body, k)
  BY <1>1, <1>3, <1>7
<1> QED BY <1>4, <1>5, <1>6, <1>7

\* add() holds all stripes of its value from its first load to its last store,
\* and some stripe between its first lock and its last unlock.
LEMMA AddHeld ==
  ASSUME NEW v \in Values, NEW n, n = Len(LockOrder(v))
  PROVE  /\ \A k \in (n + 1) .. (n + 7), i \in 1..3 : Stripe(v)[i] \in Held(AddBody(v), k)
         /\ \A i \in 1 .. n : UnlockOrder(v)[i] \in Held(AddBody(v), n + 6 + i)
         /\ \A k \in 2 .. (2 * n + 6) : \E s \in Stripes : s \in Held(AddBody(v), k)
         /\ Held(AddBody(v), 2 * n + 7) = {}
<1> DEFINE b == AddBody(v)
           o == LockOrder(v)
           u == UnlockOrder(v)
<1>a. n \in 1..3 /\ o \in [1..n -> Stripes] /\ u \in [1..n -> Stripes]
  BY Orders
<1>b. \A k \in 1 .. n : b[k] = Lock(o[k]) /\ b[n + 6 + k] = Unlock(u[k])
  BY AddShape
<1>c. \A i \in 1..3 : b[n + 2 * i - 1] = Load(Hash[v][i]) /\ b[n + 2 * i] = Store(Hash[v][i])
  BY AddShape
<1>1. /\ n \in 1..3 /\ o \in [1..n -> Stripes] /\ u \in [1..n -> Stripes]
      /\ \A k \in 1 .. n : b[k] = Lock(o[k]) /\ b[n + 6 + k] = Unlock(u[k])
      /\ \A i \in 1..3 : b[n + 2 * i - 1] = Load(Hash[v][i]) /\ b[n + 2 * i] = Store(Hash[v][i])
  BY <1>a, <1>b, <1>c
<1>2. \A i, j \in 1 .. n : i # j => u[i] # u[j]
  BY Orders
<1>3. \A i \in 1..n : (\E j \in 1..n : u[j] = o[i]) /\ (\E j \in 1..n : o[j] = u[i])
  BY Orders
<1>4. \A i \in 1..3 : \E j \in 1..n : o[j] = Stripe(v)[i]
  BY Orders
<1> HIDE DEF b, o, u
<1>5. \A k \in 1 .. (n + 6) : \A s : b[k] # Unlock(s)
  <2> SUFFICES ASSUME NEW k \in 1 .. (n + 6), NEW s PROVE b[k] # Unlock(s)
    OBVIOUS
  <2>1. CASE k \in 1..n
    BY <1>1, <2>1 DEF Lock, Unlock
  <2>2. CASE \E i \in 1..3 : k = n + 2 * i - 1
    BY <1>1, <2>2 DEF Load, Unlock
  <2>3. CASE \E i \in 1..3 : k = n + 2 * i
    BY <1>1, <2>3 DEF Store, Unlock
  <2>4. k \in 1..n \/ k \in {n + 1, n + 3, n + 5} \/ k \in {n + 2, n + 4, n + 6}
    BY <1>1
  <2>5. /\ n + 1 = n + 2 * 1 - 1 /\ n + 3 = n + 2 * 2 - 1 /\ n + 5 = n + 2 * 3 - 1
        /\ n + 2 = n + 2 * 1 /\ n + 4 = n + 2 * 2 /\ n + 6 = n + 2 * 3
    BY <1>1
  <2> QED BY <2>1, <2>2, <2>3, <2>4, <2>5
\* A stripe is held from its lock to its unlock.
<1>6. ASSUME NEW i \in 1..n, NEW j \in 1..n, o[j] = u[i],
             NEW k \in (j + 1) .. (n + 6 + i)
      PROVE  u[i] \in Held(b, k)
  <2>1. u[i] \in Stripes /\ j \in 1 .. (k - 1) /\ b[j] = Lock(u[i])
    BY <1>1, <1>6
  <2>2. ASSUME NEW m \in j .. (k - 1) PROVE b[m] # Unlock(u[i])
    <3>1. CASE m \in 1 .. (n + 6)
      BY <1>5, <3>1
    <3>2. CASE m > n + 6
      <4>1. m - (n + 6) \in 1..n /\ m - (n + 6) # i /\ m = n + 6 + (m - (n + 6))
        BY <1>1, <2>1, <3>2
      <4>2. b[m] = Unlock(u[m - (n + 6)])
        BY <1>1, <4>1
      <4>3. u[m - (n + 6)] # u[i]
        BY <1>2, <4>1
      <4> QED BY <4>2, <4>3 DEF Unlock
    <3> QED BY <1>1, <3>1, <3>2
  <2> QED BY <2>1, <2>2 DEF Held
<1>7. ASSUME NEW k \in (n + 1) .. (n + 7), NEW i \in 1..3 PROVE Stripe(v)[i] \in Held(b, k)
  <2>1. PICK j \in 1..n : o[j] = Stripe(v)[i]
    BY <1>4
  <2>2. PICK m \in 1..n : u[m] = o[j]
    BY <1>3
  <2>3. k \in (j + 1) .. (n + 6 + m)
    BY <1>1
  <2> QED BY <1>6, <2>1, <2>2, <2>3
<1>8. ASSUME NEW i \in 1 .. n PROVE u[i] \in Held(b, n + 6 + i)
  <2>1. PICK j \in 1..n : o[j] = u[i]
    BY <1>3
  <2>2. n + 6 + i \in (j + 1) .. (n + 6 + i)
    BY <1>1
  <2> QED BY <1>6, <2>1, <2>2
<1>9. ASSUME NEW k \in 2 .. (2 * n + 6) PROVE \E s \in Stripes : s \in Held(b, k)
  <2>1. CASE k <= n + 6
    <3>1. PICK m \in 1..n : u[m] = o[1]
      BY <1>1, <1>3
    <3>2. 1 \in 1..n /\ k \in (1 + 1) .. (n + 6 + m)
      BY <1>1, <2>1
    <3>3. u[m] \in Held(b, k)
      BY <1>6, <3>1, <3>2
    <3> QED BY <1>1, <3>3
  <2>2. CASE k > n + 6
    <3>1. n \in 1..n
      BY <1>1
    <3>2. PICK j \in 1..n : o[j] = u[n]
      BY <1>3, <3>1
    <3>3. k \in (j + 1) .. (n + 6 + n)
      BY <1>1, <2>2
    <3>4. u[n] \in Held(b, k)
      BY <1>6, <3>1, <3>2, <3>3
    <3> QED BY <1>1, <3>1, <3>4
  <2> QED BY <1>1, <2>1, <2>2
<1>10. Held(b, 2 * n + 7) = {}
  <2> SUFFICES ASSUME NEW s \in Stripes, NEW j \in 1 .. (2 * n + 6), b[j] = Lock(s),
                      \A i \in j .. (2 * n + 6) : b[i] # Unlock(s)
               PROVE  FALSE
    BY <1>1 DEF Held
  <2>1. j \in 1..n
    <3>1. CASE j \in (n + 1) .. (n + 6)
      <4>1. \E i \in 1..3 : j = n + 2 * i - 1 \/ j = n + 2 * i
        BY <1>1, <3>1
      <4> QED BY <1>1, <4>1 DEF Lock, Load, Store
    <3>2. CASE j \in (n + 7) .. (2 * n + 6)
      <4>1. j - (n + 6) \in 1..n /\ j = n + 6 + (j - (n + 6))
        BY <1>1, <3>2
      <4>2. b[j] = Unlock(u[j - (n + 6)])
        BY <1>1, <4>1
      <4> QED BY <4>2 DEF Lock, Unlock
    <3> QED BY <1>1, <3>1, <3>2
  <2>2. o[j] = s
    BY <1>1, <2>1 DEF Lock
  <2>3. PICK m \in 1..n : u[m] = o[j]
    BY <1>3, <2>1
  <2>4. b[n + 6 + m] = Unlock(s) /\ n + 6 + m \in j .. (2 * n + 6)
    BY <1>1, <2>1, <2>2, <2>3
  <2> QED BY <2>4
<1> QED BY <1>7, <1>8, <1>9, <1>10 DEF b, u

\* print_stats() counts with all stripes held.
LEMMA StatsHeld ==
  ASSUME NEW n, n = StripeCount
  PROVE  /\ \A s \in Stripes : s \in Held(StatsBody, n + 1)
         /\ \A i \in 1 .. n : i - 1 \in Held(StatsBody, n + 1 + i)
         /\ Held(StatsBody, 2 * n + 2) = {}
<1> DEFINE b == StatsBody
<1>1. /\ n \in Nat \ {0}
      /\ \A k \in 1 .. n : b[k] = Lock(k - 1) /\ b[n + 1 + k] = Unlock(k - 1)
      /\ b[n + 1] = <<"count">>
  BY StatsShape
<1>2. \A s : s \in Stripes <=> s \in 0 .. (n - 1)
  BY DEF Stripes
<1> HIDE DEF b
<1>3. ASSUME NEW s \in Stripes, NEW k \in (n + 1) .. (n + 2 + s) PROVE s \in Held(b, k)
  <2> DEFINE j == s + 1
  <2>1. j \in 1 .. (k - 1) /\ j \in 1..n /\ j - 1 = s
    BY <1>1, <1>2
  <2> HIDE DEF j
  <2>2. b[j] = Lock(s)
    BY <1>1, <2>1
  <2>3. ASSUME NEW m \in j .. (k - 1) PROVE b[m] # Unlock(s)
    <3>1. CASE m \in 1 .. n
      BY <1>1, <3>1 DEF Lock, Unlock
    <3>2. CASE m = n + 1
      BY <1>1, <3>2 DEF Unlock
    <3>3. CASE m > n + 1
      <4>1. m - (n + 1) \in 1..n /\ m - (n + 1) - 1 # s /\ m = n + 1 + (m - (n + 1))
        BY <1>1, <1>2, <2>1, <3>3
      <4>2. b[m] = Unlock(m - (n + 1) - 1)
        BY <1>1, <4>1
      <4> QED BY <4>1, <4>2 DEF Unlock
    <3> QED BY <1>1, <2>1, <3>1, <3>2, <3>3
  <2> QED BY <2>1, <2>2, <2>3 DEF Held
<1>4. \A s \in Stripes : s \in Held(b, n + 1)
  <2> SUFFICES ASSUME NEW s \in Stripes PROVE s \in Held(b, n + 1)
    OBVIOUS
  <2>1. n + 1 \in (n + 1) .. (n + 2 + s)
    BY <1>1, <1>2
  <2> QED BY <1>3, <2>1
<1>5. \A i \in 1 .. n : i - 1 \in Held(b, n + 1 + i)
  <2> SUFFICES ASSUME NEW i \in 1 .. n PROVE i - 1 \in Held(b, n + 1 + i)
    OBVIOUS
  <2>1. i - 1 \in Stripes /\ n + 1 + i \in (n + 1) .. (n + 2 + (i - 1))
    BY <1>1, <1>2
  <2> QED BY <1>3, <2>1
<1>6. Held(b, 2 * n + 2) = {}
  <2> SUFFICES ASSUME NEW s \in Stripes, NEW j \in 1 .. (2 * n + 1), b[j] = Lock(s),
                      \A i \in j .. (2 * n + 1) : b[i] # Unlock(s)
               PROVE  FALSE
    BY <1>1 DEF Held
  <2>1. j \in 1..n
    <3>1. CASE j = n + 1
      BY <1>1, <3>1 DEF Lock
    <3>2. CASE j > n + 1
      <4>1. j - (n + 1) \in 1..n /\ j = n + 1 + (j - (n + 1))
        BY <1>1, <3>2
      <4>2. b[j] = Unlock(j - (n + 1) - 1)
        BY <1>1, <4>1
      <4> QED BY <4>2 DEF Lock, Unlock
    <3> QED BY <1>1, <3>1, <3>2
  <2> DEFINE k == s + 1
  <2>2. k \in 1..n /\ n + 1 + k \in j .. (2 * n + 1) /\ k - 1 = s
    BY <1>1, <1>2, <2>1
  <2> HIDE DEF k
  <2>3. b[n + 1 + k] = Unlock(s)
    BY <1>1, <2>2
  <2> QED BY <2>2, <2>3
<1> QED BY <1>4, <1>5, <1>6 DEF b

\* contains() holds a stripe from the lock before its test to the unlock after it.
LEMMA ContainsShape ==
  ASSUME NEW v \in Values
  PROVE  /\ ContainsBody(v) \in Seq(Instructions)
         /\ \A k \in 1 .. Len(ContainsBody(v)) :
              ContainsBody(v)[k][1] \in {"lock", "test", "unlock"}
         /\ \A k \in 1 .. Len(ContainsBody(v)) :
              ContainsBody(v)[k][1] = "test" => ContainsBody(v)[k][2] \in BitsOf(v)
         /\ \A k \in 1 .. Len(ContainsBody(v)), s \in Stripes :
              ContainsBody(v)[k] = Unlock(s) => s \in Held(ContainsBody(v), k)
         /\ Held(ContainsBody(v), Len(ContainsBody(v)) + 1) = {}
<1> DEFINE h == Hash[v]
           s == Stripe(v)
           b == ContainsBody(v)
<1>1. s[1] \in Stripes /\ s[2] \in Stripes /\ s[3] \in Stripes
  BY ValueBits
<1>2. /\ h[1] \in Bits /\ h[2] \in Bits /\ h[3] \in Bits
      /\ h[1] \in BitsOf(v) /\ h[2] \in BitsOf(v) /\ h[3] \in BitsOf(v)
  BY ValueBits
<1> HIDE DEF h, s
<1>3. CASE s[1] = s[2] /\ s[2] = s[3]
  <2>1. b = <<Lock(s[1]), Test(h[1]), Test(h[2]), Test(h[3]), Unlock(s[1])>>
    BY <1>3 DEF ContainsBody, s, h
  <2> HIDE DEF b
  <2>2. /\ Len(b) = 5 /\ b[1] = Lock(s[1]) /\ b[2] = Test(h[1]) /\ b[3] = Test(h[2])
        /\ b[4] = Test(h[3]) /\ b[5] = Unlock(s[1])
    BY <2>1
  <2>3. b \in Seq(Instructions)
    BY <1>1, <1>2, <2>1 DEF Instructions, Lock, Unlock, Test
  <2>4. \A k \in 1..5 : /\ b[k][1] \in {"lock", "test", "unlock"}
                        /\ b[k][1] = "test" => b[k][2] \in BitsOf(v)
    BY <1>2, <2>2 DEF Lock, Unlock, Test
  <2>5. \A k \in 1..5, t \in Stripes : b[k] = Unlock(t) => k = 5 /\ t = s[1]
    BY <2>2 DEF Lock, Unlock, Test
  <2>6. \A k \in 1..5, t \in Stripes : b[k] = Lock(t) => k = 1 /\ t = s[1]
    BY <2>2 DEF Lock, Unlock, Test
  <2>7. s[1] \in Held(b, 5)
    BY <1>1, <2>2, <2>5 DEF Held
  <2>8. Held(b, 5 + 1) = {}
    BY <2>2, <2>6 DEF Held
  <2> QED BY <2>2, <2>3, <2>4, <2>5, <2>7, <2>8 DEF b
<1>4. CASE ~(s[1] = s[2] /\ s[2] = s[3])
  <2>1. b = <<Lock(s[1]), Test(h[1]), Unlock(s[1]), Lock(s[2]), Test(h[2]), Unlock(s[2]),
              Lock(s[3]), Test(h[3]), Unlock(s[3])>>
    BY <1>4 DEF ContainsBody, s, h
  <2> HIDE DEF b
  <2>2. /\ Len(b) = 9 /\ b[1] = Lock(s[1]) /\ b[2] = Test(h[1]) /\ b[3] = Unlock(s[1])
        /\ b[4] = Lock(s[2]) /\ b[5] = Test(h[2]) /\ b[6] = Unlock(s[2])
        /\ b[7] = Lock(s[3]) /\ b[8] = Test(h[3]) /\ b[9] = Unlock(s[3])
    BY <2>1
  <2>3. b \in Seq(Instructions)
    BY <1>1, <1>2, <2>1 DEF Instructions, Lock, Unlock, Test
  <2>4. \A k \in 1..9 : /\ b[k][1] \in {"lock", "test", "unlock"}
                        /\ b[k][1] = "test" => b[k][2] \in BitsOf(v)
    BY <1>2, <2>2 DEF Lock, Unlock, Test
  <2>5. \A k \in 1..9, t \in Stripes :
          b[k] = Unlock(t) => k \in {3, 6, 9} /\ b[k - 2] = Lock(t) /\ b[k - 1][1] = "test"
    BY <2>2 DEF Lock, Unlock, Test
  <2>6. \A k \in 1..9, t \in Stripes :
          b[k] = Lock(t) => k \in {1, 4, 7} /\ b[k + 2] = Unlock(t)
    BY <2>2 DEF Lock, Unlock, Test
  <2>7. ASSUME NEW k \in 1..9, NEW t \in Stripes, b[k] = Unlock(t) PROVE t \in Held(b, k)
    <3>1. /\ k - 2 \in 1 .. (k - 1) /\ b[k - 2] = Lock(t) /\ b[k - 1] # Unlock(t)
          /\ (k - 2) .. (k - 1) = {k - 2, k - 1}
      BY <2>5, <2>7 DEF Unlock
    <3>2. b[k - 2] # Unlock(t)
      BY <3>1 DEF Lock, Unlock
    <3> QED BY <3>1, <3>2 DEF Held
  <2>8. Held(b, 9 + 1) = {}
    <3> SUFFICES ASSUME NEW t \in Stripes, NEW j \in 1..9, b[j] = Lock(t),
                        \A i \in j .. 9 : b[i] # Unlock(t)
                 PROVE  FALSE
      BY DEF Held
    <3>1. b[j + 2] = Unlock(t) /\ j + 2 \in j .. 9
      BY <2>6
    <3> QED BY <3>1
  <2> QED BY <2>2, <2>3, <2>4, <2>7, <2>8 DEF b
<1> QED BY <1>3, <1>4

-----------------------------------------------------------------------------
(* Bodies and their instructions *)

LEMMA BodyOf ==
  /\ \A v \in Values : /\ Body(<<"add", v>>) = AddBody(v)
                       /\ Body(<<"contains", v>>) = ContainsBody(v)
  /\ Body(<<"stats">>) = StatsBody
  /\ Body(<<"none">>) = <<>>
  BY DEF Body

LEMMA CallKinds ==
  ASSUME NEW c \in Calls
  PROVE  \/ c = <<"none">>
         \/ c = <<"stats">>
         \/ \E v \in Values : c = <<"add", v>>
         \/ \E v \in Values : c = <<"contains", v>>
  BY DEF Calls

\* Which instructions add() has, and where.
LEMMA AddOps ==
  ASSUME NEW v \in Values, NEW k \in 1 .. Len(AddBody(v))
  PROVE  LET n == Len(LockOrder(v))
         IN \/ /\ k \in 1..n /\ AddBody(v)[k] = Lock(LockOrder(v)[k])
               /\ LockOrder(v)[k] \in Stripes
            \/ \E i \in 1..3 : k = n + 2 * i - 1 /\ AddBody(v)[k] = Load(Hash[v][i])
            \/ \E i \in 1..3 : k = n + 2 * i /\ AddBody(v)[k] = Store(Hash[v][i])
            \/ \E i \in 1..n : /\ k = n + 6 + i /\ AddBody(v)[k] = Unlock(UnlockOrder(v)[i])
                               /\ UnlockOrder(v)[i] \in Stripes
<1> DEFINE n == Len(LockOrder(v))
<1>1. /\ Len(AddBody(v)) = 2 * n + 6 /\ n \in 1..3
      /\ \A j \in 1 .. n : AddBody(v)[j] = Lock(LockOrder(v)[j])
      /\ \A i \in 1..3 : /\ AddBody(v)[n + 2 * i - 1] = Load(Hash[v][i])
                         /\ AddBody(v)[n + 2 * i] = Store(Hash[v][i])
      /\ \A j \in 1 .. n : AddBody(v)[n + 6 + j] = Unlock(UnlockOrder(v)[j])
  BY AddShape
<1>2. /\ LockOrder(v) \in [1 .. n -> Stripes]
      /\ UnlockOrder(v) \in [1 .. n -> Stripes]
  BY Orders
<1> HIDE DEF n
<1>3. CASE k \in 1..n
  BY <1>1, <1>2, <1>3 DEF n
<1>4. CASE k \in (n + 1) .. (n + 6)
  <2>1. \E i \in 1..3 : k = n + 2 * i - 1 \/ k = n + 2 * i
    BY <1>1, <1>4
  <2> QED BY <1>1, <2>1 DEF n
<1>5. CASE k \in (n + 7) .. (2 * n + 6)
  <2>1. k - (n + 6) \in 1..n /\ k = n + 6 + (k - (n + 6))
    BY <1>1, <1>5
  <2> QED BY <1>1, <1>2, <2>1 DEF n
<1> QED BY <1>1, <1>3, <1>4, <1>5

LEMMA StatsOps ==
  ASSUME NEW k \in 1 .. Len(StatsBody)
  PROVE  LET n == StripeCount
         IN \/ k \in 1..n /\ StatsBody[k] = Lock(k - 1) /\ k - 1 \in Stripes
            \/ k = n + 1 /\ StatsBody[k] = <<"count">>
            \/ \E i \in 1..n : /\ k = n + 1 + i /\ StatsBody[k] = Unlock(i - 1)
                               /\ i - 1 \in Stripes
<1> DEFINE n == StripeCount
<1>1. /\ n \in Nat \ {0} /\ Len(StatsBody) = 2 * n + 1
      /\ \A j \in 1 .. n : StatsBody[j] = Lock(j - 1)
      /\ StatsBody[n + 1] = <<"count">>
      /\ \A j \in 1 .. n : StatsBody[n + 1 + j] = Unlock(j - 1)
  BY StatsShape
<1>2. \A s : s \in Stripes <=> s \in 0 .. (n - 1)
  BY DEF Stripes
<1> HIDE DEF n
<1>3. CASE k \in 1..n
  BY <1>1, <1>2, <1>3 DEF n
<1>4. CASE k = n + 1
  BY <1>1, <1>4 DEF n
<1>5. CASE k \in (n + 2) .. (2 * n + 1)
  <2>1. k - (n + 1) \in 1..n /\ k = n + 1 + (k - (n + 1)) /\ k - (n + 1) - 1 \in Stripes
    BY <1>1, <1>2, <1>5
  <2> QED BY <1>1, <2>1 DEF n
<1> QED BY <1>1, <1>3, <1>4, <1>5

\* A stripe is unlocked only while it is held, and a body gives all back.
LEMMA Bodies ==
  ASSUME NEW c \in Calls
  PROVE  /\ Body(c) \in Seq(Instructions)
         /\ \A k \in 1 .. Len(Body(c)), s \in Stripes :
              Body(c)[k] = Unlock(s) => s \in Held(Body(c), k)
         /\ Held(Body(c), Len(Body(c)) + 1) = {}
<1>1. CASE c = <<"none">>
  <2>1. Body(c) = <<>>
    BY <1>1, BodyOf
  <2> QED BY <2>1 DEF Held
<1>2. CASE c = <<"stats">>
  <2>1. Body(c) = StatsBody
    BY <1>2, BodyOf
  <2>a. /\ StripeCount \in Nat /\ StatsBody \in Seq(Instructions)
        /\ Len(StatsBody) = 2 * StripeCount + 1
    BY StatsShape
  <2>2. /\ StripeCount \in Nat /\ StatsBody \in Seq(Instructions)
        /\ Len(StatsBody) + 1 = 2 * StripeCount + 2
    BY <2>a
  <2>3. /\ \A i \in 1 .. StripeCount : i - 1 \in Held(StatsBody, StripeCount + 1 + i)
        /\ Held(StatsBody, 2 * StripeCount + 2) = {}
    BY StatsHeld
  <2>4. ASSUME NEW k \in 1 .. Len(StatsBody), NEW s \in Stripes, StatsBody[k] = Unlock(s)
        PROVE  s \in Held(StatsBody, k)
    BY <2>3, <2>4, StatsOps DEF Lock, Unlock
  <2> QED BY <2>1, <2>2, <2>3, <2>4
<1>3. ASSUME NEW v \in Values, c = <<"add", v>>
      PROVE  /\ Body(c) \in Seq(Instructions)
             /\ \A k \in 1 .. Len(Body(c)), s \in Stripes :
                  Body(c)[k] = Unlock(s) => s \in Held(Body(c), k)
             /\ Held(Body(c), Len(Body(c)) + 1) = {}
  <2> DEFINE n == Len(LockOrder(v))
  <2>1. Body(c) = AddBody(v)
    BY <1>3, BodyOf
  <2>a. n \in 1..3 /\ AddBody(v) \in Seq(Instructions) /\ Len(AddBody(v)) = 2 * n + 6
    BY AddShape
  <2>2. n \in 1..3 /\ AddBody(v) \in Seq(Instructions) /\ Len(AddBody(v)) + 1 = 2 * n + 7
    BY ONLY <2>a
  <2>3. /\ \A i \in 1 .. n : UnlockOrder(v)[i] \in Held(AddBody(v), n + 6 + i)
        /\ Held(AddBody(v), 2 * n + 7) = {}
    BY AddHeld
  <2>4. ASSUME NEW k \in 1 .. Len(AddBody(v)), NEW s \in Stripes, AddBody(v)[k] = Unlock(s)
        PROVE  s \in Held(AddBody(v), k)
    BY <2>3, <2>4, AddOps DEF Lock, Unlock, Load, Store
  <2> QED BY <2>1, <2>2, <2>3, <2>4
<1>4. ASSUME NEW v \in Values, c = <<"contains", v>>
      PROVE  /\ Body(c) \in Seq(Instructions)
             /\ \A k \in 1 .. Len(Body(c)), s \in Stripes :
                  Body(c)[k] = Unlock(s) => s \in Held(Body(c), k)
             /\ Held(Body(c), Len(Body(c)) + 1) = {}
  <2>1. Body(c) = ContainsBody(v)
    BY <1>4, BodyOf
  <2> QED BY <2>1, ContainsShape
<1> QED BY <1>1, <1>2, <1>3, <1>4, CallKinds

-----------------------------------------------------------------------------
(* A step of a thread *)

LEMMA AtRange ==
  ASSUME TypeInv, TodoInv, NEW p \in Procs
  PROVE  /\ Len(Body(call[p])) \in Nat /\ Len(todo[p]) \in Nat
         /\ InstrOf(p) \in 1 .. (Len(Body(call[p])) + 1)
         /\ todo[p] = <<>> <=> InstrOf(p) = Len(Body(call[p])) + 1
         /\ todo[p] # <<>> => todo[p][1] = Body(call[p])[InstrOf(p)]
<1>1. call[p] \in Calls /\ todo[p] \in Seq(Instructions)
  BY DEF TypeInv
<1>2. Body(call[p]) \in Seq(Instructions)
  BY <1>1, Bodies
<1>3. Len(Body(call[p])) \in Nat /\ Len(todo[p]) \in Nat
  BY <1>1, <1>2, LenProperties
<1>4. todo[p] = <<>> <=> Len(todo[p]) = 0
  BY <1>1, EmptySeq
<1>5. Len(todo[p]) <= Len(Body(call[p]))
  BY DEF TodoInv
<1>6. todo[p] # <<>> => todo[p][1] = Body(call[p])[InstrOf(p) - 1 + 1]
  BY <1>3, <1>4 DEF TodoInv
<1> DEFINE x == Len(Body(call[p]))
           y == Len(todo[p])
           k == InstrOf(p)
<1>7. x \in Nat /\ y \in Nat /\ y <= x /\ k = x - y + 1
  BY <1>3, <1>5 DEF InstrOf
<1> HIDE DEF x, y, k
<1>8. k \in 1 .. (x + 1) /\ k - 1 + 1 = k /\ (y = 0 <=> k = x + 1)
  BY <1>7
<1> QED BY <1>3, <1>4, <1>6, <1>8 DEF x, y, k

LEMMA StepFacts ==
  ASSUME TypeInv, TodoInv, NEW p \in Procs, NEW op, Step(p, op)
  PROVE  /\ InstrOf(p) \in 1 .. Len(Body(call[p]))
         /\ todo[p][1] = Body(call[p])[InstrOf(p)] /\ todo[p][1] \in Instructions
         /\ todo[p][1][1] = op
         /\ InstrOf(p)' = InstrOf(p) + 1
         /\ \A q \in Procs : q # p => InstrOf(q)' = InstrOf(q)
         /\ todo' \in [Procs -> Seq(Instructions)]
         /\ TodoInv'
<1>1. /\ todo \in [Procs -> Seq(Instructions)] /\ todo[p] \in Seq(Instructions)
      /\ todo[p] # <<>> /\ call' = call /\ todo[p][1][1] = op
      /\ todo' = [todo EXCEPT ![p] = Tail(todo[p])]
  BY DEF TypeInv, Step
<1>2. /\ Tail(todo[p]) \in Seq(Instructions) /\ Len(Tail(todo[p])) = Len(todo[p]) - 1
      /\ \A i \in 1 .. Len(Tail(todo[p])) : Tail(todo[p])[i] = todo[p][i + 1]
  BY <1>1, HeadTailProperties
<1>3. /\ InstrOf(p) \in 1 .. (Len(Body(call[p])) + 1) /\ InstrOf(p) # Len(Body(call[p])) + 1
      /\ Len(Body(call[p])) \in Nat /\ Len(todo[p]) \in Nat
      /\ todo[p][1] = Body(call[p])[InstrOf(p)]
  BY <1>1, AtRange
<1>4. todo[p][1] \in Instructions
  BY <1>1, <1>3 DEF InstrOf
<1>5. /\ todo'[p] = Tail(todo[p]) /\ \A q \in Procs : q # p => todo'[q] = todo[q]
      /\ todo' \in [Procs -> Seq(Instructions)]
  BY <1>1, <1>2
<1>6. InstrOf(p)' = InstrOf(p) + 1
  BY <1>1, <1>2, <1>3, <1>5 DEF InstrOf
<1>7. \A q \in Procs : q # p => InstrOf(q)' = InstrOf(q)
  BY <1>1, <1>5 DEF InstrOf
<1>8. TodoInv'
  <2> SUFFICES ASSUME NEW q \in Procs
               PROVE  /\ Len(todo'[q]) <= Len(Body(call'[q]))
                      /\ \A i \in 1 .. Len(todo'[q]) : todo'[q][i] = Body(call'[q])[InstrOf(q)' - 1 + i]
    BY DEF TodoInv
  <2>1. CASE q # p
    BY <1>1, <1>5, <1>7, <2>1 DEF TodoInv
  <2>2. CASE q = p
    <3>1. Len(todo'[p]) <= Len(Body(call[p])) /\ Len(todo'[p]) = Len(todo[p]) - 1
      BY <1>2, <1>3, <1>5 DEF TodoInv
    <3>2. ASSUME NEW i \in 1 .. Len(todo'[p]) PROVE todo'[p][i] = Body(call[p])[InstrOf(p)' - 1 + i]
      <4>1. i + 1 \in 1 .. Len(todo[p]) /\ todo'[p][i] = todo[p][i + 1]
        BY <1>2, <1>3, <1>5, <3>1
      <4>2. todo[p][i + 1] = Body(call[p])[InstrOf(p) - 1 + (i + 1)]
        BY <4>1 DEF TodoInv
      <4>3. InstrOf(p) - 1 + (i + 1) = InstrOf(p)' - 1 + i
        BY <1>3, <1>6
      <4> QED BY <4>1, <4>2, <4>3
    <3> QED BY <1>1, <2>2, <3>1, <3>2
  <2> QED BY <2>1, <2>2
<1> QED BY <1>1, <1>3, <1>4, <1>5, <1>6, <1>7, <1>8

\* Steps that neither lock nor unlock keep the stripes.
LEMMA OwnerKept ==
  ASSUME TypeInv, TodoInv, OwnerInv, NEW p \in Procs, NEW op, Step(p, op),
         op \notin {"lock", "unlock"}, owner' = owner
  PROVE  OwnerInv'
<1>1. /\ InstrOf(p) \in 1 .. Len(Body(call[p])) /\ todo[p][1] = Body(call[p])[InstrOf(p)]
      /\ todo[p][1][1] = op /\ InstrOf(p)' = InstrOf(p) + 1
      /\ \A q \in Procs : q # p => InstrOf(q)' = InstrOf(q)
  BY StepFacts
<1>2. Len(Body(call[p])) \in Nat
  BY AtRange
<1>3. InstrOf(p) \in Nat \ {0}
  BY <1>1, <1>2
<1>4. \A s \in Stripes : Body(call[p])[InstrOf(p)] # Lock(s) /\ Body(call[p])[InstrOf(p)] # Unlock(s)
  BY <1>1 DEF Lock, Unlock
<1>5. Held(Body(call[p]), InstrOf(p) + 1) = Held(Body(call[p]), InstrOf(p))
  BY <1>3, <1>4, HeldStep
<1>6. call' = call
  BY DEF Step
<1>7. \A q \in Procs : Held(Body(call'[q]), InstrOf(q)') = Held(Body(call[q]), InstrOf(q))
  BY <1>1, <1>5, <1>6
<1> QED BY <1>7 DEF OwnerInv

\* Steps other than the count keep what was counted.
LEMMA StatsKept ==
  ASSUME TypeInv, TodoInv, StatsInv, NEW p \in Procs, NEW op, Step(p, op),
         op # "count", stats' = stats
  PROVE  StatsInv'
<1>1. /\ InstrOf(p) \in 1 .. Len(Body(call[p])) /\ todo[p][1] = Body(call[p])[InstrOf(p)]
      /\ todo[p][1][1] = op /\ InstrOf(p)' = InstrOf(p) + 1
      /\ \A q \in Procs : q # p => InstrOf(q)' = InstrOf(q)
  BY StepFacts
<1>2. call' = call
  BY DEF Step
<1>3. StripeCount \in Nat
  BY Parameters DEF ConstantsOK
<1> SUFFICES ASSUME NEW q \in Procs, call[q] = <<"stats">>, InstrOf(q)' > StripeCount + 1
             PROVE  \E S \in SUBSET Values : stats[q] = UNION {BitsOf(v) : v \in S}
  BY <1>2 DEF StatsInv, BitsOf
<1>4. InstrOf(q) > StripeCount + 1
  <2>1. CASE q # p
    BY <1>1, <2>1
  <2>2. CASE q = p
    <3>1. Body(call[p]) = StatsBody
      BY <2>2, BodyOf
    <3>2. InstrOf(p) # StripeCount + 1
      <4>1. StatsBody[StripeCount + 1] = <<"count">>
        BY StatsShape
      <4> QED BY <1>1, <3>1, <4>1
    <3>3. InstrOf(p) \in Nat
      <4>1. Len(Body(call[p])) \in Nat
        BY AtRange
      <4> QED BY <1>1, <4>1
    <3> QED BY <1>1, <1>3, <2>2, <3>2, <3>3
  <2> QED BY <2>1, <2>2
<1> QED BY <1>4 DEF StatsInv

\* Steps that neither load nor store keep the bits and what was loaded.
LEMMA BitsKept ==
  ASSUME TypeInv, TodoInv, AddInv, AddedInv, BitsInv, NEW p \in Procs, NEW op, Step(p, op),
         op \notin {"load", "store"}, bitArray' = bitArray, reg' = reg
  PROVE  AddInv' /\ AddedInv' /\ BitsInv'
<1>1. /\ InstrOf(p) \in 1 .. Len(Body(call[p])) /\ todo[p][1] = Body(call[p])[InstrOf(p)]
      /\ todo[p][1][1] = op /\ InstrOf(p)' = InstrOf(p) + 1
      /\ \A q \in Procs : q # p => InstrOf(q)' = InstrOf(q)
  BY StepFacts
<1>2. call' = call /\ added' = added
  BY DEF Step
<1>3. \A q \in Procs : InstrOf(q) \in Nat
  <2> SUFFICES ASSUME NEW q \in Procs PROVE InstrOf(q) \in Nat
    OBVIOUS
  <2>1. InstrOf(q) \in 1 .. (Len(Body(call[q])) + 1) /\ Len(Body(call[q])) \in Nat
    BY AtRange
  <2> QED BY <2>1
<1>4. \A b : IsSet(b)' <=> IsSet(b)
  BY DEF IsSet, ByteOf
<1>5. AddInv'
  <2> SUFFICES ASSUME NEW q \in Procs, NEW v \in Values, NEW i \in 1..3, call[q] = <<"add", v>>
               PROVE  LET n == Len(LockOrder(v))
                      IN /\ InstrOf(q)' > n + 2 * i => IsSet(Hash[v][i])
                         /\ InstrOf(q)' = n + 2 * i => reg[q] = bitArray[ByteOf(Hash[v][i])]
    BY <1>2, <1>4 DEF AddInv
  <2> DEFINE n == Len(LockOrder(v))
  <2>1. /\ InstrOf(q) > n + 2 * i => IsSet(Hash[v][i])
        /\ InstrOf(q) = n + 2 * i => reg[q] = bitArray[ByteOf(Hash[v][i])]
    BY DEF AddInv
  <2>2. CASE q # p
    BY <1>1, <2>1, <2>2
  <2>3. CASE q = p
    <3>a. n \in 1..3
      BY AddShape
    <3>1. /\ AddBody(v)[n + 2 * i] = Store(Hash[v][i])
          /\ AddBody(v)[n + 2 * i - 1] = Load(Hash[v][i])
      BY AddShape
    <3>2. Body(call[p]) = AddBody(v)
      BY <2>3, BodyOf
    <3> HIDE DEF n
    <3>3. InstrOf(p) # n + 2 * i
      BY <1>1, <3>1, <3>2 DEF Store
    <3>4. InstrOf(p) # n + 2 * i - 1
      BY <1>1, <3>1, <3>2 DEF Load
    <3>5. InstrOf(p)' # n + 2 * i /\ (InstrOf(p)' > n + 2 * i => InstrOf(p) > n + 2 * i)
      BY <1>1, <1>3, <3>a, <3>3, <3>4
    <3> QED BY <2>1, <2>3, <3>5 DEF n
  <2> QED BY <2>2, <2>3
<1>6. AddedInv'
  BY <1>2, <1>4 DEF AddedInv
<1>7. Started \subseteq Started'
  BY <1>1, <1>2, <1>3 DEF Started
<1>8. BitsInv'
  BY <1>7 DEF BitsInv, BitsOf
<1> QED BY <1>5, <1>6, <1>8

\* Loads and stores are those of add(), tests those of contains().
LEMMA UpdateIsAdd ==
  ASSUME TypeInv, TodoInv, NEW p \in Procs, NEW op \in {"load", "store"}, Step(p, op)
  PROVE  \E v \in Values, i \in 1..3 :
           /\ call[p] = <<"add", v>> /\ Arg(p) = Hash[v][i]
           /\ InstrOf(p) = Len(LockOrder(v)) + 2 * i - IF op = "load" THEN 1 ELSE 0
<1>1. /\ InstrOf(p) \in 1 .. Len(Body(call[p])) /\ todo[p][1] = Body(call[p])[InstrOf(p)]
      /\ todo[p][1][1] = op
  BY StepFacts
<1>2. call[p] \in Calls
  BY DEF TypeInv
<1>3. call[p] # <<"none">>
  BY <1>1, BodyOf
<1>4. call[p] # <<"stats">>
  <2> SUFFICES ASSUME call[p] = <<"stats">> PROVE FALSE
    OBVIOUS
  <2>1. Body(call[p]) = StatsBody
    BY BodyOf
  <2> QED BY <1>1, <2>1, StatsOps DEF Lock, Unlock
<1>5. ASSUME NEW v \in Values, call[p] = <<"contains", v>> PROVE FALSE
  <2>1. Body(call[p]) = ContainsBody(v)
    BY <1>5, BodyOf
  <2>2. ContainsBody(v)[InstrOf(p)][1] \in {"lock", "test", "unlock"}
    BY <1>1, <2>1, ContainsShape
  <2> QED BY <1>1, <2>1, <2>2
<1>6. PICK v \in Values : call[p] = <<"add", v>>
  BY <1>2, <1>3, <1>4, <1>5, CallKinds
<1> DEFINE n == Len(LockOrder(v))
<1>7. n \in 1..3
  BY AddShape
<1>8. Body(call[p]) = AddBody(v)
  BY <1>6, BodyOf
<1>9. \/ AddBody(v)[InstrOf(p)][1] \in {"lock", "unlock"}
      \/ \E i \in 1..3 : InstrOf(p) = n + 2 * i - 1 /\ AddBody(v)[InstrOf(p)] = Load(Hash[v][i])
      \/ \E i \in 1..3 : InstrOf(p) = n + 2 * i /\ AddBody(v)[InstrOf(p)] = Store(Hash[v][i])
  BY <1>1, <1>8, AddOps DEF Lock, Unlock
<1> HIDE DEF n
<1>10. CASE op = "load"
  <2>1. PICK i \in 1..3 : InstrOf(p) = n + 2 * i - 1 /\ todo[p][1] = Load(Hash[v][i])
    BY <1>1, <1>8, <1>9, <1>10 DEF Store
  <2>2. Arg(p) = Hash[v][i]
    BY <2>1 DEF Arg, Load
  <2> QED BY <1>6, <1>7, <1>10, <2>1, <2>2 DEF n
<1>11. CASE op = "store"
  <2>1. PICK i \in 1..3 : InstrOf(p) = n + 2 * i /\ todo[p][1] = Store(Hash[v][i])
    BY <1>1, <1>8, <1>9, <1>11 DEF Load
  <2>2. Arg(p) = Hash[v][i]
    BY <2>1 DEF Arg, Store
  <2>3. n + 2 * i - 0 = n + 2 * i
    BY <1>7
  <2> QED BY <1>6, <1>11, <2>1, <2>2, <2>3 DEF n
<1> QED BY <1>10, <1>11

LEMMA CountIsStats ==
  ASSUME TypeInv, TodoInv, NEW p \in Procs, Step(p, "count")
  PROVE  call[p] = <<"stats">> /\ InstrOf(p) = StripeCount + 1
<1>1. /\ InstrOf(p) \in 1 .. Len(Body(call[p])) /\ todo[p][1] = Body(call[p])[InstrOf(p)]
      /\ todo[p][1][1] = "count"
  BY StepFacts
<1>2. call[p] \in Calls
  BY DEF TypeInv
<1>3. call[p] # <<"none">>
  BY <1>1, BodyOf
<1>4. ASSUME NEW v \in Values, call[p] = <<"contains", v>> PROVE FALSE
  <2>1. Body(call[p]) = ContainsBody(v)
    BY <1>4, BodyOf
  <2>2. ContainsBody(v)[InstrOf(p)][1] \in {"lock", "test", "unlock"}
    BY <1>1, <2>1, ContainsShape
  <2> QED BY <1>1, <2>1, <2>2
<1>5. ASSUME NEW v \in Values, call[p] = <<"add", v>> PROVE FALSE
  <2>1. Body(call[p]) = AddBody(v)
    BY <1>5, BodyOf
  <2>2. AddBody(v)[InstrOf(p)][1] \in {"lock", "load", "store", "unlock"}
    BY <1>1, <2>1, AddOps DEF Lock, Load, Store, Unlock
  <2> QED BY <1>1, <2>1, <2>2
<1>6. call[p] = <<"stats">>
  BY <1>2, <1>3, <1>4, <1>5, CallKinds
<1>7. Body(call[p]) = StatsBody
  BY <1>6, BodyOf
<1>8. InstrOf(p) = StripeCount + 1
  BY <1>1, <1>7, StatsOps DEF Lock, Unlock
<1> QED BY <1>6, <1>8

\* add() owns the stripes of its bits while it loads and stores.
LEMMA AddOwns ==
  ASSUME OwnerInv, NEW p \in Procs, NEW v \in Values, call[p] = <<"add", v>>,
         InstrOf(p) \in (Len(LockOrder(v)) + 1) .. (Len(LockOrder(v)) + 7), NEW i \in 1..3
  PROVE  owner[get_stripe(Hash[v][i])] = p
<1>1. Stripe(v)[i] = get_stripe(Hash[v][i]) /\ Stripe(v)[i] \in Stripes
  BY ValueBits
<1>2. Body(call[p]) = AddBody(v)
  BY BodyOf
<1>3. Stripe(v)[i] \in Held(AddBody(v), InstrOf(p))
  BY AddHeld
<1> QED BY <1>1, <1>2, <1>3 DEF OwnerInv

-----------------------------------------------------------------------------
(* The actions *)

LEMMA InitFilter == ASSUME Init PROVE FilterInv
<1> USE DEF Init
<1>1. TypeInv
  <2>1. \A p \in Procs : call[p] \in Calls
    BY DEF Calls
  <2>2. todo \in [Procs -> Seq(Instructions)]
    OBVIOUS
  <2> QED BY <2>1, <2>2 DEF TypeInv
<1>2. \A p \in Procs : Body(call[p]) = <<>> /\ InstrOf(p) = 1
  <2> SUFFICES ASSUME NEW p \in Procs PROVE Body(call[p]) = <<>> /\ InstrOf(p) = 1
    OBVIOUS
  <2>1. Body(call[p]) = <<>> /\ todo[p] = <<>>
    BY BodyOf
  <2> QED BY <2>1 DEF InstrOf
<1>3. TodoInv
  BY <1>2 DEF TodoInv
<1>4. OwnerInv
  <2>1. \A p \in Procs : Held(Body(call[p]), InstrOf(p)) = {}
    BY <1>2, HeldStep DEF Held
  <2>2. NoProc \notin Procs
    BY Parameters DEF ConstantsOK
  <2> QED BY <2>1, <2>2 DEF OwnerInv
<1>5. AddInv /\ AddedInv /\ ContainsInv /\ StatsInv /\ BitsInv
  BY DEF AddInv, AddedInv, ContainsInv, StatsInv, BitsInv
<1> QED BY <1>1, <1>3, <1>4, <1>5 DEF FilterInv

LEMMA CallStep ==
  ASSUME FilterInv, NEW p \in Procs, NEW c \in Calls, c # <<"none">>, Call(p, c, Body(c))
  PROVE  FilterInv'
<1> USE DEF FilterInv, Call
<1>1. TypeInv'
  <2>1. Body(c) \in Seq(Instructions)
    BY Bodies
  <2>2. todo' \in [Procs -> Seq(Instructions)] /\ call' \in [Procs -> Calls]
    BY <2>1 DEF TypeInv
  <2>3. calls' \in [Procs -> Nat] /\ found' \in [Procs -> BOOLEAN] /\ stats' \in [Procs -> SUBSET Bits]
    BY DEF TypeInv
  <2>4. (c[1] = "contains" /\ c[2] \in added) \in BOOLEAN
    OBVIOUS
  <2>5. sure' \in [Procs -> BOOLEAN]
    BY <2>4 DEF TypeInv
  <2> QED BY <2>2, <2>3, <2>5 DEF TypeInv
<1>2. call' \in [Procs -> Calls] /\ call'[p] = c /\ todo'[p] = Body(c)
  BY DEF TypeInv
<1>3. \A q \in Procs : q # p => call'[q] = call[q] /\ todo'[q] = todo[q] /\ InstrOf(q)' = InstrOf(q)
  BY DEF TypeInv, InstrOf
<1>4. Len(Body(c)) \in Nat
  BY Bodies, LenProperties
<1>5. InstrOf(p)' = 1
  BY <1>2, <1>4 DEF InstrOf
<1>6. TodoInv'
  <2>1. \A i \in 1 .. Len(Body(c)) : Body(c)[i] = Body(c)[1 - 1 + i]
    BY <1>4
  <2> QED BY <1>2, <1>3, <1>4, <1>5, <2>1 DEF TodoInv
<1>7. OwnerInv'
  <2>1. Held(Body(c), 1) = {}
    BY DEF Held
  <2>2. Held(Body(call[p]), InstrOf(p)) = {}
    <3>1. Body(call[p]) = <<>>
      BY BodyOf
    <3>2. InstrOf(p) = 1
      BY <3>1, AtRange
    <3> QED BY <3>2 DEF Held
  <2> QED BY <1>2, <1>3, <1>5, <2>1, <2>2 DEF OwnerInv
<1>8. \A b : IsSet(b)' <=> IsSet(b)
  BY DEF IsSet, ByteOf
<1>9. AddInv'
  <2> SUFFICES ASSUME NEW q \in Procs, NEW v \in Values, NEW i \in 1..3, call'[q] = <<"add", v>>
               PROVE  LET n == Len(LockOrder(v))
                      IN /\ InstrOf(q)' > n + 2 * i => IsSet(Hash[v][i])
                         /\ InstrOf(q)' = n + 2 * i => reg[q] = bitArray[ByteOf(Hash[v][i])]
    BY <1>8 DEF AddInv
  <2>1. CASE q # p
    BY <1>3, <2>1 DEF AddInv
  <2>2. CASE q = p
    <3>1. Len(LockOrder(v)) \in 1..3
      BY Orders
    <3> QED BY <1>5, <2>2, <3>1
  <2> QED BY <2>1, <2>2
<1>10. AddedInv'
  BY <1>8 DEF AddedInv
<1>11. ContainsInv'
  <2> SUFFICES ASSUME NEW q \in Procs, NEW v \in Values, call'[q] = <<"contains", v>>, sure'[q]
               PROVE  v \in added /\ found'[q]
    BY DEF ContainsInv
  <2>1. CASE q # p
    BY <1>3, <2>1 DEF ContainsInv, TypeInv
  <2>2. CASE q = p
    <3>1. sure'[p] = (c[1] = "contains" /\ c[2] \in added)
      BY DEF TypeInv
    <3>2. c = <<"contains", v>> /\ sure'[p]
      BY <1>2, <2>2
    <3>3. c[2] \in added
      BY <3>1, <3>2
    <3>4. c[2] = v
      BY <3>2
    <3>5. found'[p]
      BY DEF TypeInv
    <3> QED BY <2>2, <3>3, <3>4, <3>5
  <2> QED BY <2>1, <2>2
<1>12. StatsInv'
  <2> SUFFICES ASSUME NEW q \in Procs, call'[q] = <<"stats">>, InstrOf(q)' > StripeCount + 1
               PROVE  \E S \in SUBSET Values : stats'[q] = UNION {BitsOf(v) : v \in S}
    BY DEF StatsInv, BitsOf
  <2>1. CASE q # p
    BY <1>3, <2>1 DEF StatsInv, TypeInv
  <2>2. CASE q = p
    BY <1>5, <2>2, Parameters DEF ConstantsOK
  <2> QED BY <2>1, <2>2
<1>13. BitsInv'
  <2>1. Started \subseteq Started'
    <3> SUFFICES ASSUME NEW v \in Values, NEW q \in Procs, call[q] = <<"add", v>>, InstrOf(q) > 1
                 PROVE  v \in Started'
      BY DEF Started
    <3>1. q # p
      OBVIOUS
    <3> QED BY <1>3, <3>1 DEF Started
  <2> QED BY <2>1 DEF BitsInv, BitsOf
<1> QED BY <1>1, <1>6, <1>7, <1>9, <1>10, <1>11, <1>12, <1>13

LEMMA LockStep ==
  ASSUME FilterInv, NEW p \in Procs, LockStripe(p)
  PROVE  FilterInv'
<1> USE DEF FilterInv
<1>1. /\ Step(p, "lock") /\ owner[Arg(p)] = NoProc
      /\ owner' = [owner EXCEPT ![Arg(p)] = p]
      /\ bitArray' = bitArray /\ reg' = reg /\ found' = found /\ stats' = stats
  BY DEF LockStripe
<1>2. /\ InstrOf(p) \in 1 .. Len(Body(call[p])) /\ todo[p][1] = Body(call[p])[InstrOf(p)]
      /\ todo[p][1] \in Instructions /\ todo[p][1][1] = "lock" /\ InstrOf(p)' = InstrOf(p) + 1
      /\ \A q \in Procs : q # p => InstrOf(q)' = InstrOf(q)
      /\ todo' \in [Procs -> Seq(Instructions)] /\ TodoInv'
  BY <1>1, StepFacts
<1>3. Arg(p) \in Stripes /\ todo[p][1] = Lock(Arg(p))
  BY <1>2 DEF Arg, Instructions, Lock
<1>4. call' = call /\ calls' = calls /\ added' = added /\ sure' = sure
  BY <1>1 DEF Step
<1>5. owner' \in [Stripes -> Procs \cup {NoProc}]
  BY <1>1, <1>3 DEF TypeInv
<1>6. TypeInv'
  BY <1>1, <1>2, <1>4, <1>5 DEF TypeInv
<1>7. OwnerInv'
  <2>1. InstrOf(p) \in Nat \ {0}
    BY <1>2, AtRange
  <2>2. Held(Body(call[p]), InstrOf(p) + 1) = Held(Body(call[p]), InstrOf(p)) \cup {Arg(p)}
    <3>1. Body(call[p])[InstrOf(p)] = Lock(Arg(p))
      BY <1>2, <1>3
    <3> QED BY ONLY <1>3, <2>1, <3>1, HeldStep
  <2>3. NoProc \notin Procs
    BY Parameters DEF ConstantsOK
  <2> SUFFICES ASSUME NEW q \in Procs, NEW s \in Stripes
               PROVE  owner'[s] = q <=> s \in Held(Body(call[q]), InstrOf(q)')
    BY <1>4 DEF OwnerInv
  <2>4. owner[s] = q <=> s \in Held(Body(call[q]), InstrOf(q))
    BY DEF OwnerInv
  <2>5. owner'[s] = IF s = Arg(p) THEN p ELSE owner[s]
    BY <1>1, <1>3 DEF TypeInv
  <2>6. CASE q # p
    BY <1>1, <1>2, <2>3, <2>4, <2>5, <2>6
  <2>7. CASE q = p
    BY <1>2, <2>2, <2>4, <2>5, <2>7
  <2> QED BY <2>6, <2>7
<1>8. AddInv' /\ AddedInv' /\ BitsInv'
  BY <1>1, BitsKept
<1>9. ContainsInv'
  BY <1>1, <1>4 DEF ContainsInv
<1>10. StatsInv'
  BY <1>1, StatsKept
<1> QED BY <1>2, <1>6, <1>7, <1>8, <1>9, <1>10

LEMMA UnlockStep ==
  ASSUME FilterInv, NEW p \in Procs, UnlockStripe(p)
  PROVE  FilterInv'
<1> USE DEF FilterInv
<1>1. /\ Step(p, "unlock")
      /\ owner' = [owner EXCEPT ![Arg(p)] = NoProc]
      /\ bitArray' = bitArray /\ reg' = reg /\ found' = found /\ stats' = stats
  BY DEF UnlockStripe
<1>2. /\ InstrOf(p) \in 1 .. Len(Body(call[p])) /\ todo[p][1] = Body(call[p])[InstrOf(p)]
      /\ todo[p][1] \in Instructions /\ todo[p][1][1] = "unlock" /\ InstrOf(p)' = InstrOf(p) + 1
      /\ \A q \in Procs : q # p => InstrOf(q)' = InstrOf(q)
      /\ todo' \in [Procs -> Seq(Instructions)] /\ TodoInv'
  BY <1>1, StepFacts
<1>3. Arg(p) \in Stripes /\ todo[p][1] = Unlock(Arg(p))
  BY <1>2 DEF Arg, Instructions, Unlock
<1>4. call' = call /\ calls' = calls /\ added' = added /\ sure' = sure
  BY <1>1 DEF Step
<1>5. owner' \in [Stripes -> Procs \cup {NoProc}]
  BY <1>1, <1>3 DEF TypeInv
<1>6. TypeInv'
  BY <1>1, <1>2, <1>4, <1>5 DEF TypeInv
<1>7. OwnerInv'
  <2>1. InstrOf(p) \in Nat \ {0}
    BY <1>2, AtRange
  <2>2. Held(Body(call[p]), InstrOf(p) + 1) = Held(Body(call[p]), InstrOf(p)) \ {Arg(p)}
    <3>1. Body(call[p])[InstrOf(p)] = Unlock(Arg(p))
      BY <1>2, <1>3
    <3> QED BY ONLY <1>3, <2>1, <3>1, HeldStep
  <2>3. NoProc \notin Procs
    BY Parameters DEF ConstantsOK
  <2>4. owner[Arg(p)] = p
    <3>1. call[p] \in Calls
      BY DEF TypeInv
    <3>2. Arg(p) \in Held(Body(call[p]), InstrOf(p))
      BY <1>2, <1>3, <3>1, Bodies
    <3> QED BY <1>3, <3>2 DEF OwnerInv
  <2> SUFFICES ASSUME NEW q \in Procs, NEW s \in Stripes
               PROVE  owner'[s] = q <=> s \in Held(Body(call[q]), InstrOf(q)')
    BY <1>4 DEF OwnerInv
  <2>5. owner[s] = q <=> s \in Held(Body(call[q]), InstrOf(q))
    BY DEF OwnerInv
  <2>6. owner'[s] = IF s = Arg(p) THEN NoProc ELSE owner[s]
    BY <1>1, <1>3 DEF TypeInv
  <2>7. CASE q # p
    BY <1>1, <1>2, <2>3, <2>4, <2>5, <2>6, <2>7
  <2>8. CASE q = p
    BY <1>2, <2>2, <2>3, <2>5, <2>6, <2>8
  <2> QED BY <2>7, <2>8
<1>8. AddInv' /\ AddedInv' /\ BitsInv'
  BY <1>1, BitsKept
<1>9. ContainsInv'
  BY <1>1, <1>4 DEF ContainsInv
<1>10. StatsInv'
  BY <1>1, StatsKept
<1> QED BY <1>2, <1>6, <1>7, <1>8, <1>9, <1>10

LEMMA LoadStep ==
  ASSUME FilterInv, NEW p \in Procs, LoadByte(p)
  PROVE  FilterInv'
<1> USE DEF FilterInv
<1>1. /\ Step(p, "load")
      /\ reg' = [reg EXCEPT ![p] = bitArray[ByteOf(Arg(p))]]
      /\ bitArray' = bitArray /\ owner' = owner /\ found' = found /\ stats' = stats
  BY DEF LoadByte
<1>2. /\ InstrOf(p)' = InstrOf(p) + 1
      /\ \A q \in Procs : q # p => InstrOf(q)' = InstrOf(q)
      /\ todo' \in [Procs -> Seq(Instructions)] /\ TodoInv'
  BY <1>1, StepFacts
<1>3. call' = call /\ calls' = calls /\ added' = added /\ sure' = sure
  BY <1>1 DEF Step
<1>4. PICK v \in Values, i \in 1..3 :
        /\ call[p] = <<"add", v>> /\ Arg(p) = Hash[v][i]
        /\ InstrOf(p) = Len(LockOrder(v)) + 2 * i - 1
  BY <1>1, UpdateIsAdd
<1>5. ByteOf(Arg(p)) \in Bytes
  BY <1>4, ValueBits, BitPlace
<1>6. TypeInv'
  <2>1. reg' \in [Procs -> SUBSET Bits]
    BY <1>1, <1>5 DEF TypeInv
  <2> QED BY <1>1, <1>2, <1>3, <2>1 DEF TypeInv
<1>7. OwnerInv'
  BY <1>1, OwnerKept
<1>8. \A b : IsSet(b)' <=> IsSet(b)
  BY <1>1 DEF IsSet, ByteOf
<1>9. AddInv'
  <2> SUFFICES ASSUME NEW q \in Procs, NEW w \in Values, NEW j \in 1..3, call[q] = <<"add", w>>
               PROVE  LET n == Len(LockOrder(w))
                      IN /\ InstrOf(q)' > n + 2 * j => IsSet(Hash[w][j])
                         /\ InstrOf(q)' = n + 2 * j => reg'[q] = bitArray[ByteOf(Hash[w][j])]
    BY <1>1, <1>3, <1>8 DEF AddInv
  <2>1. CASE q # p
    <3>1. reg'[q] = reg[q]
      BY <1>1, <2>1 DEF TypeInv
    <3>2. InstrOf(q)' = InstrOf(q)
      BY <1>2, <2>1
    <3> QED BY <3>1, <3>2 DEF AddInv
  <2>2. CASE q = p
    <3>1. w = v
      BY <1>4, <2>2
    <3> DEFINE n == Len(LockOrder(v))
    <3>2. n \in 1..3
      BY Orders
    <3>3. InstrOf(p) > n + 2 * j => IsSet(Hash[v][j])
      BY <1>4 DEF AddInv
    <3>4. reg'[p] = bitArray[ByteOf(Hash[v][i])]
      BY <1>1, <1>4 DEF TypeInv
    <3>5. InstrOf(p)' = n + 2 * i
      BY <1>2, <1>4, <3>2
    <3>6. InstrOf(p)' = n + 2 * j => i = j
      BY <3>2, <3>5
    <3>7. InstrOf(p)' > n + 2 * j => InstrOf(p) > n + 2 * j
      BY <1>4, <3>2, <3>5
    <3> QED BY <2>2, <3>1, <3>3, <3>4, <3>6, <3>7
  <2> QED BY <2>1, <2>2
<1>10. AddedInv'
  BY <1>3, <1>8 DEF AddedInv
<1>11. ContainsInv'
  BY <1>1, <1>3 DEF ContainsInv
<1>12. StatsInv'
  BY <1>1, StatsKept
<1>13. BitsInv'
  <2>1. \A q \in Procs : InstrOf(q) \in Nat
    <3> SUFFICES ASSUME NEW q \in Procs PROVE InstrOf(q) \in Nat
      OBVIOUS
    <3>1. InstrOf(q) \in 1 .. (Len(Body(call[q])) + 1) /\ Len(Body(call[q])) \in Nat
      BY AtRange
    <3> QED BY <3>1
  <2>2. Started \subseteq Started'
    BY <1>2, <1>3, <2>1 DEF Started
  <2> QED BY <1>1, <2>2 DEF BitsInv, BitsOf
<1> QED BY <1>2, <1>6, <1>7, <1>9, <1>10, <1>11, <1>12, <1>13

\* The store keeps the other bits of the byte: nobody has changed the byte since
\* the load, because its stripe is locked.
LEMMA StoreStep ==
  ASSUME FilterInv, NEW p \in Procs, StoreByte(p)
  PROVE  FilterInv'
<1> USE DEF FilterInv
<1>1. /\ Step(p, "store")
      /\ bitArray' = [bitArray EXCEPT ![ByteOf(Arg(p))] = reg[p] \cup {Arg(p)}]
      /\ reg' = reg /\ owner' = owner /\ found' = found /\ stats' = stats
  BY DEF StoreByte, Ored
<1>2. /\ InstrOf(p)' = InstrOf(p) + 1
      /\ \A q \in Procs : q # p => InstrOf(q)' = InstrOf(q)
      /\ todo' \in [Procs -> Seq(Instructions)] /\ TodoInv'
  BY <1>1, StepFacts
<1>3. call' = call /\ calls' = calls /\ added' = added /\ sure' = sure
  BY <1>1 DEF Step
<1>4. PICK v \in Values, i \in 1..3 :
        /\ call[p] = <<"add", v>> /\ Arg(p) = Hash[v][i]
        /\ InstrOf(p) = Len(LockOrder(v)) + 2 * i - 0
  BY <1>1, UpdateIsAdd
<1> DEFINE b == Hash[v][i]
           n == Len(LockOrder(v))
<1>5. n \in 1..3 /\ InstrOf(p) = n + 2 * i
  <2>1. n \in 1..3
    BY Orders
  <2> QED BY <1>4, <2>1
<1>6. b \in Bits /\ b \in BitsOf(v) /\ ByteOf(b) \in Bytes
  BY ValueBits, BitPlace
<1>7. bitArray' = [bitArray EXCEPT ![ByteOf(b)] = bitArray[ByteOf(b)] \cup {b}]
  <2>1. reg[p] = bitArray[ByteOf(b)]
    BY <1>4, <1>5 DEF AddInv
  <2> QED BY <1>1, <1>4, <2>1
<1> HIDE DEF b, n
<1>8. TypeInv'
  <2>1. bitArray' \in [Bytes -> SUBSET Bits]
    BY <1>6, <1>7 DEF TypeInv
  <2> QED BY <1>1, <1>2, <1>3, <2>1 DEF TypeInv
<1>9. OwnerInv'
  BY <1>1, OwnerKept
<1>10. \A y \in Bytes : /\ bitArray[y] \subseteq bitArray'[y]
                        /\ bitArray'[y] \subseteq bitArray[y] \cup {b}
                        /\ y # ByteOf(b) => bitArray'[y] = bitArray[y]
                        /\ b \in bitArray'[ByteOf(b)]
  BY <1>6, <1>7 DEF TypeInv
<1>11. \A w \in Values, j \in 1..3 : IsSet(Hash[w][j]) => IsSet(Hash[w][j])'
  <2> SUFFICES ASSUME NEW w \in Values, NEW j \in 1..3, IsSet(Hash[w][j])
               PROVE  Hash[w][j] \in bitArray'[ByteOf(Hash[w][j])]
    BY DEF IsSet, ByteOf
  <2>1. ByteOf(Hash[w][j]) \in Bytes
    BY ValueBits, BitPlace
  <2> QED BY <1>10, <2>1 DEF IsSet
<1>12. AddInv'
  <2> SUFFICES ASSUME NEW q \in Procs, NEW w \in Values, NEW j \in 1..3, call[q] = <<"add", w>>
               PROVE  LET m == Len(LockOrder(w))
                      IN /\ InstrOf(q)' > m + 2 * j => IsSet(Hash[w][j])'
                         /\ InstrOf(q)' = m + 2 * j => reg[q] = bitArray'[ByteOf(Hash[w][j])]
    BY <1>1, <1>3 DEF AddInv
  <2> DEFINE m == Len(LockOrder(w))
  <2>1. m \in 1..3
    BY Orders
  <2>2. /\ InstrOf(q) > m + 2 * j => IsSet(Hash[w][j])
        /\ InstrOf(q) = m + 2 * j => reg[q] = bitArray[ByteOf(Hash[w][j])]
    BY DEF AddInv
  <2>3. CASE q # p
    <3>1. InstrOf(q)' = InstrOf(q)
      BY <1>2, <2>3
    <3>2. ASSUME InstrOf(q) = m + 2 * j PROVE ByteOf(Hash[w][j]) # ByteOf(b)
      <4>1. InstrOf(q) \in (m + 1) .. (m + 7) /\ InstrOf(p) \in (n + 1) .. (n + 7)
        BY <1>5, <2>1, <3>2
      <4>2. owner[get_stripe(Hash[w][j])] = q
        BY <4>1, AddOwns
      <4>3. owner[get_stripe(b)] = p
        BY <1>4, <4>1, AddOwns DEF b, n
      <4> QED BY <2>3, <4>2, <4>3 DEF get_stripe
    <3>3. ByteOf(Hash[w][j]) \in Bytes
      BY ValueBits, BitPlace
    <3>4. InstrOf(q) = m + 2 * j => bitArray'[ByteOf(Hash[w][j])] = bitArray[ByteOf(Hash[w][j])]
      BY <1>10, <3>2, <3>3
    <3> QED BY <1>11, <2>2, <3>1, <3>4
  <2>4. CASE q = p
    <3>1. w = v
      BY <1>4, <2>4
    <3>2. InstrOf(p)' = n + 2 * i + 1
      BY <1>2, <1>5
    <3>3. m = n
      BY <3>1 DEF n
    <3>4. InstrOf(p)' # m + 2 * j
      BY <1>5, <3>2, <3>3
    <3>5. ASSUME InstrOf(p)' > m + 2 * j PROVE IsSet(Hash[w][j])'
      <4>1. CASE i = j
        <5>1. Hash[w][j] = b
          BY <3>1, <4>1 DEF b
        <5> QED BY <1>6, <1>10, <5>1 DEF IsSet, ByteOf
      <4>2. CASE i # j
        <5>1. InstrOf(p) > m + 2 * j
          BY <1>5, <3>2, <3>3, <3>5, <4>2
        <5> QED BY <1>11, <2>2, <2>4, <5>1
      <4> QED BY <4>1, <4>2
    <3> QED BY <2>4, <3>4, <3>5
  <2> QED BY <2>3, <2>4
<1>13. AddedInv'
  BY <1>3, <1>11 DEF AddedInv, TypeInv
<1>14. ContainsInv'
  BY <1>1, <1>3 DEF ContainsInv
<1>15. StatsInv'
  BY <1>1, StatsKept
<1>16. BitsInv'
  <2>1. \A q \in Procs : InstrOf(q) \in Nat
    <3> SUFFICES ASSUME NEW q \in Procs PROVE InstrOf(q) \in Nat
      OBVIOUS
    <3>1. InstrOf(q) \in 1 .. (Len(Body(call[q])) + 1) /\ Len(Body(call[q])) \in Nat
      BY AtRange
    <3> QED BY <3>1
  <2>2. Started \subseteq Started'
    BY <1>2, <1>3, <2>1 DEF Started
  <2>3. v \in Started'
    <3>1. InstrOf(p)' > 1
      BY <1>2, <1>5
    <3> QED BY <1>3, <1>4, <3>1 DEF Started
  <2> SUFFICES ASSUME NEW y \in Bytes, NEW c \in bitArray'[y]
               PROVE  \E w \in Started' : c \in BitsOf(w)
    BY DEF BitsInv, BitsOf
  <2>4. CASE c = b
    BY <1>6, <2>3, <2>4
  <2>5. CASE c # b
    <3>1. c \in bitArray[y]
      BY <1>10, <2>5
    <3> QED BY <2>2, <3>1 DEF BitsInv
  <2> QED BY <2>4, <2>5
<1> QED BY <1>2, <1>8, <1>9, <1>12, <1>13, <1>14, <1>15, <1>16

\* A value that was added before the call has all its bits set, whichever locks
\* the tests are under.
LEMMA TestStep ==
  ASSUME FilterInv, NEW p \in Procs, TestBit(p)
  PROVE  FilterInv'
<1> USE DEF FilterInv
<1>1. /\ Step(p, "test")
      /\ found' = [found EXCEPT ![p] = found[p] /\ Arg(p) \in bitArray[ByteOf(Arg(p))]]
      /\ bitArray' = bitArray /\ owner' = owner /\ reg' = reg /\ stats' = stats
  BY DEF TestBit
<1>2. /\ InstrOf(p) \in 1 .. Len(Body(call[p])) /\ todo[p][1] = Body(call[p])[InstrOf(p)]
      /\ todo[p][1][1] = "test"
      /\ todo' \in [Procs -> Seq(Instructions)] /\ TodoInv'
  BY <1>1, StepFacts
<1>3. call' = call /\ calls' = calls /\ added' = added /\ sure' = sure
  BY <1>1 DEF Step
<1>4. TypeInv'
  <2>1. (found[p] /\ Arg(p) \in bitArray[ByteOf(Arg(p))]) \in BOOLEAN
    OBVIOUS
  <2>2. found' \in [Procs -> BOOLEAN]
    BY <1>1, <2>1 DEF TypeInv
  <2> QED BY <1>1, <1>2, <1>3, <2>2 DEF TypeInv
<1>5. OwnerInv'
  BY <1>1, OwnerKept
<1>6. AddInv' /\ AddedInv' /\ BitsInv'
  BY <1>1, BitsKept
<1>7. ContainsInv'
  <2> SUFFICES ASSUME NEW q \in Procs, NEW v \in Values, call[q] = <<"contains", v>>, sure[q]
               PROVE  v \in added /\ found'[q]
    BY <1>3 DEF ContainsInv
  <2>1. v \in added /\ found[q]
    BY DEF ContainsInv
  <2>2. CASE q # p
    BY <1>1, <2>1, <2>2 DEF TypeInv
  <2>3. CASE q = p
    <3>1. Body(call[p]) = ContainsBody(v)
      BY <2>3, BodyOf
    <3>2. Arg(p) \in BitsOf(v)
      BY <1>2, <3>1, ContainsShape DEF Arg
    <3>3. Arg(p) \in bitArray[ByteOf(Arg(p))]
      BY <2>1, <3>2 DEF AddedInv, IsSet, BitsOf
    <3>4. found'[p] = (found[p] /\ Arg(p) \in bitArray[ByteOf(Arg(p))])
      BY <1>1 DEF TypeInv
    <3> QED BY <2>1, <2>3, <3>3, <3>4
  <2> QED BY <2>2, <2>3
<1>8. StatsInv'
  BY <1>1, StatsKept
<1> QED BY <1>2, <1>4, <1>5, <1>6, <1>7, <1>8

\* print_stats() owns every stripe, so that no add() is between its first lock
\* and its last unlock.
LEMMA CountStep ==
  ASSUME FilterInv, NEW p \in Procs, CountBits(p)
  PROVE  FilterInv'
<1> USE DEF FilterInv
<1>1. /\ Step(p, "count")
      /\ stats' = [stats EXCEPT ![p] = UNION {bitArray[y] : y \in Bytes}]
      /\ bitArray' = bitArray /\ owner' = owner /\ reg' = reg /\ found' = found
  BY DEF CountBits
<1>2. /\ \A q \in Procs : q # p => InstrOf(q)' = InstrOf(q)
      /\ todo' \in [Procs -> Seq(Instructions)] /\ TodoInv'
  BY <1>1, StepFacts
<1>3. call' = call /\ calls' = calls /\ added' = added /\ sure' = sure
  BY <1>1 DEF Step
<1>4. call[p] = <<"stats">> /\ InstrOf(p) = StripeCount + 1
  BY <1>1, CountIsStats
<1>5. TypeInv'
  <2>1. UNION {bitArray[y] : y \in Bytes} \in SUBSET Bits
    BY DEF TypeInv
  <2>2. stats' \in [Procs -> SUBSET Bits]
    BY <1>1, <2>1 DEF TypeInv
  <2> QED BY <1>1, <1>2, <1>3, <2>2 DEF TypeInv
<1>6. OwnerInv'
  BY <1>1, OwnerKept
<1>7. AddInv' /\ AddedInv' /\ BitsInv'
  BY <1>1, BitsKept
<1>8. ContainsInv'
  BY <1>1, <1>3 DEF ContainsInv
<1>9. \A s \in Stripes : owner[s] = p
  <2>1. Body(call[p]) = StatsBody
    BY <1>4, BodyOf
  <2>2. \A s \in Stripes : s \in Held(StatsBody, InstrOf(p))
    BY <1>4, StatsHeld
  <2> QED BY <2>1, <2>2 DEF OwnerInv
\* Every value that is started is wholly in the array.
<1>10. ASSUME NEW v \in Started, NEW i \in 1..3 PROVE v \in Values /\ IsSet(Hash[v][i])
  <2>1. CASE v \in added
    BY <2>1 DEF AddedInv, TypeInv
  <2>2. CASE v \notin added
    <3>1. v \in Values
      BY <2>2 DEF Started
    <3>2. PICK q \in Procs : call[q] = <<"add", v>> /\ InstrOf(q) > 1
      BY <2>2 DEF Started
    <3> DEFINE n == Len(LockOrder(v))
    <3>3. q # p
      BY <1>4, <3>2
    <3>4. Body(call[q]) = AddBody(v)
      BY <3>1, <3>2, BodyOf
    <3>5. n \in 1..3
      BY <3>1, Orders
    <3>6. Len(AddBody(v)) = 2 * n + 6
      BY <3>1, AddShape
    <3>7. InstrOf(q) \in 1 .. (2 * n + 6 + 1)
      <4>1. InstrOf(q) \in 1 .. (Len(Body(call[q])) + 1)
        BY AtRange
      <4> QED BY <3>4, <3>6, <4>1
    <3>8. InstrOf(q) \notin 2 .. (2 * n + 6)
      <4> SUFFICES ASSUME InstrOf(q) \in 2 .. (2 * n + 6) PROVE FALSE
        OBVIOUS
      <4>1. \E s \in Stripes : s \in Held(AddBody(v), InstrOf(q))
        BY <3>1, AddHeld
      <4>2. \E s \in Stripes : owner[s] = q
        BY <3>4, <4>1 DEF OwnerInv
      <4> QED BY <1>9, <3>3, <4>2
    <3> HIDE DEF n
    <3>9. InstrOf(q) > n + 2 * i
      BY <3>2, <3>5, <3>7, <3>8
    <3>10. InstrOf(q) > Len(LockOrder(v)) + 2 * i
      BY <3>9 DEF n
    <3> QED BY <3>1, <3>2, <3>10 DEF AddInv
  <2> QED BY <2>1, <2>2
<1>11. UNION {bitArray[y] : y \in Bytes} = UNION {BitsOf(v) : v \in Started}
  <2>1. ASSUME NEW y \in Bytes, NEW b \in bitArray[y] PROVE b \in UNION {BitsOf(v) : v \in Started}
    <3>1. PICK v \in Started : b \in BitsOf(v)
      BY DEF BitsInv
    <3> QED BY <3>1
  <2>2. ASSUME NEW v \in Started, NEW b \in BitsOf(v) PROVE b \in UNION {bitArray[y] : y \in Bytes}
    <3>1. PICK i \in 1..3 : b = Hash[v][i]
      BY DEF BitsOf
    <3>2. v \in Values /\ IsSet(b)
      BY <1>10, <3>1
    <3>3. ByteOf(b) \in Bytes
      BY <3>1, <3>2, ValueBits, BitPlace
    <3> QED BY <3>2, <3>3 DEF IsSet
  <2> QED BY <2>1, <2>2
<1>12. StatsInv'
  <2> SUFFICES ASSUME NEW q \in Procs, call[q] = <<"stats">>, InstrOf(q)' > StripeCount + 1
               PROVE  \E S \in SUBSET Values : stats'[q] = UNION {BitsOf(v) : v \in S}
    BY <1>3 DEF StatsInv, BitsOf
  <2>1. CASE q # p
    <3>1. InstrOf(q)' = InstrOf(q) /\ stats'[q] = stats[q]
      BY <1>1, <1>2, <2>1 DEF TypeInv
    <3> QED BY <3>1 DEF StatsInv
  <2>2. CASE q = p
    <3>1. stats'[p] = UNION {BitsOf(v) : v \in Started}
      BY <1>1, <1>11 DEF TypeInv
    <3>2. Started \in SUBSET Values
      BY DEF Started, TypeInv
    <3> QED BY <2>2, <3>1, <3>2
  <2> QED BY <2>1, <2>2
<1> QED BY <1>2, <1>5, <1>6, <1>7, <1>8, <1>12

LEMMA ReturnStep ==
  ASSUME FilterInv, NEW p \in Procs, Return(p)
  PROVE  FilterInv'
<1> USE DEF FilterInv
<1>1. /\ call[p] # <<"none">> /\ todo[p] = <<>>
      /\ call' = [call EXCEPT ![p] = <<"none">>]
      /\ added' = IF call[p][1] = "add" THEN added \cup {call[p][2]} ELSE added
      /\ bitArray' = bitArray /\ owner' = owner /\ todo' = todo /\ reg' = reg /\ found' = found
      /\ stats' = stats /\ calls' = calls /\ sure' = sure
  BY DEF Return
<1>2. call[p] \in Calls /\ <<"none">> \in Calls /\ InstrOf(p) = Len(Body(call[p])) + 1
  BY <1>1, AtRange DEF TypeInv, Calls
<1>3. call' \in [Procs -> Calls] /\ call'[p] = <<"none">>
  BY <1>1, <1>2 DEF TypeInv
<1>4. \A q \in Procs : q # p => call'[q] = call[q] /\ InstrOf(q)' = InstrOf(q)
  BY <1>1 DEF TypeInv, InstrOf
<1>5. Body(call'[p]) = <<>>
  BY <1>3, BodyOf
<1>6. InstrOf(p)' = 1
  BY <1>1, <1>5 DEF InstrOf
<1>7. added \subseteq added' /\ added' \subseteq Values
  <2>1. call[p][1] = "add" => call[p][2] \in Values
    BY <1>2 DEF Calls
  <2> QED BY <1>1, <2>1 DEF TypeInv
<1>8. TypeInv'
  BY <1>1, <1>3, <1>7 DEF TypeInv
<1>9. TodoInv'
  BY <1>1, <1>4, <1>5 DEF TodoInv
<1>10. OwnerInv'
  <2>1. Held(Body(call[p]), InstrOf(p)) = {}
    BY <1>2, Bodies
  <2>2. Held(Body(call'[p]), InstrOf(p)') = {}
    BY <1>6 DEF Held
  <2> SUFFICES ASSUME NEW q \in Procs, NEW s \in Stripes
               PROVE  owner[s] = q <=> s \in Held(Body(call'[q]), InstrOf(q)')
    BY <1>1 DEF OwnerInv
  <2>3. owner[s] = q <=> s \in Held(Body(call[q]), InstrOf(q))
    BY DEF OwnerInv
  <2> QED BY <1>4, <2>1, <2>2, <2>3
<1>11. \A b : IsSet(b)' <=> IsSet(b)
  BY <1>1 DEF IsSet, ByteOf
<1>12. AddInv'
  <2> SUFFICES ASSUME NEW q \in Procs, NEW v \in Values, NEW i \in 1..3, call'[q] = <<"add", v>>
               PROVE  LET n == Len(LockOrder(v))
                      IN /\ InstrOf(q)' > n + 2 * i => IsSet(Hash[v][i])
                         /\ InstrOf(q)' = n + 2 * i => reg[q] = bitArray[ByteOf(Hash[v][i])]
    BY <1>1, <1>11 DEF AddInv
  <2>1. q # p
    BY <1>3
  <2> QED BY <1>4, <2>1 DEF AddInv
<1>13. ASSUME NEW v \in Values, call[p] = <<"add", v>> PROVE \A i \in 1..3 : IsSet(Hash[v][i])
  <2> DEFINE n == Len(LockOrder(v))
  <2>1. n \in 1..3
    BY Orders
  <2>2. Len(AddBody(v)) = 2 * n + 6
    BY AddShape
  <2>3. InstrOf(p) = 2 * n + 6 + 1
    BY <1>2, <1>13, <2>2, BodyOf
  <2> SUFFICES ASSUME NEW i \in 1..3 PROVE IsSet(Hash[v][i])
    OBVIOUS
  <2> HIDE DEF n
  <2>4. InstrOf(p) > n + 2 * i
    BY <2>1, <2>3
  <2>5. InstrOf(p) > Len(LockOrder(v)) + 2 * i
    BY <2>4 DEF n
  <2> QED BY <1>13, <2>5 DEF AddInv
<1>14. \A v \in added' : v \in added \/ (v \in Values /\ call[p] = <<"add", v>>)
  <2> SUFFICES ASSUME NEW v \in added', v \notin added PROVE v \in Values /\ call[p] = <<"add", v>>
    OBVIOUS
  <2>1. call[p][1] = "add" /\ v = call[p][2]
    BY <1>1
  <2> QED BY <1>2, <2>1 DEF Calls
<1>15. AddedInv'
  BY <1>11, <1>13, <1>14 DEF AddedInv
<1>16. ContainsInv'
  <2> SUFFICES ASSUME NEW q \in Procs, NEW v \in Values, call'[q] = <<"contains", v>>, sure[q]
               PROVE  v \in added' /\ found[q]
    BY <1>1 DEF ContainsInv
  <2>1. q # p
    BY <1>3
  <2> QED BY <1>4, <1>7, <2>1 DEF ContainsInv
<1>17. StatsInv'
  <2> SUFFICES ASSUME NEW q \in Procs, call'[q] = <<"stats">>, InstrOf(q)' > StripeCount + 1
               PROVE  \E S \in SUBSET Values : stats[q] = UNION {BitsOf(v) : v \in S}
    BY <1>1 DEF StatsInv, BitsOf
  <2>1. q # p
    BY <1>3
  <2> QED BY <1>4, <2>1 DEF StatsInv
<1>18. BitsInv'
  <2>1. Started \subseteq Started'
    <3> SUFFICES ASSUME NEW v \in Values, NEW q \in Procs, call[q] = <<"add", v>>, InstrOf(q) > 1
                 PROVE  v \in Started'
      BY <1>7 DEF Started
    <3>1. CASE q # p
      BY <1>4, <3>1 DEF Started
    <3>2. CASE q = p
      BY <1>1, <3>2 DEF Started
    <3> QED BY <3>1, <3>2
  <2> QED BY <1>1, <2>1 DEF BitsInv, BitsOf
<1> QED BY <1>8, <1>9, <1>10, <1>12, <1>15, <1>16, <1>17, <1>18

-----------------------------------------------------------------------------
(* The filter keeps its promises *)

LEMMA FilterStep == ASSUME FilterInv, [Next]_vars PROVE FilterInv'
<1>1. ASSUME NEW p \in Procs, CallAdd(p) PROVE FilterInv'
  <2>1. PICK v \in Values : Call(p, <<"add", v>>, AddBody(v))
    BY <1>1 DEF CallAdd
  <2>2. <<"add", v>> \in Calls /\ <<"add", v>> # <<"none">>
    BY DEF Calls
  <2>3. Call(p, <<"add", v>>, Body(<<"add", v>>))
    BY <2>1, BodyOf
  <2> QED BY <2>2, <2>3, CallStep
<1>2. ASSUME NEW p \in Procs, CallContains(p) PROVE FilterInv'
  <2>1. PICK v \in Values : Call(p, <<"contains", v>>, ContainsBody(v))
    BY <1>2 DEF CallContains
  <2>2. <<"contains", v>> \in Calls /\ <<"contains", v>> # <<"none">>
    BY DEF Calls
  <2>3. Call(p, <<"contains", v>>, Body(<<"contains", v>>))
    BY <2>1, BodyOf
  <2> QED BY <2>2, <2>3, CallStep
<1>3. ASSUME NEW p \in Procs, CallStats(p) PROVE FilterInv'
  <2>1. <<"stats">> \in Calls /\ <<"stats">> # <<"none">>
    BY DEF Calls
  <2>2. Call(p, <<"stats">>, Body(<<"stats">>))
    BY <1>3, BodyOf DEF CallStats
  <2> QED BY <2>1, <2>2, CallStep
<1>4. ASSUME NEW p \in Procs, Run(p) PROVE FilterInv'
  BY <1>4, LockStep, UnlockStep, LoadStep, StoreStep, TestStep, CountStep, ReturnStep DEF Run
<1>5. CASE UNCHANGED vars
  <2>1. \A p \in Procs : InstrOf(p)' = InstrOf(p)
    BY <1>5 DEF vars, InstrOf
  <2>2. TypeInv' /\ TodoInv' /\ OwnerInv'
    BY <1>5, <2>1 DEF vars, FilterInv, TypeInv, TodoInv, OwnerInv
  <2>3. AddInv' /\ AddedInv'
    BY <1>5, <2>1 DEF vars, FilterInv, AddInv, AddedInv, IsSet, ByteOf
  <2>4. ContainsInv' /\ StatsInv'
    BY <1>5, <2>1 DEF vars, FilterInv, ContainsInv, StatsInv, BitsOf
  <2>5. BitsInv'
    BY <1>5, <2>1 DEF vars, FilterInv, BitsInv, Started, BitsOf
  <2> QED BY <2>2, <2>3, <2>4, <2>5 DEF FilterInv
<1> QED BY <1>1, <1>2, <1>3, <1>4, <1>5 DEF Next

LEMMA InvSound == FilterInv => FilterSound
<1> SUFFICES ASSUME FilterInv PROVE FilterSound
  OBVIOUS
<1> USE DEF FilterInv
<1>1. NoLostBits
  <2> SUFFICES ASSUME NEW v \in added, NEW i \in 1..3 PROVE Hash[v][i] \in AllBits
    BY DEF NoLostBits, BitsOf
  <2>1. v \in Values /\ IsSet(Hash[v][i])
    BY DEF AddedInv, TypeInv
  <2>2. ByteOf(Hash[v][i]) \in Bytes
    BY <2>1, ValueBits, BitPlace
  <2> QED BY <2>1, <2>2 DEF AllBits, IsSet
<1>2. NoFalseNegative
  <2> SUFFICES ASSUME NEW p \in Procs, call[p][1] = "contains", sure[p] PROVE found[p]
    BY DEF NoFalseNegative
  <2>1. PICK v \in Values : call[p] = <<"contains", v>>
    BY DEF TypeInv, Calls
  <2> QED BY <2>1 DEF ContainsInv
<1>3. StatsConsistent
  <2> SUFFICES ASSUME NEW p \in Procs, call[p][1] = "stats", todo[p] = <<>>
               PROVE  \E S \in SUBSET Values : stats[p] = UNION {BitsOf(v) : v \in S}
    BY DEF StatsConsistent
  <2>a. call[p] \in Calls
    BY DEF TypeInv
  <2>1. call[p] = <<"stats">>
    BY <2>a, CallKinds
  <2>2. InstrOf(p) = Len(StatsBody) + 1
    BY <2>1, AtRange, BodyOf
  <2>3. Len(StatsBody) = 2 * StripeCount + 1
    BY StatsShape
  <2>4. StripeCount \in Nat \ {0}
    BY Parameters DEF ConstantsOK
  <2>5. InstrOf(p) > StripeCount + 1
    BY <2>2, <2>3, <2>4
  <2> QED BY <2>1, <2>5 DEF StatsInv
<1> QED BY <1>1, <1>2, <1>3 DEF FilterSound

\* A finished add() is never lost, contains() never denies it, and
\* print_stats() counts a consistent state of the filter.
THEOREM FilterIsSound == Spec => []FilterSound
<1>1. Init => FilterInv
  BY InitFilter
<1>2. FilterInv /\ [Next]_vars => FilterInv'
  BY FilterStep
<1>3. FilterInv => FilterSound
  BY InvSound
<1> QED BY <1>1, <1>2, <1>3, PTL DEF Spec

-----------------------------------------------------------------------------
(* The lock-free stack                                                       *)

Pushing == {"push_load", "push_next", "push_cas"}
Popping == {"pop_load", "pop_next", "pop_cas", "pop_delete"}
OrNull == Nodes \cup {Null}

StackTypes ==
  /\ top \in OrNull /\ live \subseteq Nodes
  /\ mem \in [Nodes -> [value : Given \cup {None}, next : OrNull]]
  /\ pc \in [Users -> {"idle"} \cup Pushing \cup Popping]
  /\ node \in [Users -> OrNull] /\ old \in [Users -> OrNull] /\ nxt \in [Users -> OrNull]
  /\ ops \in [Users -> Nat] /\ \A p \in Users : ops[p] <= MaxOps[p]
  /\ stale \subseteq Users

\* c is what is linked from first on in a memory.
On(c) == {c[i] : i \in 1 .. Len(c)}
IsChain(c, first, memory) ==
  /\ c \in Seq(Nodes)
  /\ \A i, j \in 1 .. Len(c) : c[i] = c[j] => i = j
  /\ first = IF Len(c) = 0 THEN Null ELSE c[1]
  /\ \A i \in 1 .. Len(c) : memory[c[i]].next = IF i = Len(c) THEN Null ELSE c[i + 1]

\* The nodes of the push() calls, which are not of the chain yet.
PushOwns(c) ==
  \A p \in Users : pc[p] \in Pushing =>
    /\ node[p] \in live \ On(c) /\ mem[node[p]].value \in Given
    /\ pc[p] = "push_cas" => mem[node[p]].next = old[p]
    /\ \A q \in Users \ {p} : pc[q] \in Pushing => node[q] # node[p]

\* The nodes that the pop() calls delete, which are not of the chain any more.
PopOwns(c) ==
  \A p \in Users : pc[p] = "pop_delete" =>
    /\ old[p] \in live \ On(c)
    /\ \A q \in Users : pc[q] \in Pushing => node[q] # old[p]
    /\ \A q \in Users \ {p} : pc[q] = "pop_delete" => old[q] # old[p]

\* What a pop() has read of a node that was not deleted since: the node is of the
\* chain, or another pop() is about to delete it, and its next is still the same.
PopRead(c) ==
  \A p \in Users : pc[p] \in {"pop_next", "pop_cas"} =>
    /\ old[p] \in Nodes
    /\ p \notin stale =>
         /\ old[p] \in On(c) \/ \E q \in Users : pc[q] = "pop_delete" /\ old[q] = old[p]
         /\ pc[p] = "pop_cas" => nxt[p] = mem[old[p]].next

ChainInv(c) ==
  /\ IsChain(c, top, mem) /\ On(c) \subseteq live
  /\ PushOwns(c) /\ PopOwns(c) /\ PopRead(c)

\* The inductive invariant, until an address is exchanged twice.
StackInv == aba \/ (StackTypes /\ \E c \in Seq(Nodes) : ChainInv(c))

-----------------------------------------------------------------------------
(* The walk from the top is the chain.                                       *)

\* Induction, for a set of numbers.
LEMMA NatLess ==
  \E R : IsWellFoundedOn(R, Nat) /\ \A i, j \in Nat : i < j => <<i, j>> \in R
<1>1. IsWellFoundedOn(OpToRel(<, Nat), Nat)
  BY NatLessThanWellFounded
<1>2. \A i, j \in Nat : i < j => <<i, j>> \in OpToRel(<, Nat)
  BY DEF OpToRel
<1> QED
  BY <1>1, <1>2, Zenon

LEMMA NatSet ==
  ASSUME NEW S, 0 \in S, \A n \in Nat : n \in S => n + 1 \in S
  PROVE  Nat \subseteq S
<1> SUFFICES ASSUME Nat \ S # {} PROVE FALSE
  OBVIOUS
<1>1. PICK R : IsWellFoundedOn(R, Nat) /\ \A i, j \in Nat : i < j => <<i, j>> \in R
  BY NatLess
<1>2. Nat \ S \in SUBSET Nat
  OBVIOUS
<1>3. PICK m \in Nat \ S : \A j \in Nat \ S : <<j, m>> \notin R
  BY <1>1, <1>2, WFMin
<1>4. m \in Nat /\ m # 0 /\ m - 1 \in Nat /\ m - 1 < m /\ (m - 1) + 1 = m
  BY <1>3
<1>5. m - 1 \notin S
  BY <1>3, <1>4
<1>6. <<m - 1, m>> \notin R
  BY <1>3, <1>4, <1>5
<1>7. <<m - 1, m>> \in R
  BY <1>1, <1>4, Zenon
<1> QED
  BY <1>6, <1>7

\* The step of the recursion of WalkFrom.
After(w, first, memory, k) ==
  IF k = 0 THEN first ELSE IF w[k - 1] = Null THEN Null ELSE memory[w[k - 1]].next

IsWalk(w, first, memory, n) == w = [k \in 0 .. n |-> After(w, first, memory, k)]

LEMMA WalkExists ==
  ASSUME NEW first, NEW memory
  PROVE  \A n \in Nat : \E w : IsWalk(w, first, memory, n)
<1> USE DEF IsWalk
<1> DEFINE S == {m \in Nat : \E w : w = [k \in 0 .. m |-> After(w, first, memory, k)]}
<1>1. 0 \in S
  <2> DEFINE w == [k \in 0 .. 0 |-> first]
  <2>1. w = [k \in 0 .. 0 |-> After(w, first, memory, k)]
    BY DEF After
  <2> QED
    BY <2>1
<1>2. ASSUME NEW m \in Nat, m \in S PROVE m + 1 \in S
  <2>1. PICK w : w = [k \in 0 .. m |-> After(w, first, memory, k)]
    BY <1>2
  <2> DEFINE v == [k \in 0 .. (m + 1) |-> IF k <= m THEN w[k] ELSE After(w, first, memory, k)]
  <2>2. ASSUME NEW k \in 0 .. (m + 1) PROVE v[k] = After(v, first, memory, k)
    <3>1. k # 0 => k - 1 \in 0 .. m /\ v[k - 1] = w[k - 1]
      OBVIOUS
    <3>2. After(v, first, memory, k) = After(w, first, memory, k)
      BY <3>1 DEF After
    <3>3. k <= m => w[k] = After(w, first, memory, k)
      BY <2>1
    <3> QED
      BY <3>2, <3>3
  <2>3. v = [k \in 0 .. (m + 1) |-> After(v, first, memory, k)]
    BY <2>2
  <2> HIDE DEF v
  <2> QED
    BY <2>3
<1> HIDE DEF S
<1>3. Nat \subseteq S
  BY <1>1, <1>2, NatSet
<1> QED
  BY <1>3 DEF S

LEMMA WalkIs ==
  ASSUME NEW first, NEW memory, IsFiniteSet(Nodes)
  PROVE  /\ Cardinality(Nodes) \in Nat
         /\ \A k \in 0 .. Cardinality(Nodes) :
              WalkFrom(first, memory)[k] = After(WalkFrom(first, memory), first, memory, k)
         /\ DOMAIN WalkFrom(first, memory) = 0 .. Cardinality(Nodes)
<1>1. Cardinality(Nodes) \in Nat
  BY FS_CardinalityType
<1> DEFINE N == Cardinality(Nodes)
<1>2. N \in Nat
  BY <1>1
<1> HIDE DEF N
<1>7. \E w : IsWalk(w, first, memory, N)
  BY <1>2, WalkExists
<1>3. \E w : w = [k \in 0 .. N |-> IF k = 0 THEN first
                    ELSE IF w[k - 1] = Null THEN Null ELSE memory[w[k - 1]].next]
  BY <1>7 DEF After, IsWalk
<1> DEFINE w == CHOOSE w : w = [k \in 0 .. N |-> IF k = 0 THEN first
                              ELSE IF w[k - 1] = Null THEN Null ELSE memory[w[k - 1]].next]
<1>4. w = [k \in 0 .. N |-> IF k = 0 THEN first
                            ELSE IF w[k - 1] = Null THEN Null ELSE memory[w[k - 1]].next]
  BY <1>3
<1>5. WalkFrom(first, memory) = w
  BY DEF WalkFrom, N
<1> HIDE DEF w
<1>6. WalkFrom(first, memory) =
        [k \in 0 .. N |-> IF k = 0 THEN first
           ELSE IF WalkFrom(first, memory)[k - 1] = Null THEN Null
           ELSE memory[WalkFrom(first, memory)[k - 1]].next]
  BY <1>4, <1>5
<1> QED
  BY <1>1, <1>6 DEF After, N

LEMMA ChainIsShort ==
  ASSUME StackConstantsOK, NEW c, NEW first, NEW memory, IsChain(c, first, memory)
  PROVE  /\ c \in Seq(Nodes) /\ Len(c) \in Nat /\ Cardinality(Nodes) \in Nat
         /\ Len(c) <= Cardinality(Nodes)
<1>1. c \in [1 .. Len(c) -> Nodes] /\ Len(c) \in Nat
  BY DEF IsChain
<1>2. c \in Injection(1 .. Len(c), Nodes)
  BY <1>1 DEF IsChain, Injection, IsInjective
<1>3. Cardinality(1 .. Len(c)) <= Cardinality(Nodes) /\ Cardinality(Nodes) \in Nat
  BY <1>2, FS_Injection, FS_CardinalityType DEF StackConstantsOK
<1>4. Cardinality(1 .. Len(c)) = Len(c)
  <2>1. 1 \in Int /\ Len(c) \in Int
    BY <1>1
  <2>2. Cardinality(1 .. Len(c)) = IF 1 > Len(c) THEN 0 ELSE Len(c) - 1 + 1
    BY <2>1, FS_Interval
  <2> QED
    BY <1>1, <2>2
<1> QED
  BY <1>1, <1>3, <1>4 DEF IsChain

LEMMA WalkChain ==
  ASSUME StackConstantsOK, NEW c, NEW first, NEW memory, IsChain(c, first, memory)
  PROVE  \A k \in 0 .. Cardinality(Nodes) :
           WalkFrom(first, memory)[k] = IF k < Len(c) THEN c[k + 1] ELSE Null
<1> DEFINE N == Cardinality(Nodes)
<1> DEFINE w == WalkFrom(first, memory)
<1>1. N \in Nat /\ \A k \in 0 .. N : w[k] = After(w, first, memory, k)
  BY WalkIs DEF StackConstantsOK
<1>2. Len(c) \in Nat /\ \A i \in 1 .. Len(c) : c[i] \in Nodes /\ c[i] # Null
  BY DEF IsChain, StackConstantsOK
<1> HIDE DEF N, w
<1> DEFINE S == {k \in Nat : k \in 0 .. N => w[k] = IF k < Len(c) THEN c[k + 1] ELSE Null}
<1>3. 0 \in S
  <2> SUFFICES ASSUME 0 \in 0 .. N PROVE w[0] = IF 0 < Len(c) THEN c[0 + 1] ELSE Null
    OBVIOUS
  <2>1. w[0] = first
    BY <1>1 DEF After
  <2>2. first = IF Len(c) = 0 THEN Null ELSE c[1]
    BY DEF IsChain
  <2> QED
    BY <1>2, <2>1, <2>2
<1>4. ASSUME NEW k \in Nat, k \in S PROVE k + 1 \in S
  <2> SUFFICES ASSUME k + 1 \in 0 .. N
               PROVE  w[k + 1] = IF k + 1 < Len(c) THEN c[(k + 1) + 1] ELSE Null
    OBVIOUS
  <2>1. k \in 0 .. N /\ k + 1 # 0 /\ (k + 1) - 1 = k
    BY <1>1
  <2>2. w[k] = IF k < Len(c) THEN c[k + 1] ELSE Null
    BY <1>4, <2>1
  <2>3. w[k + 1] = IF w[k] = Null THEN Null ELSE memory[w[k]].next
    BY <1>1, <2>1 DEF After
  <2>4. CASE k < Len(c)
    <3>1. k + 1 \in 1 .. Len(c) /\ w[k] = c[k + 1] /\ w[k] # Null
      BY <1>2, <2>2, <2>4
    <3>2. w[k + 1] = memory[c[k + 1]].next
      BY <2>3, <3>1
    <3>3. memory[c[k + 1]].next = IF k + 1 = Len(c) THEN Null ELSE c[(k + 1) + 1]
      BY <3>1 DEF IsChain
    <3> QED
      BY <1>2, <3>1, <3>2, <3>3
  <2>5. CASE ~(k < Len(c))
    BY <1>2, <2>2, <2>3, <2>5
  <2> QED
    BY <2>4, <2>5
<1> HIDE DEF S
<1>5. Nat \subseteq S
  BY <1>3, <1>4, NatSet
<1>6. \A k \in 0 .. N : k \in S
  BY <1>1, <1>5
<1> QED
  BY <1>6 DEF S, N, w

\* The height and the contents of a chain.
LEMMA ChainHeight ==
  ASSUME StackConstantsOK, NEW c, NEW first, NEW memory, IsChain(c, first, memory)
  PROVE  LET w == WalkFrom(first, memory)
         IN Cardinality({k \in DOMAIN w : w[k] # Null}) = Len(c)
<1> DEFINE w == WalkFrom(first, memory)
<1>1. DOMAIN w = 0 .. Cardinality(Nodes)
  BY WalkIs DEF StackConstantsOK
<1>2. Len(c) \in Nat /\ Cardinality(Nodes) \in Nat /\ Len(c) <= Cardinality(Nodes)
  BY ChainIsShort
<1>3. \A i \in 1 .. Len(c) : c[i] \in Nodes /\ c[i] # Null
  BY DEF IsChain, StackConstantsOK
<1>4. \A k \in 0 .. Cardinality(Nodes) : w[k] = IF k < Len(c) THEN c[k + 1] ELSE Null
  BY WalkChain
<1> HIDE DEF w
<1>5. {k \in DOMAIN w : w[k] # Null} = 0 .. (Len(c) - 1)
  BY <1>1, <1>2, <1>3, <1>4
<1>6. Cardinality(0 .. (Len(c) - 1)) = Len(c)
  <2>1. 0 \in Int /\ Len(c) - 1 \in Int
    BY <1>2
  <2>2. Cardinality(0 .. (Len(c) - 1)) = IF 0 > Len(c) - 1 THEN 0 ELSE (Len(c) - 1) - 0 + 1
    BY <2>1, FS_Interval
  <2> QED
    BY <1>2, <2>2
<1> QED
  BY <1>5, <1>6 DEF w

ReadChain(c, memory) == [k \in 1 .. Len(c) |-> memory[c[k]].value]

LEMMA ContentsAre ==
  ASSUME StackConstantsOK, NEW c, IsChain(c, top, mem)
  PROVE  Height = Len(c) /\ Contents = ReadChain(c, mem)
<1>1. Height = Len(c)
  BY ChainHeight DEF Height, Walk
<1>2. Len(c) \in Nat /\ Cardinality(Nodes) \in Nat /\ Len(c) <= Cardinality(Nodes)
  BY ChainIsShort
<1>3. \A k \in 1 .. Len(c) : Walk[k - 1] = c[k]
  <2> SUFFICES ASSUME NEW k \in 1 .. Len(c) PROVE Walk[k - 1] = c[k]
    OBVIOUS
  <2>1. k - 1 \in 0 .. Cardinality(Nodes) /\ k - 1 < Len(c) /\ (k - 1) + 1 = k
    BY <1>2
  <2> QED
    BY <2>1, WalkChain DEF Walk
<1> QED
  BY <1>1, <1>3 DEF Contents, ReadChain

LEMMA ContentsAreNext ==
  ASSUME StackConstantsOK, NEW c, IsChain(c, top', mem')
  PROVE  Contents' = ReadChain(c, mem')
<1>1. Height' = Len(c)
  BY ChainHeight DEF Height, Walk
<1>2. Len(c) \in Nat /\ Cardinality(Nodes) \in Nat /\ Len(c) <= Cardinality(Nodes)
  BY ChainIsShort
<1>3. \A k \in 1 .. Len(c) : Walk'[k - 1] = c[k]
  <2> SUFFICES ASSUME NEW k \in 1 .. Len(c) PROVE Walk'[k - 1] = c[k]
    OBVIOUS
  <2>1. k - 1 \in 0 .. Cardinality(Nodes) /\ k - 1 < Len(c) /\ (k - 1) + 1 = k
    BY <1>2
  <2> QED
    BY <2>1, WalkChain DEF Walk
<1> QED
  BY <1>1, <1>3 DEF Contents, ReadChain

-----------------------------------------------------------------------------
(* The steps.                                                                *)

\* The number that a push() gives its value.
LEMMA ValueGiven ==
  ASSUME StackConstantsOK, StackTypes, NEW p \in Users, ops[p] < MaxOps[p]
  PROVE  /\ <<p, ops[p] + 1>> \in Given
         /\ [ops EXCEPT ![p] = @ + 1] \in [Users -> Nat]
         /\ \A q \in Users : [ops EXCEPT ![p] = @ + 1][q] <= MaxOps[q]
<1>1. ops[p] \in Nat /\ MaxOps[p] \in Nat /\ ops[p] + 1 \in 1 .. MaxOps[p]
  BY DEF StackTypes, StackConstantsOK
<1>2. <<p, ops[p] + 1>> \in {p} \X (1 .. MaxOps[p])
  BY <1>1
<1>3. <<p, ops[p] + 1>> \in Given
  BY <1>2 DEF Given
<1> QED
  BY <1>1, <1>3 DEF StackTypes, StackConstantsOK

LEMMA TypesKept ==
  ASSUME StackConstantsOK, StackTypes, [StackNext]_stackVars, NEW c, PopRead(c)
  PROVE  StackTypes'
<1> USE DEF Pushing, Popping, OrNull, At, Goto, history
<1>1. CASE UNCHANGED stackVars
  BY <1>1 DEF StackTypes, stackVars, locals
<1>2. ASSUME NEW p \in Users, PushCall(p) PROVE StackTypes'
  <2>1. PICK a \in Nodes : /\ live' = live \cup {a} /\ node' = [node EXCEPT ![p] = a]
                           /\ mem' = [mem EXCEPT ![a] = [value |-> <<p, ops[p] + 1>>, next |-> Null]]
    BY <1>2 DEF PushCall
  <2>2. /\ ops[p] < MaxOps[p] /\ ops' = [ops EXCEPT ![p] = @ + 1]
        /\ pc' = [pc EXCEPT ![p] = "push_load"] /\ UNCHANGED <<top, old, nxt, stale>>
    BY <1>2 DEF PushCall, Begin
  <2>3. /\ ops' \in [Users -> Nat] /\ \A q \in Users : ops'[q] <= MaxOps[q]
        /\ <<p, ops[p] + 1>> \in Given
    BY <2>2, ValueGiven
  <2>4. mem' \in [Nodes -> [value : Given \cup {None}, next : OrNull]]
    BY <2>1, <2>3 DEF StackTypes
  <2> QED
    BY <2>1, <2>2, <2>3, <2>4 DEF StackTypes
<1>3. ASSUME NEW p \in Users, PopCall(p) PROVE StackTypes'
  <2>1. /\ ops[p] < MaxOps[p] /\ ops' = [ops EXCEPT ![p] = @ + 1]
        /\ pc' = [pc EXCEPT ![p] = "pop_load"] /\ UNCHANGED <<top, mem, live, node, old, nxt, stale>>
    BY <1>3 DEF PopCall, Begin
  <2>2. ops' \in [Users -> Nat] /\ \A q \in Users : ops'[q] <= MaxOps[q]
    BY <2>1, ValueGiven
  <2> QED
    BY <2>1, <2>2 DEF StackTypes
<1>4. ASSUME NEW p \in Users, PushNext(p) PROVE StackTypes'
  <2>1. mem' \in [Nodes -> [value : Given \cup {None}, next : OrNull]]
    BY <1>4, ZenonT(30) DEF StackTypes, PushNext
  <2> QED
    BY <1>4, <2>1 DEF StackTypes, PushNext, locals
<1>5. ASSUME NEW p \in Users, PopNext(p) PROVE StackTypes'
  <2>1. PICK a \in FoundAt(old[p]) : nxt' = [nxt EXCEPT ![p] = a]
    BY <1>5 DEF PopNext
  <2>2. old[p] \in Nodes
    BY <1>5 DEF PopRead, PopNext
  <2>3. a \in OrNull
    BY <2>1, <2>2 DEF FoundAt, StackTypes
  <2>4. nxt' \in [Users -> OrNull]
    BY <2>1, <2>3 DEF StackTypes
  <2> QED
    BY <1>5, <2>4 DEF StackTypes, PopNext
<1>6. ASSUME NEW p \in Users, PushLoad(p) \/ PushCas(p) \/ PushCasFails(p) PROVE StackTypes'
  BY <1>6 DEF StackTypes, PushLoad, PushCas, PushCasFails, locals
<1>7. ASSUME NEW p \in Users, PopLoad(p) \/ PopCas(p) \/ PopDelete(p) PROVE StackTypes'
  <2>1. CASE PopDelete(p)
    BY <1>7, <2>1 DEF StackTypes, PopDelete, Holding, locals
  <2>2. CASE PopLoad(p) \/ PopCas(p)
    BY <2>2 DEF StackTypes, PopLoad, PopCas, LoadTop
  <2> QED
    BY <1>7, <2>1, <2>2
<1> QED
  BY <1>1, <1>2, <1>3, <1>4, <1>5, <1>6, <1>7 DEF StackNext, StackStep

\* What a step does to the contents of the stack.
LifoMoves == [aba' \/ Lifo!Next]_<<Contents, got>>

\* A step that leaves the chain, or one that pops nothing.
LEMMA SameContents ==
  ASSUME StackConstantsOK, NEW c, IsChain(c, top, mem), IsChain(c, top', mem'),
         \A i \in 1 .. Len(c) : mem'[c[i]].value = mem[c[i]].value,
         \/ UNCHANGED got
         \/ \E p \in Users : Len(c) = 0 /\ got' = [got EXCEPT ![p] = None]
  PROVE  LifoMoves
<1>1. Contents = ReadChain(c, mem) /\ Contents' = ReadChain(c, mem')
  BY ContentsAre, ContentsAreNext
<1>2. Contents' = Contents
  BY <1>1 DEF ReadChain
<1>3. CASE UNCHANGED got
  BY <1>2, <1>3 DEF LifoMoves
<1>4. ASSUME NEW p \in Users, Len(c) = 0, got' = [got EXCEPT ![p] = None] PROVE LifoMoves
  <2>1. Contents = <<>>
    BY <1>1, <1>4 DEF ReadChain
  <2>2. Lifo!PopEmpty(p)
    BY <1>2, <1>4, <2>1 DEF Lifo!PopEmpty
  <2> QED
    BY <2>2 DEF LifoMoves, Lifo!Next
<1> QED
  BY <1>3, <1>4

LEMMA PushCallStep ==
  ASSUME StackConstantsOK, StackTypes, NEW c, ChainInv(c), NEW p \in Users, PushCall(p)
  PROVE  ChainInv(c)' /\ LifoMoves
<1>1. PICK a \in Nodes \ live :
        /\ live' = live \cup {a} /\ node' = [node EXCEPT ![p] = a]
        /\ mem' = [mem EXCEPT ![a] = [value |-> <<p, ops[p] + 1>>, next |-> Null]]
  BY DEF PushCall
<1>2. /\ pc[p] = "idle" /\ ops[p] < MaxOps[p] /\ ops' = [ops EXCEPT ![p] = @ + 1]
     
      /\ pc' = [pc EXCEPT ![p] = "push_load"] /\ UNCHANGED <<top, old, nxt, got, stale>>
  BY DEF PushCall, Begin, At, Goto, history
<1>3. /\ IsChain(c, top, mem) /\ On(c) \subseteq live
      /\ PushOwns(c) /\ PopOwns(c) /\ PopRead(c)
  BY DEF ChainInv
<1>4. /\ a \notin On(c) /\ \A i \in 1 .. Len(c) : c[i] \in On(c) /\ c[i] \in Nodes
      /\ \A b \in Nodes \ {a} : mem'[b] = mem[b]
      /\ mem'[a] = [value |-> <<p, ops[p] + 1>>, next |-> Null]
  BY <1>1, <1>3 DEF On, IsChain, StackTypes
<1>5. IsChain(c, top', mem') /\ \A i \in 1 .. Len(c) : mem'[c[i]].value = mem[c[i]].value
  BY <1>2, <1>3, <1>4 DEF IsChain
<1>6. LifoMoves
  BY <1>2, <1>3, <1>5, SameContents
<1>7. /\ pc'[p] = "push_load" /\ node'[p] = a
      /\ \A q \in Users \ {p} : pc'[q] = pc[q] /\ node'[q] = node[q] /\ ops'[q] = ops[q]
  BY <1>1, <1>2 DEF StackTypes
<1>8. On(c) \subseteq live'
  BY <1>1, <1>3
<1>9. PushOwns(c)'
  <2>1. mem'[a].value \in Given
    BY <1>2, <1>4, ValueGiven
  <2>2. ASSUME NEW q \in Users \ {p}, pc[q] \in Pushing
        PROVE  /\ node[q] \in live \ On(c) /\ node[q] # a /\ mem'[node[q]] = mem[node[q]]
    BY <1>1, <1>3, <1>4, <2>2 DEF PushOwns, StackTypes
  <2> QED
    BY <1>1, <1>2, <1>3, <1>4, <1>7, <2>1, <2>2 DEF PushOwns, Pushing
<1>10. PopOwns(c)'
  BY <1>1, <1>2, <1>3, <1>7 DEF PopOwns, Pushing
<1>11. PopRead(c)'
  <2>1. ASSUME NEW q \in Users, pc'[q] \in {"pop_next", "pop_cas"}
        PROVE  q # p /\ pc'[q] = pc[q] /\ old[q] \in Nodes
    BY <1>3, <1>7, <2>1 DEF PopRead
  <2>2. ASSUME NEW q \in Users, pc'[q] \in {"pop_next", "pop_cas"}, q \notin stale
        PROVE  /\ old[q] \in On(c) \/ \E r \in Users : pc'[r] = "pop_delete" /\ old[r] = old[q]
               /\ pc'[q] = "pop_cas" => nxt[q] = mem'[old[q]].next
    <3>1. q # p /\ pc'[q] = pc[q] /\ old[q] \in Nodes
      BY <2>1, <2>2
    <3>2. old[q] \in On(c) \/ \E r \in Users : pc[r] = "pop_delete" /\ old[r] = old[q]
      BY <1>3, <2>2, <3>1 DEF PopRead
    <3>3. old[q] # a
      BY <1>1, <1>3, <1>4, <3>2 DEF PopOwns
    <3>4. old[q] \in On(c) \/ \E r \in Users : pc'[r] = "pop_delete" /\ old[r] = old[q]
      BY <1>2, <1>7, <3>2
    <3> QED
      BY <1>3, <1>4, <2>2, <3>1, <3>3, <3>4 DEF PopRead
  <2> QED
    BY <1>2, <2>1, <2>2 DEF PopRead
<1> QED
  BY <1>5, <1>6, <1>8, <1>9, <1>10, <1>11 DEF ChainInv

LEMMA PopCallStep ==
  ASSUME StackConstantsOK, StackTypes, NEW c, ChainInv(c), NEW p \in Users, PopCall(p)
  PROVE  ChainInv(c)' /\ LifoMoves
<1>1. /\ pc[p] = "idle" /\ ops[p] < MaxOps[p] /\ ops' = [ops EXCEPT ![p] = @ + 1]
      /\ pc' = [pc EXCEPT ![p] = "pop_load"] /\ UNCHANGED <<top, mem, live, node, old, nxt, got, stale>>
  BY DEF PopCall, Begin, At, Goto, history
<1>2. /\ IsChain(c, top, mem) /\ On(c) \subseteq live
      /\ PushOwns(c) /\ PopOwns(c) /\ PopRead(c)
  BY DEF ChainInv
<1>3. IsChain(c, top', mem') /\ On(c) \subseteq live' /\ LifoMoves
  BY <1>1, <1>2, SameContents
<1>4. pc'[p] = "pop_load" /\ \A q \in Users \ {p} : pc'[q] = pc[q] /\ ops'[q] = ops[q]
  BY <1>1 DEF StackTypes
<1>5. PushOwns(c)' /\ PopOwns(c)' /\ PopRead(c)'
  BY <1>1, <1>2, <1>4 DEF PushOwns, PopOwns, PopRead, Pushing
<1> QED
  BY <1>2, <1>3, <1>5 DEF ChainInv

\* push() loads the top, at first or because its exchange has failed.
LEMMA PushLoadStep ==
  ASSUME StackConstantsOK, StackTypes, NEW c, ChainInv(c), NEW p \in Users,
         PushLoad(p) \/ PushCasFails(p)
  PROVE  ChainInv(c)' /\ LifoMoves
<1>1. /\ pc[p] \in {"push_load", "push_cas"} /\ pc' = [pc EXCEPT ![p] = "push_next"]
      /\ old' = [old EXCEPT ![p] = top] /\ UNCHANGED <<top, mem, live, node, nxt, got, ops, stale>>
  BY DEF PushLoad, PushCasFails, At, Goto, history
<1>2. /\ IsChain(c, top, mem) /\ On(c) \subseteq live
      /\ PushOwns(c) /\ PopOwns(c) /\ PopRead(c)
  BY DEF ChainInv
<1>3. IsChain(c, top', mem') /\ On(c) \subseteq live' /\ LifoMoves
  BY <1>1, <1>2, SameContents
<1>4. pc'[p] = "push_next" /\ \A q \in Users \ {p} : pc'[q] = pc[q] /\ old'[q] = old[q]
  BY <1>1 DEF StackTypes
<1>5. PushOwns(c)' /\ PopOwns(c)' /\ PopRead(c)'
  BY <1>1, <1>2, <1>4 DEF PushOwns, PopOwns, PopRead, Pushing
<1> QED
  BY <1>2, <1>3, <1>5 DEF ChainInv

LEMMA PushNextStep ==
  ASSUME StackConstantsOK, StackTypes, NEW c, ChainInv(c), NEW p \in Users, PushNext(p)
  PROVE  ChainInv(c)' /\ LifoMoves
<1>1. /\ pc[p] = "push_next" /\ pc' = [pc EXCEPT ![p] = "push_cas"]
      /\ mem' = [mem EXCEPT ![node[p]].next = old[p]]
      /\ UNCHANGED <<top, live, node, old, nxt, got, ops, stale>>
  BY DEF PushNext, At, Goto, locals, history
<1>2. /\ IsChain(c, top, mem) /\ On(c) \subseteq live
      /\ PushOwns(c) /\ PopOwns(c) /\ PopRead(c)
  BY DEF ChainInv
<1>3. node[p] \in live \ On(c) /\ node[p] \in Nodes
  BY <1>1, <1>2 DEF PushOwns, Pushing, StackTypes
<1>4. /\ \A b \in Nodes \ {node[p]} : mem'[b] = mem[b]
      /\ mem'[node[p]].next = old[p] /\ mem'[node[p]].value = mem[node[p]].value
      /\ \A i \in 1 .. Len(c) : c[i] \in Nodes /\ c[i] \in On(c)
  BY <1>1, <1>2, <1>3 DEF StackTypes, IsChain, On
<1>5. IsChain(c, top', mem') /\ \A i \in 1 .. Len(c) : mem'[c[i]].value = mem[c[i]].value
  BY <1>1, <1>2, <1>3, <1>4 DEF IsChain
<1>6. LifoMoves
  BY <1>1, <1>2, <1>5, SameContents
<1>7. pc'[p] = "push_cas" /\ \A q \in Users \ {p} : pc'[q] = pc[q]
  BY <1>1 DEF StackTypes
<1>8. PushOwns(c)'
  <2>1. ASSUME NEW q \in Users \ {p}, pc[q] \in Pushing PROVE node[q] # node[p] /\ node[q] \in Nodes
    BY <1>1, <1>2, <2>1 DEF PushOwns, Pushing, StackTypes
  <2> QED
    BY <1>1, <1>2, <1>4, <1>7, <2>1 DEF PushOwns, Pushing
<1>9. PopOwns(c)'
  BY <1>1, <1>2, <1>7 DEF PopOwns, Pushing
<1>10. PopRead(c)'
  <2>1. ASSUME NEW q \in Users, pc[q] \in {"pop_next", "pop_cas"}, q \notin stale
        PROVE  old[q] # node[p]
    BY <1>1, <1>2, <1>3, <2>1 DEF PopRead, PopOwns, Pushing
  <2> QED
    BY <1>1, <1>2, <1>4, <1>7, <2>1 DEF PopRead
<1> QED
  BY <1>1, <1>2, <1>5, <1>6, <1>8, <1>9, <1>10 DEF ChainInv

\* d is c with one more element before it.
Front(d, a, c) ==
  /\ d = <<a>> \o c /\ Len(c) \in Nat /\ Len(d) = Len(c) + 1 /\ d[1] = a
  /\ \A i \in 1 .. Len(c) : d[i + 1] = c[i]

LEMMA FrontIs ==
  ASSUME NEW S, NEW a \in S, NEW c \in Seq(S)
  PROVE  \E d \in Seq(S) : Front(d, a, c)
<1> DEFINE d == <<a>> \o c
<1>1. <<a>> \in Seq(S) /\ Len(<<a>>) = 1 /\ <<a>>[1] = a /\ Len(c) \in Nat
  BY LenProperties
<1>2. /\ d \in Seq(S) /\ Len(d) = 1 + Len(c)
      /\ \A i \in 1 .. (1 + Len(c)) : d[i] = IF i <= 1 THEN <<a>>[i] ELSE c[i - 1]
  BY <1>1, ConcatProperties
<1> HIDE DEF d
<1>3. d[1] = a
  BY <1>1, <1>2
<1>4. ASSUME NEW i \in 1 .. Len(c) PROVE d[i + 1] = c[i]
  <2>1. i + 1 \in 1 .. (1 + Len(c)) /\ ~(i + 1 <= 1) /\ (i + 1) - 1 = i
    BY <1>1
  <2> QED
    BY <1>2, <2>1
<1>5. Front(d, a, c)
  BY <1>1, <1>2, <1>3, <1>4 DEF d, Front
<1> QED
  BY <1>2, <1>5

ValuesIn(memory) == {memory[b].value : b \in Nodes}

LEMMA ReadIsSeq ==
  ASSUME NEW c \in Seq(Nodes), NEW memory
  PROVE  /\ ReadChain(c, memory) \in Seq(ValuesIn(memory))
         /\ Len(ReadChain(c, memory)) = Len(c)
         /\ \A i \in 1 .. Len(c) : ReadChain(c, memory)[i] = memory[c[i]].value
<1> USE DEF ValuesIn
<1>1. Len(c) \in Nat /\ \A i \in 1 .. Len(c) : c[i] \in Nodes
  BY LenProperties
<1> QED
  BY <1>1 DEF ReadChain

LEMMA PushCasStep ==
  ASSUME StackConstantsOK, StackTypes, NEW c \in Seq(Nodes), ChainInv(c), NEW p \in Users, PushCas(p)
  PROVE  (\E d \in Seq(Nodes) : ChainInv(d)') /\ LifoMoves
<1>1. /\ pc[p] = "push_cas" /\ pc' = [pc EXCEPT ![p] = "idle"] /\ top = old[p] /\ top' = node[p]
      /\ UNCHANGED <<mem, live, node, old, nxt, got, ops, stale>>
  BY DEF PushCas, At, Goto, locals, Same, history
<1>2. /\ IsChain(c, top, mem) /\ On(c) \subseteq live
      /\ PushOwns(c) /\ PopOwns(c) /\ PopRead(c)
  BY DEF ChainInv
<1>3. PICK a \in Nodes : a = node[p]
  BY <1>1, <1>2 DEF PushOwns, Pushing, StackTypes
<1>4. /\ a \in live \ On(c) /\ mem[a].value \in Given /\ mem[a].next = top
      /\ \A q \in Users \ {p} : pc[q] \in Pushing => node[q] # a
     
  BY <1>1, <1>2, <1>3 DEF PushOwns, Pushing
<1>18. PICK d \in Seq(Nodes) : Front(d, a, c)
  BY FrontIs
<1>5. /\ d = <<a>> \o c /\ Len(d) = Len(c) + 1 /\ Len(c) \in Nat /\ d[1] = a
      /\ \A i \in 1 .. Len(c) : d[i + 1] = c[i]
  BY <1>18 DEF Front
<1>6. ASSUME NEW i \in 2 .. Len(d) PROVE i - 1 \in 1 .. Len(c) /\ d[i] = c[i - 1]
  <2>1. i - 1 \in 1 .. Len(c) /\ (i - 1) + 1 = i
    BY <1>5
  <2> QED
    BY <1>5, <2>1
<1>7. On(d) = {a} \cup On(c)
  <2>1. \A i \in 1 .. Len(d) : i = 1 \/ i \in 2 .. Len(d)
    BY <1>5
  <2>2. \A i \in 1 .. Len(c) : i + 1 \in 1 .. Len(d)
    BY <1>5
  <2>3. 1 \in 1 .. Len(d)
    BY <1>5
  <2> QED
    BY <1>5, <1>6, <2>1, <2>2, <2>3 DEF On
<1>8. IsChain(d, top', mem')
  <2>1. \A i, j \in 1 .. Len(d) : d[i] = d[j] => i = j
    <3>1. \A i \in 2 .. Len(d) : d[i] # a
      BY <1>4, <1>6 DEF On
    <3>2. ASSUME NEW i \in 2 .. Len(d), NEW j \in 2 .. Len(d), d[i] = d[j] PROVE i = j
      <4>1. /\ i - 1 \in 1 .. Len(c) /\ d[i] = c[i - 1]
            /\ j - 1 \in 1 .. Len(c) /\ d[j] = c[j - 1]
        BY <1>6
      <4>2. i - 1 = j - 1
        BY <1>2, <3>2, <4>1 DEF IsChain
      <4> QED
        BY <4>2
    <3>3. ASSUME NEW i \in 1 .. Len(d), NEW j \in 1 .. Len(d), d[i] = d[j] PROVE i = j
      <4>1. (i = 1 \/ i \in 2 .. Len(d)) /\ (j = 1 \/ j \in 2 .. Len(d))
        BY <1>5
      <4>2. d[1] = a
        BY <1>5
      <4> QED
        BY <3>1, <3>2, <3>3, <4>1, <4>2
    <3> QED
      BY <3>3
  <2>2. mem'[d[1]].next = IF 1 = Len(d) THEN Null ELSE d[1 + 1]
    <3>1. CASE Len(c) = 0
      BY <1>1, <1>2, <1>4, <1>5, <3>1 DEF IsChain
    <3>2. CASE Len(c) # 0
      <4>1. 1 \in 1 .. Len(c) /\ 1 # Len(d)
        BY <1>5, <3>2
      <4> QED
        BY <1>1, <1>2, <1>4, <1>5, <3>2, <4>1 DEF IsChain
    <3> QED
      BY <3>1, <3>2
  <2>3. ASSUME NEW i \in 2 .. Len(d)
        PROVE  mem'[d[i]].next = IF i = Len(d) THEN Null ELSE d[i + 1]
    <3>1. i - 1 \in 1 .. Len(c) /\ d[i] = c[i - 1]
      BY <1>6
    <3>2. mem[c[i - 1]].next = IF i - 1 = Len(c) THEN Null ELSE c[(i - 1) + 1]
      BY <1>2, <3>1 DEF IsChain
    <3>3. i - 1 = Len(c) <=> i = Len(d)
      BY <1>5, <3>1
    <3>4. i # Len(d) => i \in 1 .. Len(c) /\ d[i + 1] = c[i] /\ (i - 1) + 1 = i
      BY <1>5
    <3> QED
      BY <1>1, <3>1, <3>2, <3>3, <3>4
  <2>4. \A i \in 1 .. Len(d) : i = 1 \/ i \in 2 .. Len(d)
    BY <1>5
  <2>5. \A i \in 1 .. Len(d) : mem'[d[i]].next = IF i = Len(d) THEN Null ELSE d[i + 1]
    BY <2>2, <2>3, <2>4
  <2>6. top' = d[1] /\ Len(d) # 0
    BY <1>1, <1>3, <1>5
  <2> QED
    BY <2>1, <2>5, <2>6 DEF IsChain
<1>9. LifoMoves
  <2>1. Contents = ReadChain(c, mem) /\ Contents' = ReadChain(d, mem')
    BY <1>2, <1>8, ContentsAre, ContentsAreNext
  <2>2. ReadChain(d, mem') = <<mem[a].value>> \o ReadChain(c, mem)
    <3> DEFINE V == ValuesIn(mem)
    <3> DEFINE x == ReadChain(d, mem)
    <3> DEFINE z == ReadChain(c, mem)
    <3>1. /\ x \in Seq(V) /\ Len(x) = Len(d) /\ z \in Seq(V) /\ Len(z) = Len(c)
          /\ \A i \in 1 .. Len(d) : x[i] = mem[d[i]].value
          /\ \A i \in 1 .. Len(c) : z[i] = mem[c[i]].value
      BY ReadIsSeq
    <3>2. mem[a].value \in V
      BY DEF ValuesIn
    <3> HIDE DEF V, x, z
    <3>6. PICK y \in Seq(V) : Front(y, mem[a].value, z)
      BY <3>1, <3>2, FrontIs
    <3>3. /\ y = <<mem[a].value>> \o z /\ Len(y) = Len(z) + 1 /\ y[1] = mem[a].value
          /\ \A i \in 1 .. Len(z) : y[i + 1] = z[i]
      BY <3>6 DEF Front
    <3>4. ASSUME NEW i \in 1 .. Len(x) PROVE x[i] = y[i]
      <4>1. CASE i = 1
        BY <1>5, <3>1, <3>3, <4>1
      <4>2. CASE i # 1
        <5>1. i \in 2 .. Len(d) /\ (i - 1) + 1 = i
          BY <1>5, <3>1, <4>2
        <5>2. i - 1 \in 1 .. Len(c) /\ d[i] = c[i - 1]
          BY <1>6, <5>1
        <5>3. y[(i - 1) + 1] = z[i - 1] /\ z[i - 1] = mem[c[i - 1]].value
          BY <3>1, <3>3, <5>2
        <5> QED
          BY <3>1, <5>1, <5>2, <5>3
      <4> QED
        BY <4>1, <4>2
    <3>5. x = y
      <4>1. Len(x) = Len(y)
        BY <1>5, <3>1, <3>3
      <4> QED
        BY <3>1, <3>4, <4>1, SeqEqual
    <3> QED
      BY <1>1, <3>3, <3>5 DEF x, z
  <2>3. Lifo!Push(mem[a].value)
    BY <1>1, <2>1, <2>2 DEF Lifo!Push
  <2> QED
    BY <1>4, <2>3 DEF LifoMoves, Lifo!Next
<1>10. pc'[p] = "idle" /\ \A q \in Users \ {p} : pc'[q] = pc[q]
  BY <1>1 DEF StackTypes
<1>11. On(d) \subseteq live'
  BY <1>1, <1>2, <1>4, <1>7
<1>12. PushOwns(d)'
  BY <1>1, <1>2, <1>4, <1>7, <1>10 DEF PushOwns, Pushing
<1>13. PopOwns(d)'
  <2>1. \A q \in Users : pc[q] = "pop_delete" => old[q] # a
    BY <1>1, <1>2, <1>3 DEF PopOwns, Pushing
  <2> QED
    BY <1>1, <1>2, <1>7, <1>10, <2>1 DEF PopOwns, Pushing
<1>14. PopRead(d)'
  BY <1>1, <1>2, <1>7, <1>10 DEF PopRead
<1>16. ChainInv(d)'
  BY <1>8, <1>11, <1>12, <1>13, <1>14 DEF ChainInv
<1> QED
  BY <1>9, <1>16

\* pop() loads the top, at first or because its exchange has failed.
PopLoads(p) ==
  /\ pc[p] \in {"pop_load", "pop_cas"} /\ LoadTop(p)
  /\ UNCHANGED <<top, mem, live, node, nxt, ops, aba>>

LEMMA PopLoadKept ==
  ASSUME StackConstantsOK, StackTypes, NEW c, ChainInv(c), NEW p \in Users, PopLoads(p)
  PROVE  ChainInv(c)' /\ LifoMoves
<1>1. PICK l \in {"idle", "pop_next"} :
        /\ pc' = [pc EXCEPT ![p] = l] /\ old' = [old EXCEPT ![p] = top]
        /\ stale' = stale \ {p}
        /\ l = "pop_next" => top # Null /\ UNCHANGED got
        /\ l = "idle" => top = Null /\ got' = [got EXCEPT ![p] = None]
  BY DEF PopLoads, LoadTop, Goto
<1>2. /\ IsChain(c, top, mem) /\ On(c) \subseteq live
      /\ PushOwns(c) /\ PopOwns(c) /\ PopRead(c)
  BY DEF ChainInv
<1>3. pc[p] \in {"pop_load", "pop_cas"} /\ UNCHANGED <<top, mem, live, node, nxt, ops>>
  BY DEF PopLoads
<1>4. /\ Len(c) \in Nat /\ (Len(c) = 0 => top = Null)
      /\ Len(c) # 0 => top = c[1] /\ top # Null /\ top \in Nodes /\ top \in On(c)
  BY <1>2 DEF IsChain, On, StackConstantsOK
<1>5. IsChain(c, top', mem') /\ On(c) \subseteq live'
  BY <1>2, <1>3
<1>6. LifoMoves
  <2>1. CASE l = "pop_next"
    BY <1>1, <1>2, <1>3, <1>5, <2>1, SameContents
  <2>2. CASE l = "idle"
    <3>1. Len(c) = 0 /\ got' = [got EXCEPT ![p] = None]
      BY <1>1, <1>4, <2>2
    <3> QED
      BY <1>2, <1>3, <1>5, <3>1, SameContents
  <2> QED
    BY <2>1, <2>2
<1>7. pc'[p] = l /\ old'[p] = top /\ \A q \in Users \ {p} : pc'[q] = pc[q] /\ old'[q] = old[q]
  BY <1>1 DEF StackTypes
<1>8. l = "pop_next" => top \in On(c) /\ top \in Nodes
  BY <1>1, <1>4
<1>9. PushOwns(c)'
  BY <1>2, <1>3, <1>7 DEF PushOwns, Pushing
<1>10. PopOwns(c)'
  BY <1>2, <1>3, <1>7 DEF PopOwns, Pushing
<1>11. PopRead(c)'
  <2>1. ASSUME NEW q \in Users \ {p}, pc'[q] \in {"pop_next", "pop_cas"}, q \notin stale'
        PROVE  old'[q] \in On(c) \/ \E r \in Users : pc'[r] = "pop_delete" /\ old'[r] = old'[q]
    <3>1. pc[q] \in {"pop_next", "pop_cas"} /\ q \notin stale /\ old'[q] = old[q]
      BY <1>1, <1>7, <2>1
    <3>2. CASE old[q] \in On(c)
      BY <3>1, <3>2
    <3>3. ASSUME NEW r \in Users, pc[r] = "pop_delete", old[r] = old[q]
          PROVE  pc'[r] = "pop_delete" /\ old'[r] = old'[q]
      BY <1>3, <1>7, <3>1, <3>3
    <3> QED
      BY <1>2, <3>1, <3>2, <3>3 DEF PopRead
  <2>2. ASSUME NEW q \in Users \ {p}, pc'[q] \in {"pop_next", "pop_cas"}
        PROVE  /\ old'[q] \in Nodes
               /\ q \notin stale' /\ pc'[q] = "pop_cas" => nxt'[q] = mem'[old'[q]].next
    BY <1>1, <1>2, <1>3, <1>7, <2>2 DEF PopRead
  <2>3. pc'[p] \in {"pop_next", "pop_cas"} =>
          old'[p] \in Nodes /\ old'[p] \in On(c) /\ pc'[p] # "pop_cas"
    BY <1>7, <1>8
  <2> QED
    BY <2>1, <2>2, <2>3 DEF PopRead
<1> QED
  BY <1>5, <1>6, <1>9, <1>10, <1>11 DEF ChainInv

LEMMA PopNextStep ==
  ASSUME StackConstantsOK, StackTypes, NEW c, ChainInv(c), NEW p \in Users, PopNext(p)
  PROVE  ChainInv(c)' /\ LifoMoves
<1>1. PICK a \in FoundAt(old[p]) :
        /\ pc[p] = "pop_next" /\ pc' = [pc EXCEPT ![p] = "pop_cas"]
        /\ nxt' = [nxt EXCEPT ![p] = a]
        /\ UNCHANGED <<top, mem, live, node, old, got, ops, stale>>
  BY DEF PopNext, At, Goto, history
<1>2. /\ IsChain(c, top, mem) /\ On(c) \subseteq live
      /\ PushOwns(c) /\ PopOwns(c) /\ PopRead(c)
  BY DEF ChainInv
<1>3. IsChain(c, top', mem') /\ On(c) \subseteq live' /\ LifoMoves
  BY <1>1, <1>2, SameContents
<1>4. /\ pc'[p] = "pop_cas" /\ nxt'[p] = a
      /\ \A q \in Users \ {p} : pc'[q] = pc[q] /\ nxt'[q] = nxt[q]
  BY <1>1 DEF StackTypes
<1>5. p \notin stale => a = mem[old[p]].next
  BY <1>1, <1>2 DEF PopRead, PopOwns, FoundAt
<1>6. PushOwns(c)' /\ PopOwns(c)'
  BY <1>1, <1>2, <1>4 DEF PushOwns, PopOwns, Pushing
<1>7. PopRead(c)'
  BY <1>1, <1>2, <1>4, <1>5 DEF PopRead
<1> QED
  BY <1>3, <1>6, <1>7 DEF ChainInv

LEMMA PopDeleteStep ==
  ASSUME StackConstantsOK, StackTypes, NEW c, ChainInv(c), NEW p \in Users, PopDelete(p)
  PROVE  ChainInv(c)' /\ LifoMoves
<1>1. /\ pc[p] = "pop_delete" /\ pc' = [pc EXCEPT ![p] = "idle"] /\ live' = live \ {old[p]}
      /\ stale' = stale \cup Holding(p)
      /\ UNCHANGED <<top, mem, node, old, nxt, got, ops>>
  BY DEF PopDelete, At, Goto, locals
<1>2. /\ IsChain(c, top, mem) /\ On(c) \subseteq live
      /\ PushOwns(c) /\ PopOwns(c) /\ PopRead(c)
  BY DEF ChainInv
<1>3. /\ old[p] \notin On(c)
      /\ \A q \in Users : pc[q] \in Pushing => node[q] # old[p]
      /\ \A q \in Users \ {p} : pc[q] = "pop_delete" => old[q] # old[p]
  BY <1>1, <1>2 DEF PopOwns
<1>4. IsChain(c, top', mem') /\ On(c) \subseteq live' /\ LifoMoves
  BY <1>1, <1>2, <1>3, SameContents
<1>5. pc'[p] = "idle" /\ \A q \in Users \ {p} : pc'[q] = pc[q]
  BY <1>1 DEF StackTypes
<1>6. PushOwns(c)' /\ PopOwns(c)'
  BY <1>1, <1>2, <1>3, <1>5 DEF PushOwns, PopOwns, Pushing
<1>7. PopRead(c)'
  <2>1. ASSUME NEW q \in Users, pc[q] \in {"pop_next", "pop_cas"}, q \notin stale'
        PROVE  q \notin stale /\ old[q] # old[p]
    BY <1>1, <2>1 DEF Holding, At
  <2> QED
    BY <1>1, <1>2, <1>5, <2>1 DEF PopRead
<1> QED
  BY <1>2, <1>4, <1>6, <1>7 DEF ChainInv

\* d is c without its first element.
Rest(d, c) ==
  /\ d = Tail(c) /\ Len(c) \in Nat /\ Len(d) = Len(c) - 1
  /\ \A i \in 1 .. Len(d) : d[i] = c[i + 1]

LEMMA RestIs ==
  ASSUME NEW S, NEW c \in Seq(S), Len(c) # 0
  PROVE  \E d \in Seq(S) : Rest(d, c)
<1>1. Len(c) \in Nat /\ c # <<>>
  BY LenProperties
<1> QED
  BY <1>1, HeadTailProperties DEF Rest

\* The exchange of pop() succeeds.
PopTakes(p) ==
  /\ pc[p] = "pop_cas" /\ top = old[p] /\ top' = nxt[p]
  /\ got' = [got EXCEPT ![p] = mem[old[p]].value]
  /\ pc' = [pc EXCEPT ![p] = "pop_delete"]
  /\ p \notin stale /\ stale' = stale \ {p}
  /\ UNCHANGED <<mem, live, node, old, nxt, ops>>

LEMMA PopTakesKept ==
  ASSUME StackConstantsOK, StackTypes, NEW c \in Seq(Nodes), ChainInv(c), NEW p \in Users, PopTakes(p)
  PROVE  (\E d \in Seq(Nodes) : ChainInv(d)') /\ LifoMoves
<1>1. /\ pc[p] = "pop_cas" /\ pc' = [pc EXCEPT ![p] = "pop_delete"] /\ top = old[p] /\ top' = nxt[p]
      /\ got' = [got EXCEPT ![p] = mem[old[p]].value]
      /\ p \notin stale /\ stale' = stale
      /\ UNCHANGED <<mem, live, node, old, nxt, ops>>
  BY DEF PopTakes
<1>2. /\ IsChain(c, top, mem) /\ On(c) \subseteq live
      /\ PushOwns(c) /\ PopOwns(c) /\ PopRead(c)
  BY DEF ChainInv
<1>3. PICK a \in Nodes : a = old[p]
  BY <1>1, <1>2 DEF PopRead
<1>4. /\ Len(c) \in Nat /\ Len(c) # 0 /\ c[1] = a /\ 1 \in 1 .. Len(c) /\ a \in On(c)
      /\ nxt[p] = mem[a].next
  <2>1. a # Null /\ top = a
    BY <1>1, <1>3 DEF StackConstantsOK
  <2>2. Len(c) \in Nat /\ Len(c) # 0 /\ c[1] = a
    BY <1>2, <2>1 DEF IsChain
  <2>3. 1 \in 1 .. Len(c) /\ a \in On(c)
    BY <2>2 DEF On
  <2> QED
    BY <1>1, <1>2, <1>3, <2>2, <2>3 DEF PopRead
<1>5. PICK d \in Seq(Nodes) : Rest(d, c)
  BY <1>4, RestIs
<1>6. /\ d = Tail(c) /\ Len(d) = Len(c) - 1 /\ Len(d) \in Nat
      /\ \A i \in 1 .. Len(d) : d[i] = c[i + 1] /\ i + 1 \in 1 .. Len(c) /\ i + 1 # 1
  BY <1>4, <1>5 DEF Rest
<1>7. On(d) \subseteq On(c) /\ a \notin On(d)
  <2>1. \A i \in 1 .. Len(d) : d[i] \in On(c) /\ d[i] # a
    BY <1>2, <1>4, <1>6 DEF On, IsChain
  <2> QED
    BY <2>1 DEF On
<1>8. IsChain(d, top', mem')
  <2>1. ASSUME NEW i \in 1 .. Len(d), NEW j \in 1 .. Len(d), d[i] = d[j] PROVE i = j
    <3>1. i + 1 = j + 1
      BY <1>2, <1>6, <2>1, ZenonT(30) DEF IsChain
    <3> QED
      BY <3>1
  <2>2. ASSUME NEW i \in 1 .. Len(d)
        PROVE  mem[d[i]].next = IF i = Len(d) THEN Null ELSE d[i + 1]
    <3>1. mem[c[i + 1]].next = IF i + 1 = Len(c) THEN Null ELSE c[(i + 1) + 1]
      BY <1>2, <1>6 DEF IsChain
    <3>2. ASSUME i # Len(d) PROVE d[i + 1] = c[(i + 1) + 1]
      <4>1. Len(d) \in Nat
        BY <1>6
      <4>2. i + 1 \in 1 .. Len(d)
        BY <3>2, <4>1
      <4> QED
        BY <1>6, <4>2
    <3>3. d[i] = c[i + 1] /\ (i + 1 = Len(c) <=> i = Len(d))
      BY <1>4, <1>6
    <3> QED
      BY <3>1, <3>2, <3>3
  <2>3. top' = IF Len(d) = 0 THEN Null ELSE d[1]
    <3>1. mem[c[1]].next = IF 1 = Len(c) THEN Null ELSE c[1 + 1]
      BY <1>2, <1>4 DEF IsChain
    <3>2. Len(d) # 0 => 1 \in 1 .. Len(d) /\ d[1] = c[1 + 1]
      BY <1>6
    <3> QED
      BY <1>1, <1>4, <1>6, <3>1, <3>2
  <2> QED
    BY <1>1, <2>1, <2>2, <2>3 DEF IsChain
<1>9. LifoMoves
  <2> DEFINE x == ReadChain(c, mem)
  <2> DEFINE y == ReadChain(d, mem)
  <2> DEFINE V == ValuesIn(mem)
  <2>1. Contents = x /\ Contents' = y
    BY <1>1, <1>2, <1>8, ContentsAre, ContentsAreNext
  <2>2. /\ x \in Seq(V) /\ Len(x) = Len(c) /\ y \in Seq(V) /\ Len(y) = Len(d)
        /\ \A i \in 1 .. Len(c) : x[i] = mem[c[i]].value
        /\ \A i \in 1 .. Len(d) : y[i] = mem[d[i]].value
    BY ReadIsSeq
  <2> HIDE DEF x, y, V
  <2>3. PICK z \in Seq(V) : Rest(z, x)
    BY <1>4, <2>2, RestIs
  <2>4. z = Tail(x) /\ Len(z) = Len(c) - 1 /\ \A i \in 1 .. Len(z) : z[i] = x[i + 1]
    BY <2>2, <2>3 DEF Rest
  <2>5. \A i \in 1 .. Len(y) : y[i] = z[i]
    BY <1>6, <2>2, <2>4, SMTT(30)
  <2>6. Len(y) = Len(z)
    BY <1>6, <2>2, <2>4
  <2>7. y = Tail(x)
    BY <2>2, <2>4, <2>5, <2>6, SeqEqual
  <2>8. x # <<>> /\ Head(x) = mem[a].value
    BY <1>4, <2>2
  <2>9. Lifo!Pop(p)
    BY <1>1, <1>3, <2>1, <2>7, <2>8 DEF Lifo!Pop
  <2> QED
    BY <2>9 DEF LifoMoves, Lifo!Next
<1>10. pc'[p] = "pop_delete" /\ \A q \in Users \ {p} : pc'[q] = pc[q]
  BY <1>1 DEF StackTypes
<1>11. On(d) \subseteq live'
  BY <1>1, <1>2, <1>7
<1>12. PushOwns(d)'
  BY <1>1, <1>2, <1>7, <1>10 DEF PushOwns, Pushing
<1>13. PopOwns(d)'
  <2>1. a \in live
    BY <1>2, <1>4
  <2>2. \A q \in Users : /\ pc[q] \in Pushing => node[q] # a
                         /\ pc[q] = "pop_delete" => old[q] # a
    BY <1>2, <1>4 DEF PushOwns, PopOwns
  <2> QED
    BY <1>1, <1>2, <1>3, <1>7, <1>10, <2>1, <2>2 DEF PopOwns, Pushing
<1>14. PopRead(d)'
  <2>1. \A b \in On(c) : b \in On(d) \/ b = old[p]
    <3>1. ASSUME NEW i \in 1 .. Len(c), i # 1 PROVE c[i] \in On(d)
      <4>1. i - 1 \in 1 .. Len(d) /\ (i - 1) + 1 = i
        BY <1>4, <1>6, <3>1
      <4> QED
        BY <1>6, <4>1 DEF On
    <3> QED
      BY <1>3, <1>4, <3>1 DEF On
  <2>2. pc'[p] = "pop_delete" /\ old' = old
    BY <1>1, <1>10
  <2>3. ASSUME NEW q \in Users, pc[q] = "pop_delete" PROVE pc'[q] = "pop_delete"
    BY <1>1, <1>10, <2>3
  <2> QED
    BY <1>1, <1>2, <1>10, <2>1, <2>2, <2>3 DEF PopRead
<1>16. ChainInv(d)'
  BY <1>8, <1>11, <1>12, <1>13, <1>14 DEF ChainInv
<1> QED
  BY <1>9, <1>16

-----------------------------------------------------------------------------
(* The theorems.                                                             *)

LEMMA StackBegins ==
  ASSUME StackConstantsOK, StackInit
  PROVE  StackInv /\ Lifo!Init
<1> DEFINE c == <<>>
<1>1. c \in Seq(Nodes) /\ Len(c) = 0 /\ 1 .. Len(c) = {}
  OBVIOUS
<1> HIDE DEF c
<1>2. IsChain(c, top, mem) /\ On(c) = {}
  BY <1>1 DEF IsChain, On, StackInit
<1>3. StackTypes
  BY DEF StackInit, StackTypes, OrNull, StackConstantsOK
<1>4. \A p \in Users : pc[p] = "idle"
  BY DEF StackInit
<1>5. ChainInv(c)
  BY <1>2, <1>4 DEF ChainInv, PushOwns, PopOwns, PopRead, Pushing, Popping
<1>6. Contents = <<>>
  <2>1. Contents = ReadChain(c, mem)
    BY <1>2, ContentsAre
  <2> QED
    BY <1>1, <2>1 DEF ReadChain
<1> QED
  BY <1>1, <1>3, <1>5, <1>6 DEF StackInv, Lifo!Init, StackInit

\* What was exchanged twice stays so.
LEMMA AbaStays ==
  ASSUME aba, [StackNext]_stackVars
  PROVE  aba'
<1> USE DEF history
<1>1. CASE UNCHANGED stackVars
  BY <1>1 DEF stackVars
<1>2. ASSUME NEW p \in Users, PushCall(p) \/ PopCall(p) PROVE aba'
  BY <1>2 DEF PushCall, PopCall
<1>3. ASSUME NEW p \in Users, StackStep(p) PROVE aba'
  BY <1>3 DEF StackStep, PushLoad, PushNext, PushCas, PushCasFails, PopLoad, PopNext, PopCas,
              PopDelete
<1> QED
  BY <1>1, <1>2, <1>3 DEF StackNext

LEMMA StackKeeps ==
  ASSUME StackConstantsOK, StackInv, [StackNext]_stackVars
  PROVE  StackInv' /\ LifoMoves
<1> SUFFICES ASSUME ~aba, ~aba' PROVE StackInv' /\ LifoMoves
  BY AbaStays DEF StackInv, LifoMoves
<1>1. PICK c \in Seq(Nodes) : ChainInv(c)
  BY DEF StackInv
<1>2. StackTypes /\ PopRead(c) /\ IsChain(c, top, mem)
  BY <1>1 DEF StackInv, ChainInv
<1>3. StackTypes'
  BY <1>2, TypesKept
<1>4. CASE UNCHANGED stackVars
  <2>1. UNCHANGED <<top, mem, live, pc, node, old, nxt, got, ops, stale>>
    BY <1>4 DEF stackVars, locals, history
  <2>2. IsChain(c, top', mem')
    BY <1>2, <2>1
  <2>3. LifoMoves
    BY <1>2, <2>1, <2>2, SameContents
  <2>4. ChainInv(c)'
    BY <1>1, <2>1, <2>2 DEF ChainInv, PushOwns, PopOwns, PopRead
  <2> QED
    BY <1>3, <2>3, <2>4 DEF StackInv
<1>5. ASSUME NEW p \in Users, PushCall(p) \/ PopCall(p) \/ StackStep(p)
      PROVE  (\E d \in Seq(Nodes) : ChainInv(d)') /\ LifoMoves
  <2>1. CASE PushCall(p)
    BY <1>1, <1>2, <2>1, PushCallStep
  <2>2. CASE PopCall(p)
    BY <1>1, <1>2, <2>2, PopCallStep
  <2>3. CASE PushLoad(p) \/ PushCasFails(p)
    BY <1>1, <1>2, <2>3, PushLoadStep
  <2>4. CASE PushNext(p)
    BY <1>1, <1>2, <2>4, PushNextStep
  <2>5. CASE PushCas(p)
    BY <1>1, <1>2, <2>5, PushCasStep
  <2>6. CASE PopLoad(p)
    <3>1. PopLoads(p)
      BY <2>6 DEF PopLoad, PopLoads, At
    <3> QED
      BY <1>1, <1>2, <3>1, PopLoadKept
  <2>7. CASE PopNext(p)
    BY <1>1, <1>2, <2>7, PopNextStep
  <2>8. CASE PopCas(p) /\ top = old[p]
    <3>1. PopTakes(p)
      BY <1>2, <2>8 DEF PopCas, PopTakes, At, Same, Goto
    <3> QED
      BY <1>1, <1>2, <3>1, PopTakesKept
  <2>9. CASE PopCas(p) /\ top # old[p]
    <3>1. PopLoads(p)
      BY <2>9 DEF PopCas, PopLoads, At, Same
    <3> QED
      BY <1>1, <1>2, <3>1, PopLoadKept
  <2>10. CASE PopDelete(p)
    BY <1>1, <1>2, <2>10, PopDeleteStep
  <2> QED
    BY <1>5, <2>1, <2>2, <2>3, <2>4, <2>5, <2>6, <2>7, <2>8, <2>9, <2>10 DEF StackStep
<1> QED
  BY <1>3, <1>4, <1>5 DEF StackNext, StackInv

\* Until an exchange of pop() succeeds on a node that was deleted and pushed again
\* since it was loaded, every node from the top on is allocated, and the next that a
\* pop() installs is that of the node it removes, whoever pushes and pops beside it
\* (push, pop).
THEOREM StackSoundLinks ==
  ASSUME StackConstantsOK
  PROVE  StackSpec => []SoundLinks
<1>1. StackInit => StackInv
  BY StackBegins
<1>2. StackInv /\ [StackNext]_stackVars => StackInv'
  BY StackKeeps
<1>3. StackInv => SoundLinks
  <2> SUFFICES ASSUME StackInv, ~aba PROVE SoundLinks
    BY DEF SoundLinks
  <2>1. PICK c \in Seq(Nodes) : ChainInv(c)
    BY DEF StackInv
  <2>2. /\ StackTypes /\ IsChain(c, top, mem) /\ On(c) \subseteq live /\ PopRead(c)
    BY <2>1 DEF StackInv, ChainInv
  <2>3. /\ Height = Len(c) /\ Len(c) \in Nat /\ Cardinality(Nodes) \in Nat
        /\ Len(c) <= Cardinality(Nodes)
    BY <2>2, ContentsAre, ChainIsShort
  <2>4. ASSUME NEW k \in 0 .. (Height - 1) PROVE Walk[k] \in live
    <3>1. k \in 0 .. Cardinality(Nodes) /\ k < Len(c) /\ k + 1 \in 1 .. Len(c)
      BY <2>3
    <3>2. Walk[k] = c[k + 1]
      BY <2>2, <3>1, WalkChain DEF Walk
    <3> QED
      BY <2>2, <3>1, <3>2 DEF On
  <2>5. ASSUME NEW p \in Users \ stale, At(p, "pop_cas"), top = old[p]
        PROVE  old[p] \in live /\ nxt[p] = mem[top].next
    <3>1. old[p] \in Nodes /\ nxt[p] = mem[old[p]].next
      BY <2>2, <2>5 DEF PopRead, At
    <3>2. old[p] \in On(c)
      <4>1. Len(c) # 0 /\ top = c[1]
        BY <2>2, <2>5, <3>1 DEF IsChain, StackConstantsOK
      <4>2. 1 \in 1 .. Len(c)
        BY <2>3, <4>1
      <4> QED
        BY <2>5, <4>1, <4>2 DEF On
    <3> QED
      BY <2>2, <2>5, <3>1, <3>2
  <2> QED
    BY <2>4, <2>5 DEF SoundLinks
<1> QED
  BY <1>1, <1>2, <1>3, PTL DEF StackSpec

\* Any number of threads push and pop at once: each call is that of a LIFO stack and
\* takes effect at its successful exchange, an empty pop() when it loads the top, until
\* the exchange of a pop() succeeds on a node that was deleted and pushed again (push,
\* pop).
THEOREM StackIsLifo ==
  ASSUME StackConstantsOK
  PROVE  StackSpec => ImplementsStack
<1>1. StackInit => StackInv /\ Lifo!Init
  BY StackBegins
<1>2. StackInv /\ [StackNext]_stackVars => StackInv' /\ [aba' \/ Lifo!Next]_<<Contents, got>>
  BY StackKeeps DEF LifoMoves
<1> QED
  BY <1>1, <1>2, PTL DEF StackSpec, ImplementsStack
=============================================================================
