----------------------------- MODULE BloomFilter -----------------------------
(***************************************************************************)
(* The concurrent Bloom filter of cs636/assignment2/problem3: a bit array  *)
(* cut into stripes with one mutex each; add(), contains() and             *)
(* print_stats() called by many threads.                                   *)
(*                                                                         *)
(* A call is the list of its instructions (todo), taken from the branch of *)
(* the code its stripes select.  One instruction is one step; the update   *)
(* of a byte, |=, is a load and a store.                                   *)
(***************************************************************************)
EXTENDS Integers, Sequences, FiniteSets

CONSTANTS
  Procs,
  Values,
  Hash,        \* Hash[v] = <<h1, h2, h3>>, three bit positions
  ByteBits,    \* bits in a byte (8 in the code)
  StripeSize,  \* STRIPE_SIZE: bytes in a stripe
  StripeCount, \* STRIPE_COUNT
  Ops,         \* the functions that are called
  MaxCalls     \* bound on the calls of each thread

Bits == 0 .. (ByteBits * StripeSize * StripeCount - 1)
Bytes == 0 .. (StripeSize * StripeCount - 1)
Stripes == 0 .. (StripeCount - 1)
NoProc == "nobody"

ConstantsOK ==
  /\ ByteBits \in Nat \ {0} /\ StripeSize \in Nat \ {0} /\ StripeCount \in Nat \ {0}
  /\ Hash \in [Values -> [1..3 -> Bits]]
  /\ Ops \subseteq {"add", "contains", "stats"}
  /\ MaxCalls \in [Procs -> Nat]
  /\ NoProc \notin Procs

ASSUME Parameters == ConstantsOK

VARIABLES
  bitArray,   \* bit_array: the set of the bits that are 1, by byte
  owner,      \* the holder of each mutex, or NoProc
  todo,       \* the instructions a thread's call has left
  call,       \* the call: function and value
  reg,        \* the byte that |= has loaded
  found,      \* b1 && b2 && b3 so far
  stats,      \* what print_stats() counted
  calls,      \* how many calls a thread has made
  added,      \* the values whose add() has returned
  sure        \* was the value of contains() added before the call?

vars == <<bitArray, owner, todo, call, reg, found, stats, calls, added, sure>>

Init ==
  /\ bitArray = [y \in Bytes |-> {}]
  /\ owner = [s \in Stripes |-> NoProc]
  /\ todo = [p \in Procs |-> <<>>]
  /\ call = [p \in Procs |-> <<"none">>]
  /\ reg = [p \in Procs |-> {}]
  /\ found = [p \in Procs |-> TRUE]
  /\ stats = [p \in Procs |-> {}]
  /\ calls = [p \in Procs |-> 0]
  /\ added = {}
  /\ sure = [p \in Procs |-> FALSE]

ByteOf(b) == b \div ByteBits

get_stripe(b) == ByteOf(b) \div StripeSize

Stripe(v) == [i \in 1..3 |-> get_stripe(Hash[v][i])]

\* Three stripes in the order of their numbers.
Ascending(s) ==
  CHOOSE t \in [1..3 -> {s[1], s[2], s[3]}] : t[1] < t[2] /\ t[2] < t[3]

-----------------------------------------------------------------------------
(* The instructions of each function *)

Lock(s) == <<"lock", s>>
Unlock(s) == <<"unlock", s>>

\* Mutant: three different stripes are locked as they come.
LockOrderUnsorted(v) ==
  LET s == Stripe(v)
  IN IF s[1] = s[2] /\ s[2] = s[3] THEN <<s[1]>>
     ELSE IF s[1] = s[2] THEN <<s[1], s[3]>>
     ELSE IF s[1] = s[3] THEN <<s[1], s[2]>>
     ELSE IF s[2] = s[3] THEN <<s[2], s[1]>>
     ELSE s

\* Mutant: stripe 2 is not locked when 1 and 3 are the same.
LockOrderMissesOne(v) ==
  LET s == Stripe(v)
  IN IF s[1] = s[3] THEN <<s[1]>>
     ELSE IF s[1] = s[2] THEN <<s[1], s[3]>>
     ELSE IF s[2] = s[3] THEN <<s[2], s[1]>>
     ELSE Ascending(s)

\* The order in which add() locks: with two stripes, the one that occurs
\* twice first; with three, ascending.
LockOrder(v) ==
  LET s == Stripe(v)
  IN IF s[1] = s[2] /\ s[2] = s[3] THEN <<s[1]>>
     ELSE IF s[1] = s[2] THEN <<s[1], s[3]>>
     ELSE IF s[1] = s[3] THEN <<s[1], s[2]>>
     ELSE IF s[2] = s[3] THEN <<s[2], s[1]>>
     ELSE Ascending(s)

\* The order in which it unlocks: reversed, or stripe 3, 2, 1.
UnlockOrder(v) ==
  LET s == Stripe(v)
      o == LockOrder(v)
  IN IF Len(o) = 3 THEN <<s[3], s[2], s[1]>> ELSE [i \in 1 .. Len(o) |-> o[Len(o) + 1 - i]]

Locks(order) == [i \in 1 .. Len(order) |-> Lock(order[i])]
Unlocks(order) == [i \in 1 .. Len(order) |-> Unlock(order[i])]

Load(b) == <<"load", b>>
Store(b) == <<"store", b>>
Test(b) == <<"test", b>>

SetBits(h) ==
  <<Load(h[1]), Store(h[1]), Load(h[2]), Store(h[2]), Load(h[3]), Store(h[3])>>

AddBody(v) == Locks(LockOrder(v)) \o SetBits(Hash[v]) \o Unlocks(UnlockOrder(v))

\* contains() holds one lock at a time unless there is only one stripe.
ContainsBody(v) ==
  LET h == Hash[v]
      s == Stripe(v)
  IN IF s[1] = s[2] /\ s[2] = s[3]
     THEN <<Lock(s[1]), Test(h[1]), Test(h[2]), Test(h[3]), Unlock(s[1])>>
     ELSE <<Lock(s[1]), Test(h[1]), Unlock(s[1]), Lock(s[2]), Test(h[2]), Unlock(s[2]),
            Lock(s[3]), Test(h[3]), Unlock(s[3])>>

\* Mutant: the loop that locks all stripes stops one short.
StatsLocksAllButLast == [i \in 1 .. (StripeCount - 1) |-> i - 1]

StatsLocks == [i \in 1 .. StripeCount |-> i - 1]

StatsBody == Locks(StatsLocks) \o << <<"count">> >> \o Unlocks(StatsLocks)

-----------------------------------------------------------------------------
Call(p, c, body) ==
  /\ call[p] = <<"none">> /\ calls[p] < MaxCalls[p]
  /\ c[1] \in Ops
  /\ call' = [call EXCEPT ![p] = c]
  /\ todo' = [todo EXCEPT ![p] = body]
  /\ calls' = [calls EXCEPT ![p] = @ + 1]
  /\ found' = [found EXCEPT ![p] = TRUE]
  /\ sure' = [sure EXCEPT ![p] = c[1] = "contains" /\ c[2] \in added]
  /\ stats' = [stats EXCEPT ![p] = {}]
  /\ UNCHANGED <<bitArray, owner, reg, added>>

CallAdd(p) == \E v \in Values : Call(p, <<"add", v>>, AddBody(v))
CallContains(p) == \E v \in Values : Call(p, <<"contains", v>>, ContainsBody(v))
CallStats(p) == Call(p, <<"stats">>, StatsBody)

\* The next instruction of p is op, and p goes past it.
Step(p, op) ==
  /\ todo[p] # <<>> /\ todo[p][1][1] = op
  /\ todo' = [todo EXCEPT ![p] = Tail(@)]
  /\ UNCHANGED <<call, calls, added, sure>>
Arg(p) == todo[p][1][2]

LockStripe(p) ==
  /\ Step(p, "lock")
  /\ owner[Arg(p)] = NoProc
  /\ owner' = [owner EXCEPT ![Arg(p)] = p]
  /\ UNCHANGED <<bitArray, reg, found, stats>>

UnlockStripe(p) ==
  /\ Step(p, "unlock")
  /\ owner' = [owner EXCEPT ![Arg(p)] = NoProc]
  /\ UNCHANGED <<bitArray, reg, found, stats>>

LoadByte(p) ==
  /\ Step(p, "load")
  /\ reg' = [reg EXCEPT ![p] = bitArray[ByteOf(Arg(p))]]
  /\ UNCHANGED <<bitArray, owner, found, stats>>

\* Mutant: = where the code has |=.
Assigned(p, b) == {b}

Ored(p, b) == reg[p] \cup {b}

StoreByte(p) ==
  /\ Step(p, "store")
  /\ bitArray' = [bitArray EXCEPT ![ByteOf(Arg(p))] = Ored(p, Arg(p))]
  /\ UNCHANGED <<owner, reg, found, stats>>

TestBit(p) ==
  /\ Step(p, "test")
  /\ found' = [found EXCEPT ![p] = @ /\ Arg(p) \in bitArray[ByteOf(Arg(p))]]
  /\ UNCHANGED <<bitArray, owner, reg, stats>>

\* print_stats() reads every byte; it holds every lock meanwhile.
CountBits(p) ==
  /\ Step(p, "count")
  /\ stats' = [stats EXCEPT ![p] = UNION {bitArray[y] : y \in Bytes}]
  /\ UNCHANGED <<bitArray, owner, reg, found>>

Return(p) ==
  /\ call[p] # <<"none">> /\ todo[p] = <<>>
  /\ call' = [call EXCEPT ![p] = <<"none">>]
  /\ added' = IF call[p][1] = "add" THEN added \cup {call[p][2]} ELSE added
  /\ UNCHANGED <<bitArray, owner, todo, reg, found, stats, calls, sure>>

Run(p) ==
  \/ LockStripe(p) \/ UnlockStripe(p) \/ LoadByte(p) \/ StoreByte(p)
  \/ TestBit(p) \/ CountBits(p) \/ Return(p)

Next == \E p \in Procs : CallAdd(p) \/ CallContains(p) \/ CallStats(p) \/ Run(p)

\* Each thread keeps running; a call is never forced.  Weak fairness of
\* locking is enough: with finitely many calls a mutex that is free at the
\* end stays free.
Spec == Init /\ [][Next]_vars
FairSpec == Spec /\ \A p \in Procs : WF_vars(Run(p))

-----------------------------------------------------------------------------
BitsOf(v) == {Hash[v][i] : i \in 1..3}
AllBits == UNION {bitArray[y] : y \in Bytes}

\* Every bit a finished add() has set stays set: no concurrent |= on the same
\* byte loses it (add).
NoLostBits == \A v \in added : BitsOf(v) \subseteq AllBits

\* contains() never denies a value whose add() had returned before the call,
\* although it looks at the three bits under different locks (contains).
NoFalseNegative ==
  \A p \in Procs :
    call[p][1] = "contains" /\ todo[p] = <<>> /\ sure[p] => found[p]

\* The count of print_stats() is consistent: it sees every add() wholly or not
\* at all, and no bit of no value ("Lock all stripes for consistent count").
StatsConsistent ==
  \A p \in Procs :
    call[p][1] = "stats" /\ todo[p] = <<>> =>
      \E S \in SUBSET Values : stats[p] = UNION {BitsOf(v) : v \in S}

\* What the filter promises its callers.
FilterSound == NoLostBits /\ NoFalseNegative /\ StatsConsistent

\* Threads that wait for each other in a circle.
Waits(p) == todo[p] # <<>> /\ todo[p][1][1] = "lock" /\ owner[Arg(p)] # NoProc

\* "Lock stripes in order to prevent deadlocks" (add, contains): there is no
\* set of threads each waiting for a lock that one of them holds.
NoDeadlock ==
  ~ \E D \in SUBSET Procs \ {{}} : \A p \in D : Waits(p) /\ owner[Arg(p)] \in D

\* Every call returns.
Busy(p) == call[p] # <<"none">>
CallsReturn == \A p \in Procs : Busy(p) ~> ~Busy(p)
=============================================================================
