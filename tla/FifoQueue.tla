------------------------------ MODULE FifoQueue ------------------------------
(***************************************************************************)
(* What a concurrent queue promises: each enq() and deq() takes effect at  *)
(* one instant, in the order of a sequential FIFO queue.                   *)
(***************************************************************************)
EXTENDS Sequences

CONSTANTS Procs, Values, Empty

VARIABLES
  queue,   \* the values in the queue, the oldest first
  got      \* what the last deq() of each thread returned

Init ==
  /\ queue = <<>>
  /\ got \in [Procs -> {Empty}]

Enq(v) == queue' = Append(queue, v) /\ UNCHANGED got

Deq(p) ==
  /\ queue # <<>>
  /\ queue' = Tail(queue)
  /\ got' = [got EXCEPT ![p] = Head(queue)]

DeqEmpty(p) ==
  /\ queue = <<>>
  /\ got' = [got EXCEPT ![p] = Empty]
  /\ UNCHANGED queue

Next ==
  \/ \E p \in Procs : DeqEmpty(p) \/ Deq(p)
  \/ \E v \in Values : Enq(v)

Spec == Init /\ [][Next]_<<queue, got>>
=============================================================================
