------------------------------ MODULE LifoStack ------------------------------
(***************************************************************************)
(* What a concurrent stack promises: each push() and pop() takes effect at *)
(* one instant on a sequential stack.                                      *)
(***************************************************************************)
EXTENDS Sequences

CONSTANTS Procs, Values, None

VARIABLES
  stack,   \* the top first
  got      \* what the last pop() of each thread returned

Init == stack = <<>> /\ got \in [Procs -> {None}]

Push(v) == stack' = <<v>> \o stack /\ UNCHANGED got

Pop(p) ==
  /\ stack # <<>>
  /\ stack' = Tail(stack)
  /\ got' = [got EXCEPT ![p] = Head(stack)]

PopEmpty(p) ==
  /\ stack = <<>>
  /\ got' = [got EXCEPT ![p] = None]
  /\ UNCHANGED stack

Next == (\E p \in Procs : PopEmpty(p) \/ Pop(p)) \/ (\E v \in Values : Push(v))

Spec == Init /\ [][Next]_<<stack, got>>
=============================================================================
