----------------------------- MODULE ExecAtomic -----------------------------
(***************************************************************************)
(* What exec() promises a multithreaded program: the threads of one        *)
(* program run together, and the switch to the next program happens in one *)
(* step, at which the thread that called exec() is the only one left.      *)
(***************************************************************************)
EXTENDS Naturals

CONSTANT Threads

VARIABLES
  running,   \* the threads that execute the program
  program    \* which program it is: 0, 1, ...

Init ==
  /\ running \in SUBSET Threads
  /\ program = 0

Create(t) ==
  /\ running # {}
  /\ running' = running \cup {t}
  /\ UNCHANGED program

Leave(t) ==
  /\ running' = running \ {t}
  /\ UNCHANGED program

Replace(t) ==
  /\ running = {t}
  /\ running' = {t}
  /\ program' = program + 1

Next == \E t \in Threads : Create(t) \/ Leave(t) \/ Replace(t)

Spec == Init /\ [][Next]_<<running, program>>
=============================================================================
