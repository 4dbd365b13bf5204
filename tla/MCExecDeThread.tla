--------------------------- MODULE MCExecDeThread ---------------------------
(* Finite instances of ExecDeThread, and what it implements.               *)
EXTENDS ExecDeThread

\* exec() as one step: the running threads are those that have not begun to
\* exit.
Atomic == INSTANCE ExecAtomic WITH running <- InProgram, program <- imageNow

\* Every exec() of this kernel looks like one step in which the caller is the
\* only thread of the program (ExecAtomic).
ImplementsExecAtomic == Atomic!Spec

\* Of several callers of exec() one wins: while it runs the new program every
\* other thread of the group has exited, and those that lost die of the kill.
WinnerAlone == [][AllOthersExited' /\ \A t \in Threads : LoserDies(t)]_vars

\* With the optimisation too: the old program has stopped when exec() is past
\* de_thread(), the group has one leader, and no BUG_ON() is hit.
ExecSound == OldImageStopped /\ OneLeader /\ NoBugOn
=============================================================================
