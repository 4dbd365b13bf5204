---------------------------- MODULE ExecTraceHook ----------------------------
(***************************************************************************)
(* The trace module exec_hook of cs614/multi_thread_opt.  Threads of one   *)
(* process enter and leave functions with trace points; my_enter() and     *)
(* my_exit() keep one stack for all of them under a spin lock, so each is  *)
(* a step.  A write to tracked_pid makes its three stores without it.      *)
(***************************************************************************)
EXTENDS Integers, Sequences, FiniteSets, SequencesExt

CONSTANTS
  Threads,
  Fns,        \* the functions with trace points
  Roots,      \* those a system call starts with
  Callees,    \* which functions each function calls
  MAX_DEPTH,
  LOG_LINES,  \* how many lines fit in log_buffer
  MaxTime, MaxSets   \* bounds on the clock and on the writes to tracked_pid

ConstantsOK ==
  /\ Roots \subseteq Fns /\ Callees \in [Fns -> SUBSET Fns]
  /\ MAX_DEPTH \in Nat \ {0}

VARIABLES
  clock,
  calls,       \* the calls that each thread is in: [fn, start, child]
  tracked,     \* tracked_pid is this process
  stack,       \* stack[0 .. top]
  log_offset,  \* in lines: the text of a line is left out
  writer,      \* the next store of set_pid(), or "none"
  sets,
  tangled      \* calls of two threads, or a call and a write, have met

vars == <<clock, calls, tracked, stack, log_offset, writer, sets, tangled>>

Init ==
  /\ clock = 0
  /\ calls = [t \in Threads |-> <<>>]
  /\ tracked = FALSE
  /\ stack = <<>> /\ log_offset = 0
  /\ writer = "none" /\ sets = 0
  /\ tangled = FALSE

Inside(t) == calls[t] # <<>>
Meets(t) == (\E u \in Threads \ {t} : Inside(u)) \/ writer # "none"

Tick ==
  /\ clock < MaxTime
  /\ clock' = clock + 1
  /\ UNCHANGED <<calls, tracked, stack, log_offset, writer, sets, tangled>>

Logged ==
  log_offset' = IF log_offset < LOG_LINES THEN log_offset + 1 ELSE log_offset

\* my_enter()
Push(fn) ==
  IF tracked /\ Len(stack) < MAX_DEPTH
  THEN /\ stack' = Append(stack, [fn |-> fn, start |-> clock, child |-> 0])
       /\ Logged
  ELSE UNCHANGED <<stack, log_offset>>

\* A call of a function with a trace point.
Enter(t) ==
  /\ \E fn \in IF Inside(t) THEN Callees[Last(calls[t]).fn] ELSE Roots :
       /\ calls' = [calls EXCEPT ![t] =
                      Append(@, [fn |-> fn, start |-> clock, child |-> 0])]
       /\ Push(fn)
  /\ tangled' = (tangled \/ Meets(t))
  /\ UNCHANGED <<clock, tracked, writer, sets>>

\* Adds to the time of the children of the last element.
WithChild(s, time) ==
  IF s = <<>> THEN s ELSE [s EXCEPT ![Len(s)].child = @ + time]

Inclusive(s) == clock - Last(s).start

\* Mutant: the name on top of the stack is not looked at.
PopAny(fn) ==
  IF tracked /\ stack # <<>>
  THEN stack' = WithChild(Front(stack), Inclusive(stack)) /\ Logged
  ELSE UNCHANGED <<stack, log_offset>>

\* my_exit(): a call that is not on top of the stack leaves it as it is.
Pop(fn) ==
  IF tracked /\ stack # <<>> /\ Last(stack).fn = fn
  THEN /\ stack' = WithChild(Front(stack), Inclusive(stack))
       /\ Logged
  ELSE UNCHANGED <<stack, log_offset>>

Leave(t) ==
  /\ Inside(t)
  /\ Pop(Last(calls[t]).fn)
  /\ calls' = [calls EXCEPT ![t] = WithChild(Front(@), clock - Last(@).start)]
  /\ tangled' = (tangled \/ Meets(t))
  /\ UNCHANGED <<clock, tracked, writer, sets>>

\* set_pid(): tracked_pid, then top, then log_offset.
SetPid ==
  /\ \/ /\ writer = "none" /\ sets < MaxSets
        /\ tracked' \in BOOLEAN
        /\ writer' = "top" /\ sets' = sets + 1
        /\ tangled' = (\E t \in Threads : Inside(t))
        /\ UNCHANGED <<stack, log_offset>>
     \/ /\ writer = "top"
        /\ stack' = <<>> /\ writer' = "log"
        /\ UNCHANGED <<tracked, log_offset, sets, tangled>>
     \/ /\ writer = "log"
        /\ log_offset' = 0 /\ writer' = "none"
        /\ UNCHANGED <<tracked, stack, sets, tangled>>
  /\ UNCHANGED <<clock, calls>>

Next == Tick \/ SetPid \/ \E t \in Threads : Enter(t) \/ Leave(t)

Spec == Init /\ [][Next]_vars

-----------------------------------------------------------------------------
\* What my_enter() keeps of nested calls: the first MAX_DEPTH; the last of them
\* is not told of its children.
Kept(s) ==
  [i \in 1 .. Min({Len(s), MAX_DEPTH}) |->
     IF i < MAX_DEPTH THEN s[i] ELSE [s[i] EXCEPT !.child = 0]]

\* As long as the calls of two threads do not overlap, and tracked_pid is not
\* written during a call, the stack mirrors the calls of the thread, and the
\* time of the children, which is left out of the exclusive time of a log
\* line, is exact (my_enter, my_exit).
TraceExact ==
  ~tangled /\ tracked /\ writer = "none" =>
    IF \E t \in Threads : Inside(t)
    THEN \A t \in Threads : Inside(t) => stack = Kept(calls[t])
    ELSE stack = <<>>
=============================================================================
