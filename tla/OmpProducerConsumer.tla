------------------------- MODULE OmpProducerConsumer -------------------------
(***************************************************************************)
(* The OpenMP producers and consumer of cs610/assignment3/problem3.  Each  *)
(* turn of main()'s loop is a parallel region in which every thread stores *)
(* its number in tid and creates two tasks.  tid is shared: the tasks,     *)
(* which run at any time before the end of the region, read what the last  *)
(* thread has stored.  Each access to a shared variable outside of a       *)
(* critical construct is a step, and each critical construct is one.       *)
(***************************************************************************)
EXTENDS Integers, Sequences, FiniteSets

CONSTANTS
  T,           \* number of producers; thread T is the consumer
  L,           \* lines a producer reads before another one may
  M,           \* size of the buffer
  FileLines    \* how many lines getline() gives until eof()

ConstantsOK == {T, L, M, FileLines} \subseteq Nat \ {0}

VARIABLES
  tid,
  thread,               \* "start", or "created": its tasks exist
  pc, arg,              \* of each task
  buffer, read, output,
  END_OF_FILE_REACHED,
  current_thread, current_line_count,
  main,                 \* "loop" or "exit"
  mixed                 \* a task has run with the number of another thread

shared == <<buffer, read, output, END_OF_FILE_REACHED, current_thread,
            current_line_count>>
vars == <<tid, thread, pc, arg, shared, main, mixed>>

Threads == 0 .. T
OmpTasks == Threads \X {"read", "write"}
Lines == [i \in 1 .. FileLines |-> i]
NoLine == 0   \* getline() at the end of the file

Init ==
  /\ tid \in Threads
  /\ thread = [i \in Threads |-> "start"]
  /\ pc = [k \in OmpTasks |-> "none"]
  /\ arg = [k \in OmpTasks |-> 0]
  /\ buffer = <<>> /\ read = 0 /\ output = <<>>
  /\ END_OF_FILE_REACHED = FALSE
  /\ current_thread = -1 /\ current_line_count = 0
  /\ main = "loop" /\ mixed = FALSE

Goto(k, l) == pc' = [pc EXCEPT ![k] = l]
Quiet(k) == UNCHANGED <<tid, thread, arg, main, mixed>>

\* tid = omp_get_thread_num()
StoreTid(i) ==
  /\ main = "loop" /\ thread[i] = "start" /\ pc[<<i, "read">>] = "none"
  /\ tid' = i
  /\ thread' = [thread EXCEPT ![i] = "stored"]
  /\ UNCHANGED <<pc, arg, shared, main, mixed>>

CreateTasks(i) ==
  /\ thread[i] = "stored"
  /\ thread' = [thread EXCEPT ![i] = "created"]
  /\ pc' = [k \in OmpTasks |-> IF k[1] = i THEN "test" ELSE pc[k]]
  /\ UNCHANGED <<tid, arg, shared, main, mixed>>

\* if(tid!=T), if(tid == T)
TestTid(k) ==
  /\ pc[k] = "test"
  /\ Goto(k, IF (tid = T) = (k[2] = "write") THEN "argument" ELSE "done")
  /\ mixed' = (mixed \/ tid # k[1])
  /\ UNCHANGED <<tid, thread, arg, shared, main>>

\* The number is read again for the call.
PassTid(k) ==
  /\ pc[k] = "argument"
  /\ arg' = [arg EXCEPT ![k] = tid]
  /\ Goto(k, IF k[2] = "write" THEN "w_end" ELSE "r_end")
  /\ mixed' = (mixed \/ tid # k[1])
  /\ UNCHANGED <<tid, thread, shared, main>>

-----------------------------------------------------------------------------
(* write_to_file() *)

WriteEnd(k) ==
  /\ pc[k] = "w_end"
  /\ Goto(k, IF END_OF_FILE_REACHED THEN "w_empty" ELSE "w_critical")
  /\ UNCHANGED shared /\ Quiet(k)

WriteEmpty(k) ==
  /\ pc[k] = "w_empty"
  /\ Goto(k, IF buffer = <<>> THEN "done" ELSE "w_critical")
  /\ UNCHANGED shared /\ Quiet(k)

WriteCritical(k) ==
  /\ pc[k] = "w_critical"
  /\ IF buffer = <<>> THEN UNCHANGED <<buffer, output>>
     ELSE output' = Append(output, Head(buffer)) /\ buffer' = Tail(buffer)
  /\ Goto(k, "done")
  /\ UNCHANGED <<read, END_OF_FILE_REACHED, current_thread, current_line_count>>
  /\ Quiet(k)

-----------------------------------------------------------------------------
(* read_from_file() *)

ReadEnd(k) ==
  /\ pc[k] = "r_end"
  /\ Goto(k, IF END_OF_FILE_REACHED THEN "done" ELSE "r_claim")
  /\ UNCHANGED shared /\ Quiet(k)

\* Mutant: a turn is claimed although another thread has it.
AnyTurn == TRUE

TurnIsFree == current_thread = -1 /\ current_line_count = 0

ReadClaim(k) ==
  /\ pc[k] = "r_claim"
  /\ current_thread' = IF TurnIsFree THEN arg[k] ELSE current_thread
  /\ Goto(k, "r_full")
  /\ UNCHANGED <<buffer, read, output, END_OF_FILE_REACHED, current_line_count>>
  /\ Quiet(k)

\* The tests of lines 63, 66, 70 (and 78), 79 and 80, one at a time.
ReadTest(k) ==
  /\ \/ pc[k] = "r_full" /\ Goto(k, IF Len(buffer) = M THEN "done" ELSE "r_turn")
     \/ /\ pc[k] = "r_turn"
        /\ Goto(k, IF current_thread # arg[k] THEN "done" ELSE "r_share")
     \/ /\ pc[k] = "r_share"
        /\ Goto(k, IF current_line_count = L THEN "r_reset" ELSE "r_less")
     \/ pc[k] = "r_less" /\ Goto(k, IF current_line_count < L THEN "r_room" ELSE "done")
     \/ pc[k] = "r_room" /\ Goto(k, IF Len(buffer) < M THEN "r_eof" ELSE "done")
     \/ pc[k] = "r_eof" /\ Goto(k, IF read < FileLines THEN "r_line" ELSE "r_last")
  /\ UNCHANGED shared /\ Quiet(k)

ReadReset(k) ==
  /\ \/ /\ pc[k] = "r_reset" /\ Goto(k, "r_resign")
        /\ current_line_count' = 0 /\ UNCHANGED current_thread
     \/ /\ pc[k] = "r_resign" /\ Goto(k, "done")
        /\ current_thread' = -1 /\ UNCHANGED current_line_count
  /\ UNCHANGED <<buffer, read, output, END_OF_FILE_REACHED>> /\ Quiet(k)

\* getline() fails when another task has read the last line.
ReadLine(k) ==
  /\ pc[k] = "r_line"
  /\ buffer' = Append(buffer, IF read < FileLines THEN read + 1 ELSE NoLine)
  /\ read' = IF read < FileLines THEN read + 1 ELSE read
  /\ current_line_count' = current_line_count + 1
  /\ Goto(k, "done")
  /\ UNCHANGED <<output, END_OF_FILE_REACHED, current_thread>> /\ Quiet(k)

ReadLast(k) ==
  /\ pc[k] = "r_last"
  /\ END_OF_FILE_REACHED' = TRUE
  /\ Goto(k, "done")
  /\ UNCHANGED <<buffer, read, output, current_thread, current_line_count>> /\ Quiet(k)

Task(k) ==
  \/ TestTid(k) \/ PassTid(k)
  \/ WriteEnd(k) \/ WriteEmpty(k) \/ WriteCritical(k)
  \/ ReadEnd(k) \/ ReadClaim(k) \/ ReadTest(k) \/ ReadReset(k) \/ ReadLine(k)
  \/ ReadLast(k)

\* The end of the region waits for the tasks; main() tests its condition.
EndRegion ==
  /\ main = "loop" /\ \A k \in OmpTasks : pc[k] = "done"
  /\ main' = IF END_OF_FILE_REACHED /\ buffer = <<>> THEN "exit" ELSE "loop"
  /\ thread' = [i \in Threads |-> "start"]
  /\ pc' = [k \in OmpTasks |-> "none"]
  /\ arg' = [k \in OmpTasks |-> 0]
  /\ UNCHANGED <<tid, shared, mixed>>

\* A behaviour is followed until a task runs with a number that is not its
\* own: nothing is claimed from then on.
Run ==
  /\ ~mixed
  /\ \/ \E i \in Threads : StoreTid(i) \/ CreateTasks(i)
     \/ \E k \in OmpTasks : Task(k)
     \/ EndRegion

Next == Run

\* OpenMP finishes the tasks of a region.
Spec == Init /\ [][Next]_vars
FairSpec == Spec /\ WF_vars(Run)

-----------------------------------------------------------------------------
Reading(k) == pc[k] \in {"r_share", "r_reset", "r_resign", "r_less", "r_room",
                         "r_eof", "r_line", "r_last"}

\* As long as each task runs with the number of its own thread, one producer
\* at a time reads, the buffer holds at most M lines, and nothing is lost or
\* reordered (read_from_file, write_to_file).
OneReaderInOrder ==
  mixed \/ /\ \A j, k \in OmpTasks : Reading(j) /\ Reading(k) => j = k
           /\ Len(buffer) <= M /\ current_line_count <= L
           /\ output \o buffer = SubSeq(Lines, 1, read)
           /\ main = "exit" => output = Lines

\* And main() comes to its end (main).
Finishes == <>(mixed \/ main = "exit")
=============================================================================
