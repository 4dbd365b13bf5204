-------------------------- MODULE ProducerConsumer --------------------------
(***************************************************************************)
(* The pthread producers and consumer of cs610/assignment2/problem2-dir.   *)
(* Each lock, unlock, signal, wait and access to the buffer is a step.     *)
(*                                                                         *)
(* A producer that has filled the buffer unlocks the mutex and then waits  *)
(* on a condition variable with it.  That is undefined when it does not    *)
(* own the mutex; here the wait unlocks it whoever owns it, as it does for *)
(* a normal mutex of glibc, and what follows may be a data race (raced).   *)
(***************************************************************************)
EXTENDS Integers, Sequences, FiniteSets, SequencesExt

CONSTANTS
  Producers, Consumer, None,
  L,             \* lines a producer reads at a time
  M,             \* size of the buffer
  FileLines,     \* how many lines getline() gives until eof()
  MaxSpurious    \* bound on the waits that end without a signal

ConstantsOK ==
  /\ Consumer \notin Producers /\ None \notin Producers \cup {Consumer}
  /\ {L, M, FileLines} \subseteq Nat \ {0} /\ MaxSpurious \in Nat

VARIABLES
  mutex,                \* owner of each of lock and exclusive_lock
  buffer,
  read,                 \* the lines read from input_file
  END_OF_FILE_REACHED,
  output,               \* the lines of output_file
  pc,
  number_of_lines_read,
  waiting,              \* the condition a thread sleeps on
  spurious,             \* how many waits have ended without a signal
  missed,               \* a signal found its producer not yet asleep
  raced                 \* two threads have been in the critical section

history == <<spurious, missed, raced>>
vars == <<mutex, buffer, read, END_OF_FILE_REACHED, output, pc,
          number_of_lines_read, waiting, history>>

Threads == Producers \cup {Consumer}
Lines == [i \in 1 .. FileLines |-> i]

Init ==
  /\ mutex = [lock |-> None, exclusive_lock |-> None]
  /\ buffer = <<>> /\ read = 0 /\ output = <<>>
  /\ END_OF_FILE_REACHED = FALSE
  /\ pc = [t \in Threads |-> IF t = Consumer THEN "c_lock" ELSE "p_exclusive"]
  /\ number_of_lines_read = [p \in Producers |-> 0]
  /\ waiting = [t \in Threads |-> "none"]
  /\ spurious = 0 /\ missed = FALSE /\ raced = FALSE

At(t, l) == pc[t] = l /\ waiting[t] = "none"
Goto(t, l) == pc' = [pc EXCEPT ![t] = l]

\* The threads that work on the buffer in their critical section.
Inside(t) == pc[t] \in {"c_test", "c_retest", "c_empty", "p_full", "p_end", "p_read"}

\* The producers that are about to wait with the mutex given back.
GoesToSleep(p) == \E l \in {"p_signal_full", "p_unlock_full", "p_unlocked"} : At(p, l)

Take(t, m) ==
  /\ mutex[m] = None
  /\ mutex' = [mutex EXCEPT ![m] = t]
  /\ raced' = (raced \/ (m = "lock" /\ \E u \in Threads \ {t} :
                                         waiting[u] = "none" /\ Inside(u)))

\* pthread_mutex_unlock() of a normal mutex does not look at the owner.
Give(m) == mutex' = [mutex EXCEPT ![m] = None]

\* A thread that sleeps is to lock the mutex again, at its label pc.
Sleep(t, cond, l) ==
  /\ Give("lock")
  /\ waiting' = [waiting EXCEPT ![t] = cond]
  /\ Goto(t, l)

Signal(cond) ==
  IF \E t \in Threads : waiting[t] = cond
  THEN \E t \in Threads :
         waiting[t] = cond /\ waiting' = [waiting EXCEPT ![t] = "relock"]
  ELSE UNCHANGED waiting

Relock(t) ==
  /\ waiting[t] = "relock" /\ Take(t, "lock")
  /\ waiting' = [waiting EXCEPT ![t] = "none"]
  /\ UNCHANGED <<buffer, read, END_OF_FILE_REACHED, output, pc,
                 number_of_lines_read, spurious, missed>>

WakeSpuriously(t) ==
  /\ waiting[t] \notin {"none", "relock"} /\ spurious < MaxSpurious
  /\ spurious' = spurious + 1
  /\ waiting' = [waiting EXCEPT ![t] = "relock"]
  /\ UNCHANGED <<mutex, buffer, read, END_OF_FILE_REACHED, output, pc,
                 number_of_lines_read, missed, raced>>

Quiet == UNCHANGED <<read, END_OF_FILE_REACHED, number_of_lines_read, spurious>>

-----------------------------------------------------------------------------
(* write_to_file() *)

c == Consumer

ConsumerLock ==
  /\ At(c, "c_lock") /\ Take(c, "lock") /\ Goto(c, "c_test")
  /\ UNCHANGED <<buffer, output, waiting, missed>> /\ Quiet

ConsumerWait ==
  /\ At(c, "c_test") /\ buffer = <<>> /\ ~END_OF_FILE_REACHED
  /\ Sleep(c, "buffer_is_full", "c_retest")
  /\ UNCHANGED <<buffer, output, missed, raced>> /\ Quiet

\* After the wait the first condition is not tested again.
ConsumerGoesOn ==
  /\ \/ At(c, "c_test") /\ (buffer # <<>> \/ END_OF_FILE_REACHED)
     \/ At(c, "c_retest")
  /\ IF buffer = <<>> /\ END_OF_FILE_REACHED
     THEN Give("lock") /\ Goto(c, "done")
     ELSE UNCHANGED mutex /\ Goto(c, "c_empty")
  /\ UNCHANGED <<buffer, output, waiting, missed, raced>> /\ Quiet

ConsumerWrite ==
  /\ At(c, "c_empty") /\ buffer # <<>>
  /\ output' = Append(output, Head(buffer)) /\ buffer' = Tail(buffer)
  /\ UNCHANGED <<mutex, pc, waiting, missed, raced>> /\ Quiet

ConsumerSignal ==
  /\ At(c, "c_empty") /\ buffer = <<>>
  /\ Signal("buffer_is_empty")
  /\ missed' = (missed \/ \E p \in Producers : GoesToSleep(p))
  /\ Goto(c, "c_unlock")
  /\ UNCHANGED <<mutex, buffer, output, raced>> /\ Quiet

ConsumerUnlock ==
  /\ At(c, "c_unlock") /\ Give("lock") /\ Goto(c, "c_lock")
  /\ UNCHANGED <<buffer, output, waiting, missed, raced>> /\ Quiet

Consume ==
  \/ ConsumerLock \/ ConsumerWait \/ ConsumerGoesOn \/ ConsumerWrite
  \/ ConsumerSignal \/ ConsumerUnlock

-----------------------------------------------------------------------------
(* read_from_file() *)

ProducerLock(p) ==
  /\ \/ At(p, "p_exclusive") /\ Take(p, "exclusive_lock") /\ Goto(p, "p_lock")
     \/ At(p, "p_lock") /\ Take(p, "lock") /\ Goto(p, "p_full")
  /\ UNCHANGED <<buffer, output, waiting, missed>> /\ Quiet

ProducerWaitsForRoom(p) ==
  /\ At(p, "p_full") /\ Len(buffer) = M
  /\ Sleep(p, "buffer_is_empty", "p_full")
  /\ UNCHANGED <<buffer, output, missed, raced>> /\ Quiet

ProducerBegins(p) ==
  /\ At(p, "p_full") /\ Len(buffer) # M
  /\ Goto(p, IF END_OF_FILE_REACHED THEN "p_last_unlock" ELSE "p_read")
  /\ number_of_lines_read' = [number_of_lines_read EXCEPT ![p] = 0]
  /\ UNCHANGED <<mutex, buffer, read, END_OF_FILE_REACHED, output, waiting, history>>

\* One turn of the loop that reads L lines.
ProducerReads(p) ==
  /\ At(p, "p_read") /\ number_of_lines_read[p] < L /\ read < FileLines
  /\ read' = read + 1
  /\ buffer' = Append(buffer, read + 1)
  /\ number_of_lines_read' = [number_of_lines_read EXCEPT ![p] = @ + 1]
  /\ Goto(p, IF Len(buffer') = M THEN "p_signal_full" ELSE "p_read")
  /\ UNCHANGED <<mutex, END_OF_FILE_REACHED, output, waiting, history>>

ProducerStops(p) ==
  /\ At(p, "p_read")
  /\ \/ number_of_lines_read[p] = L /\ UNCHANGED END_OF_FILE_REACHED
     \/ /\ number_of_lines_read[p] < L /\ read = FileLines
        /\ END_OF_FILE_REACHED' = TRUE
  /\ Goto(p, "p_unlock")
  /\ UNCHANGED <<mutex, buffer, read, output, number_of_lines_read, waiting, history>>

ProducerSignalsFull(p) ==
  /\ At(p, "p_signal_full")
  /\ Signal("buffer_is_full") /\ Goto(p, "p_unlock_full")
  /\ UNCHANGED <<mutex, buffer, output, missed, raced>> /\ Quiet

ProducerUnlocksFull(p) ==
  /\ At(p, "p_unlock_full")
  /\ Give("lock") /\ Goto(p, "p_unlocked")
  /\ UNCHANGED <<buffer, output, waiting, missed, raced>> /\ Quiet

\* The wait with a mutex that the producer has just unlocked.  It goes on
\* reading when it wakes up.
ProducerWaitsUnowned(p) ==
  /\ At(p, "p_unlocked")
  /\ Sleep(p, "buffer_is_empty", "p_read")
  /\ UNCHANGED <<buffer, output, missed, raced>> /\ Quiet

EndAnnounced ==
  IF END_OF_FILE_REACHED THEN Signal("buffer_is_full") ELSE UNCHANGED waiting

ProducerUnlocks(p) ==
  /\ \/ /\ At(p, "p_unlock") /\ Give("lock") /\ Goto(p, "p_unlock_exclusive")
        /\ UNCHANGED waiting
     \/ /\ At(p, "p_unlock_exclusive") /\ Give("exclusive_lock")
        /\ Goto(p, "p_announce") /\ UNCHANGED waiting
     \/ /\ At(p, "p_announce") /\ EndAnnounced /\ Goto(p, "p_exclusive")
        /\ UNCHANGED mutex
     \/ /\ At(p, "p_last_unlock") /\ Give("lock") /\ Goto(p, "p_last_exclusive")
        /\ UNCHANGED waiting
     \/ /\ At(p, "p_last_exclusive") /\ Give("exclusive_lock") /\ Goto(p, "done")
        /\ UNCHANGED waiting
  /\ UNCHANGED <<buffer, output, missed, raced>> /\ Quiet

Produce(p) ==
  \/ ProducerLock(p) \/ ProducerWaitsForRoom(p) \/ ProducerBegins(p)
  \/ ProducerReads(p) \/ ProducerStops(p) \/ ProducerSignalsFull(p)
  \/ ProducerUnlocksFull(p) \/ ProducerWaitsUnowned(p) \/ ProducerUnlocks(p)

Step(t) == IF t = Consumer THEN Consume \/ Relock(t) ELSE Produce(t) \/ Relock(t)

Next == \E t \in Threads : Step(t) \/ WakeSpuriously(t)

\* Threads are scheduled, and a thread that tries to lock again and again gets
\* the mutex in the end.
Spec == Init /\ [][Next]_vars
FairSpec == Spec /\ \A t \in Threads : SF_vars(Step(t))

-----------------------------------------------------------------------------
\* Until two threads have been at the buffer together, the output and then
\* the buffer hold the lines read so far, in order; and the buffer holds more
\* than M lines only after a wait ended without a signal, because the wait of
\* line 90 is not in a loop (read_from_file, write_to_file).
LinesInOrder ==
  /\ raced \/ output \o buffer = SubSeq(Lines, 1, read)
  /\ spurious = 0 => Len(buffer) <= M

\* The threads finish, with the whole file written, unless the consumer
\* signalled a producer that had not begun to wait (read_from_file).
Finished == \A t \in Threads : pc[t] = "done"
FinishesUnlessMissed == <>(missed \/ raced \/ (Finished /\ output = Lines))
=============================================================================
