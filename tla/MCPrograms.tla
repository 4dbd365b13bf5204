----------------------------- MODULE MCPrograms -----------------------------
(* Finite instances of the programs: the two producer-consumer programs, the *)
(* halo exchange, the trace module, and the data structures.  A behaviour is *)
(* one of the program that kind names.                                       *)
EXTENDS MCStructures

VARIABLES
  mutex, buffer, read, END_OF_FILE_REACHED, output, ppc, number_of_lines_read,
  waiting, spurious, missed, raced,
  tid, thread, opc, arg, obuffer, oread, ooutput, oend, current_thread,
  current_line_count, main, omixed,
  case, eager, step, hpc, sent, hgot, local_data, recv, channel, reduced, results,
  clock, tcalls, tracked, stack, log_offset, writer, sets, tangled

pthreadVars ==
  <<mutex, buffer, read, END_OF_FILE_REACHED, output, ppc, number_of_lines_read,
    waiting, spurious, missed, raced>>
openmpVars ==
  <<tid, thread, opc, arg, obuffer, oread, ooutput, oend, current_thread,
    current_line_count, main, omixed>>
haloVars ==
  <<case, eager, step, hpc, sent, hgot, local_data, recv, channel, reduced, results>>
traceVars == <<clock, tcalls, tracked, stack, log_offset, writer, sets, tangled>>
otherVars == <<pthreadVars, openmpVars, haloVars, traceVars>>
progVars == <<allVars, otherVars>>

\* A producer wants three lines at a time and the buffer holds two of the four.
P == INSTANCE ProducerConsumer WITH
       pc <- ppc,
       Producers <- {t1, t2}, Consumer <- t3, L <- 3, M <- 2, FileLines <- 4,
       MaxSpurious <- 1

M == INSTANCE OmpProducerConsumer WITH
       pc <- opc, buffer <- obuffer, read <- oread, output <- ooutput,
       END_OF_FILE_REACHED <- oend, mixed <- omixed,
       T <- 2, L <- 1, M <- 1, FileLines <- 2

\* Four processes in a square and three or two in a line, with values that
\* tie, in one or two time steps.
Tabulate(n, g(_)) == [i \in 0 .. (n - 1) |-> g(i)]
Cases ==
  {[P |-> <<2, 2, 1>>, N |-> <<2, 4, 1>>, NC |-> 1,
    file |-> Tabulate(8, LAMBDA i : (5 * i * i + i) % 7)],
   [P |-> <<3, 1, 1>>, N |-> <<3, 1, 2>>, NC |-> 2,
    file |-> Tabulate(12, LAMBDA i : (7 * i * i) % 11)],
   [P |-> <<1, 1, 2>>, N |-> <<2, 1, 4>>, NC |-> 2,
    file |-> Tabulate(16, LAMBDA i : (i * i) % 5)]}
H == INSTANCE HaloExchange WITH t <- step, pc <- hpc, got <- hgot

\* a calls b and b calls c, one more than the stack of the trace can hold.
Callees == "a" :> {"b"} @@ "b" :> {"c"} @@ "c" :> {}
T == INSTANCE ExecTraceHook WITH
       calls <- tcalls,
       Threads <- {t1, t2}, Fns <- DOMAIN Callees, Roots <- {"a"}, MAX_DEPTH <- 2,
       LOG_LINES <- 1, MaxTime <- 1, MaxSets <- 2

ASSUME P!ConstantsOK /\ M!ConstantsOK /\ H!ConstantsOK /\ T!ConstantsOK

ProgInit ==
  /\ kind \in Structures \cup {"pthread", "openmp", "halo", "trace"}
  /\ StructuresStart /\ P!Init /\ M!Init /\ H!Init /\ T!Init
  /\ kind # "openmp" => tid = 0
  /\ kind # "halo" => eager /\ case = CHOOSE c \in Cases : TRUE

Pthread == kind = "pthread" /\ UNCHANGED <<allVars, openmpVars, haloVars, traceVars>>
Openmp == kind = "openmp" /\ UNCHANGED <<allVars, pthreadVars, haloVars, traceVars>>
Halo == kind = "halo" /\ UNCHANGED <<allVars, pthreadVars, openmpVars, traceVars>>
Trace == kind = "trace" /\ UNCHANGED <<allVars, pthreadVars, openmpVars, haloVars>>

ProgNext ==
  \/ StructuresNext /\ UNCHANGED otherVars
  \/ Pthread /\ P!Next
  \/ Openmp /\ M!Next
  \/ Halo /\ H!Next
  \/ Trace /\ T!Next

\* The fairness of the modules.
mVars == M!vars
hVars == H!vars
Retried(t) ==
  \/ Exchange(t) /\ UNCHANGED otherVars
  \/ Pthread /\ P!Step(t)
ProgSpec ==
  /\ ProgInit /\ [][ProgNext]_progVars
  /\ \A u \in Everyone : WF_allVars(Thread(u))
  /\ \A u \in {t1, t2, t3} : SF_progVars(Retried(u))
  /\ WF_mVars(Openmp /\ M!Run) /\ WF_hVars(Halo /\ H!Next)

\* What a program gives out.  The lines of a file come out once each and in their
\* order, as long as the threads do not meet in the ways the modules name
\* (producer, consumer; read_from_file, write_to_file); the log of the trace module
\* has each call with its own time (exec_trace_hook).
OutputExact == P!LinesInOrder /\ M!OneReaderInOrder /\ T!TraceExact

\* The minima, maxima and counts of the halo exchange are those of the file.
ResultsExact == H!ResultsExact

\* A program comes to its end, unless its threads meet in a way it does not
\* handle, and every call of a data structure returns (AnyBusy).
AtEnd ==
  CASE kind \in Structures -> \A u \in Everyone : ~AnyBusy(u)
    [] kind = "pthread" -> missed \/ raced \/ (P!Finished /\ output = P!Lines)
    [] kind = "openmp" -> omixed \/ main = "exit"
    [] kind = "halo" -> H!Finished
    [] kind = "trace" -> TRUE
ProgramsEnd == <>[]AtEnd
=============================================================================
