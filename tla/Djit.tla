-------------------------------- MODULE Djit --------------------------------
(***************************************************************************)
(* The DJIT+ race detector of cs636/assignment1 (djit.h): per address and  *)
(* thread the time frames of the last read and the last write, compared    *)
(* with the vector clock of the thread that accesses the address.  The     *)
(* bytes of a wider access are independent: each is an access of its own.  *)
(***************************************************************************)
EXTENDS HbClocks

VARIABLES
  history,   \* access_history_map: last_read and last_write by address, thread
  races      \* data_race_map: <<access, earlier thread, kind>>

djitVars == <<history, races>>

Init ==
  /\ InitClocks
  /\ history = [v \in Vars |-> [u \in Tids |-> [read |-> 0, write |-> 0]]]
  /\ races = {}

\* Mutant: a write in the frame that is known counts as unknown.
UnknownOrEqual(c, u, frame) == frame > 0 /\ frame >= c[u]

\* The frame of u is not in the past of a thread with clock c.
Unknown(c, u, frame) == frame > c[u]

Others(t) == Tids \ {t}

\* onRead_DJIT(): compared with the writes; remembered unless it races.
OnRead(t, v) ==
  LET rw == {u \in Others(t) : Unknown(C[t], u, history[v][u].write)}
  IN
  /\ Running(t)
  /\ Record(t, v, FALSE, rw = {})
  /\ races' = races \cup {<<Len(accesses) + 1, u, "R-W">> : u \in rw}
  /\ history' = IF rw # {} THEN history
                ELSE [history EXCEPT ![v][t].read = C[t][t]]

\* Mutant: only the writes are compared with a write.
ReadersOfWriteForgotten(t, v) == {}

ReadersUnknown(t, v) ==
  {u \in Others(t) : Unknown(C[t], u, history[v][u].read)}

\* onWrite_DJIT(): compared with the writes and the reads.
OnWrite(t, v) ==
  LET ww == {u \in Others(t) : Unknown(C[t], u, history[v][u].write)}
      wr == ReadersUnknown(t, v)
      n  == Len(accesses) + 1
  IN
  /\ Running(t)
  /\ Record(t, v, TRUE, ww \cup wr = {})
  /\ races' = races \cup {<<n, u, "W-W">> : u \in ww}
                    \cup {<<n, u, "W-R">> : u \in wr}
  /\ history' = IF ww \cup wr # {} THEN history
                ELSE [history EXCEPT ![v][t].write = C[t][t]]

Next ==
  \/ Sync /\ UNCHANGED djitVars
  \/ \E t \in Tids, v \in Vars : OnRead(t, v) \/ OnWrite(t, v)
=============================================================================
