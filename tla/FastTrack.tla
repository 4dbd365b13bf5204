----------------------------- MODULE FastTrack -----------------------------
(***************************************************************************)
(* The FastTrack race detector of cs636/assignment1 (fasttrack.h): per     *)
(* address the epoch of the last write, and of the reads an epoch or, once *)
(* they are concurrent, a vector clock.  Accesses are of one byte each:    *)
(* the variables that a wider access carries from byte to byte are left    *)
(* out.                                                                    *)
(***************************************************************************)
EXTENDS HbClocks

VARIABLES
  writeEpoch,   \* write_epochs: <<time, thread>> by address, or NoEpoch
  readEpoch,    \* read_epochs
  readMap,      \* read_map: a vector clock by address, or NoClock
  races         \* data_race_map: <<access, earlier thread, kind>>

ftVars == <<writeEpoch, readEpoch, readMap, races>>

NoEpoch == <<>>
NoClock == <<>>

Init ==
  /\ InitClocks
  /\ writeEpoch = [v \in Vars |-> NoEpoch]
  /\ readEpoch = [v \in Vars |-> NoEpoch]
  /\ readMap = [v \in Vars |-> NoClock]
  /\ races = {}

Epoch(t) == <<C[t][t], t>>
LastWrite(v) == IF writeEpoch[v] = NoEpoch THEN 0 ELSE writeEpoch[v][1]
Logged(u, kind) == races' = races \cup {<<Len(accesses) + 1, u, kind>>}

\* What an uninitialised thread_time may hold.
Junk == 0 .. (MaxTime + 1)

-----------------------------------------------------------------------------
(* onRead_FT() *)

\* The reads of v are an epoch c@u.  The last write is compared with what t
\* knows of u, be u its writer or not.
ReadEpochKnown(t, v) ==
  LET c == readEpoch[v][1]
      u == readEpoch[v][2]
      unordered == LastWrite(v) > C[t][u]
  IN
  /\ readEpoch[v] # NoEpoch
  /\ Record(t, v, FALSE, ~unordered)
  /\ IF unordered THEN Logged(writeEpoch[v][2], "R-W") ELSE UNCHANGED races
  /\ readEpoch' =
       [readEpoch EXCEPT ![v] =
          IF unordered THEN @
          ELSE IF c < C[t][u] THEN Epoch(t)
          ELSE IF u # t THEN NoEpoch ELSE @]
  /\ readMap' =
       IF unordered \/ c < C[t][u] \/ u = t THEN readMap
       ELSE [readMap EXCEPT ![v] =
               [w \in Tids |-> CASE w = u -> C[t][u]
                                 [] w = t -> C[t][t]
                                 [] OTHER -> 0]]

\* The reads of v are a vector clock: thread_time was never assigned.
ReadShared(t, v) ==
  /\ readEpoch[v] = NoEpoch /\ readMap[v] # NoClock
  /\ \E junk \in Junk :
       LET unordered == LastWrite(v) > junk IN
       /\ Record(t, v, FALSE, ~unordered)
       /\ IF unordered THEN Logged(writeEpoch[v][2], "R-W") ELSE UNCHANGED races
       /\ readMap' = IF unordered THEN readMap
                     ELSE [readMap EXCEPT ![v][t] = junk]
  /\ UNCHANGED readEpoch

\* The first read since the reads were last forgotten: no comparison.
ReadFirst(t, v) ==
  /\ readEpoch[v] = NoEpoch /\ readMap[v] = NoClock
  /\ Record(t, v, FALSE, TRUE)
  /\ readEpoch' = [readEpoch EXCEPT ![v] = Epoch(t)]
  /\ UNCHANGED <<readMap, races>>

OnRead(t, v) ==
  /\ Running(t)
  /\ ReadEpochKnown(t, v) \/ ReadShared(t, v) \/ ReadFirst(t, v)
  /\ UNCHANGED writeEpoch

-----------------------------------------------------------------------------
(* onWrite_FT() *)

WrittenByOther(t, v) == writeEpoch[v] # NoEpoch /\ writeEpoch[v][2] # t

\* The first write, or one by the last writer: no comparison.
WriteAgain(t, v) ==
  /\ ~WrittenByOther(t, v)
  /\ Record(t, v, TRUE, TRUE)
  /\ writeEpoch' = [writeEpoch EXCEPT ![v] = Epoch(t)]
  /\ UNCHANGED <<readEpoch, readMap, races>>

\* Mutant: a write in the frame that is known counts as unordered.
UnorderedOrSame(t, e) == e[1] >= C[t][e[2]]

UnorderedWrite(t, e) == e[1] > C[t][e[2]]

\* W-W: the last write is by another thread and is not known to t.
WriteAfterWrite(t, v) ==
  /\ WrittenByOther(t, v) /\ UnorderedWrite(t, writeEpoch[v])
  /\ Record(t, v, TRUE, FALSE)
  /\ Logged(writeEpoch[v][2], "W-W")
  /\ UNCHANGED <<writeEpoch, readEpoch, readMap>>

\* The reads are an epoch: its time is compared with what t knows of the last
\* writer, be it the reader or not.
WriteExclusive(t, v) ==
  LET known == C[t][writeEpoch[v][2]]
      ordered == readEpoch[v][1] <= known
  IN
  /\ WrittenByOther(t, v) /\ ~UnorderedWrite(t, writeEpoch[v])
  /\ readEpoch[v] # NoEpoch
  /\ Record(t, v, TRUE, ordered)
  /\ IF ordered
     THEN writeEpoch' = [writeEpoch EXCEPT ![v] = Epoch(t)] /\ UNCHANGED races
     ELSE Logged(readEpoch[v][2], "W-R") /\ UNCHANGED writeEpoch
  /\ UNCHANGED <<readEpoch, readMap>>

\* The reads are a vector clock, or there are none.  To name the reader of a
\* race the code looks up read_epochs[v], which makes an entry 0@0.
WriteShared(t, v) ==
  LET shared == readMap[v] # NoClock
      ordered == shared => \A w \in Tids : readMap[v][w] <= C[t][w]
  IN
  /\ WrittenByOther(t, v) /\ ~UnorderedWrite(t, writeEpoch[v])
  /\ readEpoch[v] = NoEpoch
  /\ Record(t, v, TRUE, ordered)
  /\ IF ordered
     THEN /\ writeEpoch' = [writeEpoch EXCEPT ![v] = Epoch(t)]
          /\ readMap' = [readMap EXCEPT ![v] = NoClock]
          /\ UNCHANGED <<readEpoch, races>>
     ELSE /\ readEpoch' = [readEpoch EXCEPT ![v] = <<0, 0>>]
          /\ Logged(0, "W-R")
          /\ UNCHANGED <<writeEpoch, readMap>>

OnWrite(t, v) ==
  /\ Running(t)
  /\ \/ WriteAgain(t, v) \/ WriteAfterWrite(t, v)
     \/ WriteExclusive(t, v) \/ WriteShared(t, v)

Next ==
  \/ Sync /\ UNCHANGED ftVars
  \/ \E t \in Tids, v \in Vars : OnRead(t, v) \/ OnWrite(t, v)
=============================================================================
