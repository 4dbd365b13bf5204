---------------------------- MODULE RaceDetector ----------------------------
(***************************************************************************)
(* The race detector of cs636/assignment1 (main.cpp): the first argument   *)
(* says which of the two algorithms reads the trace.  What either of them  *)
(* reports is compared here with happens-before itself.                    *)
(***************************************************************************)
EXTENDS HbClocks

VARIABLES
  mode,                             \* "djit" or "fasttrack"
  history,                          \* of Djit
  writeEpoch, readEpoch, readMap,   \* of FastTrack
  races                             \* data_race_map, which both fill

D == INSTANCE Djit
F == INSTANCE FastTrack

djitOnly == history
ftOnly == <<writeEpoch, readEpoch, readMap>>
vars == <<clockVars, progVars, hbVars, accesses, mode, djitOnly, ftOnly, races>>

Init ==
  /\ mode \in {"djit", "fasttrack"}
  /\ D!Init /\ F!Init

Next ==
  \/ mode = "djit" /\ D!Next /\ UNCHANGED <<mode, ftOnly>>
  \/ mode = "fasttrack" /\ F!Next /\ UNCHANGED <<mode, djitOnly>>

Spec == Init /\ [][Next]_vars

-----------------------------------------------------------------------------
Report(n, u, kinds) == \E r \in races : r[1] = n /\ r[2] = u /\ r[3] \in kinds

\* The last write before access n to the same address that the tool took.
LastKeptWrite(i, n) ==
  LET taken(j) == /\ accesses[j].isWrite /\ accesses[j].kept
                  /\ accesses[j].addr = accesses[n].addr
  IN i < n /\ taken(i) /\ \A j \in (i + 1) .. (n - 1) : ~taken(j)

\* DJIT+: every race that is logged is one.  Some earlier access of the thread
\* it names conflicts with this one and does not happen before it
\* (onRead_DJIT, onWrite_DJIT).
NoFalseAlarm ==
  mode = "djit" =>
    \A r \in races : \E i \in DOMAIN accesses :
      Races(i, r[1]) /\ accesses[i].tid = r[2]

\* DJIT+: every access that is unordered with an earlier conflicting one is
\* logged, provided the tool remembers the earlier one, it is not from the
\* first time frame of its thread, which all clocks contain from the start, and
\* no thread began late (onRead_DJIT, onWrite_DJIT, onRelease).
LaterFramesComplete ==
  mode = "djit" /\ ~late =>
    \A i, n \in DOMAIN accesses :
      Races(i, n) /\ accesses[i].kept /\ accesses[i].frame > 1 =>
        Report(n, accesses[i].tid, {"R-W", "W-W", "W-R"})

\* FastTrack: a W-W report names the thread of an earlier write that races with
\* this one (onWrite_FT).
WriteReportsTrue ==
  mode = "fasttrack" =>
    \A r \in races : r[3] = "W-W" =>
      \E i \in DOMAIN accesses :
        /\ Races(i, r[1]) /\ accesses[i].isWrite /\ accesses[i].tid = r[2]

\* FastTrack: a write that races with the last write that was taken, not of a
\* first time frame, is reported unless a thread began late (onWrite_FT).
WriteRacesReported ==
  mode = "fasttrack" /\ ~late =>
    \A i, n \in DOMAIN accesses :
      /\ accesses[n].isWrite /\ LastKeptWrite(i, n)
      /\ Races(i, n) /\ accesses[i].frame > 1
      => Report(n, accesses[i].tid, {"W-W"})

\* What is logged as a race is one: of DJIT+ every log, of FastTrack the W-W logs
\* (onRead_DJIT, onWrite_DJIT, onWrite_FT).  FastTrack's R-W logs compare the last
\* write with the clock of the last reader, or with an unset variable (onRead_FT),
\* and its W-R logs the last read with the clock of the last writer (onWrite_FT):
\* these may be false, and nothing is said of them.
ReportsTrue == NoFalseAlarm /\ WriteReportsTrue

\* Both algorithms: a race of the kinds that are looked for is logged.
RacesReported == LaterFramesComplete /\ WriteRacesReported

\* "NO DATA RACES FOUND IN THIS TRACE." (printDataRaces, commonutil.h:241): an
\* empty log means that no two accesses of the trace race, those of first time
\* frames and of traces in which a thread began late left aside.
NoneFoundNoneLater ==
  ~late /\ races = {} =>
    \A i, n \in DOMAIN accesses : Races(i, n) => accesses[i].frame = 1
=============================================================================
