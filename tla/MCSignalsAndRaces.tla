------------------------- MODULE MCSignalsAndRaces -------------------------
(* Finite instances of the signals of a process group and of the race       *)
(* detectors.  A behaviour is one of the part that kind names: the          *)
(* variables of the signals are Null in one of the detectors, those of the  *)
(* detectors stay at their initial values in one of the signals.            *)
EXTENDS RaceDetector, TLC

CONSTANTS Null, t1, t2, t3, g1, g2

VARIABLES
  kind,
  sig, th, siglock, delayed, pc, child, todo, sends, pgrp, hit, handled, before

signalsVars ==
  <<sig, th, siglock, delayed, pc, child, todo, sends, pgrp, hit, handled, before>>
partsVars == <<kind, signalsVars, vars>>

-----------------------------------------------------------------------------
(* A process of two threads, which makes a third or another process, and     *)
(* the signals sent to it.                                                   *)
Three(x1, x2, x3) == t1 :> x1 @@ t2 :> x2 @@ t3 :> x3
SignalScripts ==
  {Three(<<"fork">>, <<"pause">>, <<>>), Three(<<"clone">>, <<"pause">>, <<>>),
   Three(<<"pause">>, <<"block", "unblock">>, <<>>),
   Three(<<"timedwait">>, <<"exit">>, <<>>),
   Three(<<"exit">>, <<"clone">>, <<"ignore">>),
   Three(<<"block", "fork", "unblock">>, <<"handle">>, <<"unblock">>)}
SendLists ==
  {<<<<"TERM", "PGID">>, <<"STOP", "TGID">>>>, <<<<"TSTP", "PGID">>, <<"CONT", "TGID">>>>,
   <<<<"STOP", "PID">>, <<"CONT", "PGID">>>>, <<<<"STOP", "TGID">>, <<"KILL", "PGID">>>>,
   <<<<"CONT", "PGID">>, <<"TSTP", "PGID">>>>, <<<<"TERM", "PGID">>>>}
G == INSTANCE GroupSignals WITH
       Threads <- {t1, t2, t3}, Groups <- {g1, g2}, Handlers <- {"DFL", "HANDLER"},
       Scripts <- SignalScripts

ASSUME G!ConstantsOK /\ ConstantsOK

-----------------------------------------------------------------------------
SignalsOff ==
  /\ sig = Null /\ th = Null /\ siglock = Null /\ delayed = Null /\ pc = Null
  /\ child = Null /\ todo = Null /\ sends = Null /\ pgrp = Null /\ hit = Null
  /\ handled = Null /\ before = Null
RacesOff == Init /\ mode = "djit"

PartsInit ==
  \/ kind = "signals" /\ G!Init /\ RacesOff
  \/ kind = "races" /\ Init /\ SignalsOff

PartsNext ==
  \/ kind = "signals" /\ G!Next /\ UNCHANGED <<kind, vars>>
  \/ kind = "races" /\ Next /\ UNCHANGED <<kind, signalsVars>>

PartsSpec == PartsInit /\ [][PartsNext]_partsVars

-----------------------------------------------------------------------------
(* The properties of the signals; those of the detectors are in their        *)
(* module.                                                                   *)
StopExact == kind = "signals" => G!StopExact /\ G!NeverBoth
HasTaker == kind = "signals" => G!HasTaker
SignalsReach == kind = "signals" => G!NoSurvivor /\ G!AllHandled
=============================================================================
