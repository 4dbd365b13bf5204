------------------------- MODULE WaitChildrenProofs -------------------------
(***************************************************************************)
(* The end of processes and the wait for them, for every family of         *)
(* processes, every process group and every plan of exits, stops and       *)
(* waits.                                                                  *)
(*                                                                         *)
(* The argument.  Life ties the place of a thread to its exit_state, and   *)
(* DeadLists gives each dead task that is still in the lists to one thread *)
(* that releases it.  Linked: a stopped job has a link to the session that *)
(* is not announced, so a link that breaks is broken by an exit_notify()   *)
(* that looks at the group.  AtHome: a child that has left the process     *)
(* that forked it finds none of its threads alive.  Content: a thread on   *)
(* its way to sleep has seen nothing to report among the children it has   *)
(* looked at, and has seen one that will have to be reported, unless it    *)
(* has been woken since.                                                   *)
(***************************************************************************)
EXTENDS WaitChildren, TLAPS

LookPhases == {"repeat", "scan", "reap", "sleep"}
DeadPhases == {"release", "gone"}
EndPhases == DeadPhases \cup {"exiting"}
Phases == LookPhases \cup EndPhases \cup {"run", "reaped"}
Waits == [pid : Leaders \cup {AnyChild}, flags : SUBSET WaitFlags]
Frames ==
  [wo : Waits, child : BOOLEAN, todo : SUBSET Leaders, p : Leaders,
   dead : SUBSET Threads, group_dead : BOOLEAN]
Counts == [exit : {0, 1}, stop : {0, 1}, cont : {0, 1}]

WaitTypes ==
  /\ plan \in Plans
  /\ phase \in [Threads -> Phases] /\ frame \in [Threads -> Frames]
  /\ awake \in [Threads -> BOOLEAN]
  /\ exit_state \in [Threads -> {"alive", "zombie", "dead"}]
  /\ hashed \subseteq Threads /\ real_parent \in [Leaders -> Threads]
  /\ stop \in [Leaders -> {"no", "stopped", "reported", "continued"}]
  /\ note \subseteq Leaders /\ stops \subseteq Leaders
  /\ got \in [Leaders -> Counts] /\ released \in [Threads -> {0, 1}]

\* A thread is a zombie or dead from exit_notify() on, and out of the lists when
\* it has been released; a leader does not die before the rest of its group.
Life ==
  /\ \A t \in Threads :
       /\ phase[t] \in DeadPhases <=> exit_state[t] # "alive"
       /\ IF t \in hashed THEN released[t] = 0
          ELSE released[t] = 1 /\ exit_state[t] = "dead"
  /\ phase[InitTask] \notin EndPhases
  /\ \A p \in Leaders : exit_state[p] = "dead" => GroupEmpty(p, hashed)

\* What is to be released is dead, in the lists, and of one thread.
DeadLists ==
  \A t \in Threads :
    /\ phase[t] \notin {"release", "reaped"} => frame[t].dead = {}
    /\ \A p \in frame[t].dead :
         /\ p \in hashed /\ exit_state[p] = "dead"
         /\ \A u \in Threads \ {t} : p \notin frame[u].dead

\* Under the read lock the children stay what they are.
Looking(t) ==
  /\ phase[t] \in {"scan", "reap"} => frame[t].todo \subseteq Children(t)
  /\ phase[t] = "reap" =>
       /\ frame[t].p \in frame[t].todo
       /\ GroupEmpty(frame[t].p, hashed) /\ exit_state[frame[t].p] # "alive"
Looks == \A t \in Threads : Looking(t)

\* What has been reported is not there to be reported again.
Reports ==
  \A p \in Leaders :
    /\ exit_state[p] # "dead" => got[p].exit = 0
    /\ stop[p] # "no" => p \in stops /\ got[p].cont = 0
    /\ p \notin stops \/ stop[p] = "stopped" => got[p].stop = 0 /\ got[p].cont = 0
    /\ (\A u \in Group(p) : PF_EXITING(u)) => stop[p] = "no"

Linked ==
  \A p \in (Leaders \cap hashed) \ late :
    Stopped(p) => ~Orphaned(Pgrp[p], Announced, exit_state, hashed, real_parent)

AtHome ==
  \A p \in Leaders :
    Leader[real_parent[p]] # Leader[Parent[p]] =>
      \A u \in Group(Leader[Parent[p]]) : PF_EXITING(u)

\* The children that a look has passed, and what it knows of them.
Seen(t) == Children(t) \ frame[t].todo
Content(t) ==
  /\ \A p \in Seen(t) :
       /\ HasFlag(t, "WEXITED") => ~Reapable(p)
       /\ (p \notin note /\ Leader[Parent[p]] = Leader[t]) => NoStopToReport(t, p)
  /\ (HasFlag(t, "WEXITED") /\ frame[t].child) => \E p \in Seen(t) : exit_state[p] # "dead"
ServedWell(t) ==
  /\ phase[t] = "sleep" => frame[t].child /\ frame[t].todo = {}
  /\ (phase[t] \in {"scan", "reap", "sleep"} /\ ~awake[t] /\ ~HasFlag(t, "__WNOTHREAD"))
       => Content(t)
Served == \A t \in Threads : ServedWell(t)

WaitInv ==
  /\ WaitTypes /\ Life /\ DeadLists /\ Looks /\ Reports /\ HasHeir
  /\ Linked /\ AtHome /\ Served

-----------------------------------------------------------------------------
(* Groups and links                                                          *)

LEMMA LeaderFacts ==
  ASSUME WaitConstantsOK
  PROVE  /\ \A t \in Threads : Leader[t] \in Leaders /\ t \in Group(Leader[t])
         /\ \A p \in Leaders : p \in Threads /\ Leader[p] = p /\ p \in Group(p)
         /\ \A p \in Leaders : \A u \in Group(p) : u \in Threads /\ Leader[u] = p
         /\ InitTask \in Leaders /\ Parent[InitTask] = InitTask
         /\ \A p \in Leaders : Parent[p] \in Threads
BY DEF WaitConstantsOK, Leaders, Group

\* A thread that is out of the lists has ended; so has a group that is empty but
\* for a leader that is not alive.
LEMMA OutIsEnded ==
  ASSUME WaitTypes, Life
  PROVE  /\ \A t \in Threads : t \notin hashed => phase[t] \in DeadPhases
         /\ \A p \in Leaders : p \in Threads /\ exit_state[p] # "alive" /\ GroupEmpty(p, hashed)
              => \A u \in Group(p) : phase[u] \in DeadPhases /\ PF_EXITING(u)
<1>1. ASSUME NEW t \in Threads, t \notin hashed PROVE phase[t] \in DeadPhases
  BY <1>1 DEF Life
<1>2. ASSUME NEW p \in Leaders, p \in Threads, exit_state[p] # "alive", GroupEmpty(p, hashed),
             NEW u \in Group(p)
      PROVE  phase[u] \in DeadPhases /\ PF_EXITING(u)
  <2>1. u \in Threads
    BY DEF Group
  <2>2. u = p \/ u \notin hashed
    BY <1>2 DEF GroupEmpty
  <2>3. phase[u] \in DeadPhases
    BY <1>1, <1>2, <2>1, <2>2 DEF Life
  <2> QED BY <2>3 DEF DeadPhases, PF_EXITING
<1> QED BY <1>1, <1>2

\* A process that connects the group q to another group of its session.
Links(q, x, states, threads, parents) ==
  /\ x \in threads \cap Leaders /\ Pgrp[x] = q
  /\ ~(states[x] # "alive" /\ GroupEmpty(x, threads))
  /\ Leader[parents[x]] # InitTask /\ Pgrp[Leader[parents[x]]] # q

LEMMA OrphanHasNoLink ==
  ASSUME NEW q, NEW S, NEW states, NEW threads, NEW parents
  PROVE  Orphaned(q, S, states, threads, parents)
           <=> \A x : Links(q, x, states, threads, parents) => x \in S
BY DEF Orphaned, Links

LEMMA LinkedMeans ==
  ASSUME Linked, NEW p \in (Leaders \cap hashed) \ late, Stopped(p)
  PROVE  \E x : Links(Pgrp[p], x, exit_state, hashed, real_parent) /\ x \notin Announced
BY OrphanHasNoLink DEF Linked

LEMMA InvOrphans ==
  ASSUME Linked
  PROVE  OrphansContinued
BY OrphanHasNoLink DEF Linked, OrphansContinued

-----------------------------------------------------------------------------
(* What most steps leave alone                                               *)

\* No thread begins to end, or comes further with its end.
EndsKept ==
  \A t \in Threads :
    \/ phase'[t] = phase[t] /\ (phase[t] \in EndPhases => frame'[t] = frame[t])
    \/ phase[t] \notin EndPhases /\ phase'[t] \notin EndPhases

LEMMA EndsKeptMeans ==
  ASSUME EndsKept
  PROVE  /\ \A t \in Threads : PF_EXITING(t)' <=> PF_EXITING(t)
         /\ \A t \in Threads : phase'[t] \in DeadPhases <=> phase[t] \in DeadPhases
         /\ Announced' = Announced
<1>1. \A t \in Threads : PF_EXITING(t)' <=> PF_EXITING(t)
  BY DEF EndsKept, PF_EXITING, EndPhases, DeadPhases
<1>2. \A t \in Threads : phase'[t] \in DeadPhases <=> phase[t] \in DeadPhases
  BY DEF EndsKept, EndPhases, DeadPhases
<1>3. \A t \in Threads :
        (phase[t] = "exiting" /\ frame[t].group_dead)' <=> phase[t] = "exiting" /\ frame[t].group_dead
  BY DEF EndsKept, EndPhases
<1>4. \A p \in Leaders : Group(p) \subseteq Threads
  BY DEF Group
<1> QED BY <1>1, <1>2, <1>3, <1>4 DEF Announced

LEMMA CalmStep ==
  ASSUME WaitConstantsOK, WaitInv, EndsKept,
         UNCHANGED <<plan, hashed, real_parent, released, exit_state>>
  PROVE  /\ Life' /\ HasHeir' /\ AtHome'
         /\ UNCHANGED late /\ (\A p \in Leaders : Stopped(p)' => Stopped(p)) => Linked'
<1>1. Life'
  <2>1. InitTask \in Threads /\ phase'[InitTask] \notin EndPhases
    BY LeaderFacts DEF WaitInv, Life, EndsKept
  <2> QED BY <2>1, EndsKeptMeans DEF WaitInv, Life, GroupEmpty
<1>2. HasHeir'
  <2>1. \A p \in Leaders : real_parent[p] \in Threads
    BY DEF WaitInv, WaitTypes
  <2> QED BY <2>1, EndsKeptMeans DEF WaitInv, HasHeir, DeadPhases, Reapable, Ignored, GroupEmpty
<1>3. AtHome'
  <2>1. \A p \in Leaders : Group(Leader[Parent[p]]) \subseteq Threads
    BY DEF Group
  <2> QED BY <2>1, EndsKeptMeans DEF WaitInv, AtHome
<1>4. ASSUME UNCHANGED late, \A p \in Leaders : Stopped(p)' => Stopped(p) PROVE Linked'
  <2>1. Announced' = Announced
    BY EndsKeptMeans
  <2> QED BY <1>4, <2>1 DEF WaitInv, Linked
<1> QED BY <1>1, <1>2, <1>3, <1>4

LEMMA DeadListsKept ==
  ASSUME WaitInv, UNCHANGED hashed,
         \A p \in Threads : exit_state[p] = "dead" => exit_state'[p] = "dead",
         \A t \in Threads : /\ frame'[t].dead = frame[t].dead
                            /\ phase'[t] = phase[t] \/ frame'[t].dead = {}
  PROVE  DeadLists'
<1>1. \A t \in Threads : frame[t].dead \subseteq Threads
  BY DEF WaitInv, WaitTypes, Frames
<1>2. ASSUME NEW t \in Threads
      PROVE  phase'[t] \notin {"release", "reaped"} => frame'[t].dead = {}
  BY <1>2 DEF WaitInv, DeadLists
<1>3. ASSUME NEW t \in Threads, NEW p \in frame'[t].dead
      PROVE  /\ p \in hashed' /\ exit_state'[p] = "dead"
             /\ \A u \in Threads \ {t} : p \notin frame'[u].dead
  BY <1>1, <1>3 DEF WaitInv, DeadLists
<1> QED BY <1>2, <1>3 DEF DeadLists

\* The look of another thread is not disturbed.
LEMMA LookingKept ==
  ASSUME WaitInv, NEW u \in Threads, phase'[u] = phase[u], frame'[u] = frame[u],
         UNCHANGED <<hashed, real_parent>>,
         \A p \in Leaders : exit_state[p] # "alive" => exit_state'[p] # "alive"
  PROVE  Looking(u)'
<1>1. frame[u].p \in Leaders
  BY DEF WaitInv, WaitTypes, Frames
<1>2. Children(u)' = Children(u)
  BY DEF Children
<1> QED BY <1>1, <1>2 DEF WaitInv, Looks, Looking, GroupEmpty

\* Nor is what it knows, unless it is woken.
LEMMA ServedKept ==
  ASSUME WaitInv, NEW u \in Threads, phase'[u] = phase[u], frame'[u] = frame[u],
         awake[u] => awake'[u], UNCHANGED <<hashed, real_parent>>,
         ASSUME ~awake'[u], ~HasFlag(u, "__WNOTHREAD"), phase[u] \in {"scan", "reap", "sleep"},
                NEW p \in Seen(u)
         PROVE  /\ exit_state'[p] = "zombie" => exit_state[p] = "zombie"
                /\ (HasFlag(u, "WEXITED") /\ ~Reapable(p) /\ exit_state[p] # "dead")
                     => exit_state'[p] # "dead"
                /\ stop'[p] \in {stop[p], "no", "reported"} \/ p \in note'
                /\ p \in note => p \in note' \/ Leader[Parent[p]] # Leader[u]
  PROVE  ServedWell(u)'
<1> SUFFICES ASSUME phase[u] \in {"scan", "reap", "sleep"}, ~awake'[u],
                    ~HasFlag(u, "__WNOTHREAD")
             PROVE  Content(u)'
  BY DEF WaitInv, Served, ServedWell, HasFlag
<1>1. Content(u)
  BY DEF WaitInv, Served, ServedWell
<1>2. Children(u)' = Children(u) /\ Seen(u)' = Seen(u)
  BY DEF Children, Seen
<1>3. \A f : HasFlag(u, f)' <=> HasFlag(u, f)
  BY DEF HasFlag
<1>4. ASSUME NEW p \in Seen(u), HasFlag(u, "WEXITED") PROVE ~Reapable(p)'
  <2>1. ~Reapable(p)
    BY <1>1, <1>4 DEF Content
  <2> QED BY <2>1, <1>4 DEF Reapable, GroupEmpty
<1>5. ASSUME NEW p \in Seen(u), p \notin note', Leader[Parent[p]] = Leader[u]
      PROVE  NoStopToReport(u, p)'
  <2>1. NoStopToReport(u, p)
    BY <1>1, <1>5 DEF Content
  <2> QED BY <2>1, <1>3, <1>5 DEF NoStopToReport
<1>6. ASSUME HasFlag(u, "WEXITED"), frame[u].child
      PROVE  \E p \in Seen(u) : exit_state'[p] # "dead"
  BY <1>1, <1>6 DEF Content
<1> QED BY <1>2, <1>3, <1>4, <1>5, <1>6 DEF Content

\* A waiter without __WNOTHREAD is woken by news of a child of its process.
LEMMA ChildWakes ==
  ASSUME WaitConstantsOK, NEW u \in Threads, phase[u] \in LookPhases,
         ~HasFlag(u, "__WNOTHREAD"), NEW ps, NEW parents, NEW p \in ps,
         Leader[parents[p]] = Leader[u], frame[u].wo.pid \in {p, AnyChild}
  PROVE  u \in Woken(ps, parents)
BY DEF Woken, Waiting, HasFlag, LookPhases

LEMMA ChildOfProcess ==
  ASSUME WaitConstantsOK, WaitTypes, NEW u \in Threads, NEW p \in Children(u)
  PROVE  /\ p \in Leaders /\ p \in hashed /\ Leader[real_parent[p]] = Leader[u]
         /\ frame[u].wo.pid \in {p, AnyChild} /\ real_parent[p] \in Threads
BY LeaderFacts DEF Children, WaitTypes, Group

-----------------------------------------------------------------------------
(* Stops                                                                     *)

LEMMA StopStep ==
  ASSUME WaitConstantsOK, WaitInv, NEW p \in Leaders, Stop(p)
  PROVE  WaitInv'
<1>1. /\ p \notin stops /\ stop' = [stop EXCEPT ![p] = "stopped"]
      /\ stops' = stops \cup {p} /\ note' = note \cup {p}
      /\ ~Orphaned(Pgrp[p], {}, exit_state, hashed, real_parent)
      /\ late' = IF OnlyAnnounced(Pgrp[p]) THEN late \cup {p} ELSE late
      /\ UNCHANGED <<plan, phase, frame, awake, exit_state, hashed, real_parent, released, got>>
  BY DEF Stop, treeVars
<1>2. PICK r \in Group(p) : phase[r] = "run"
  BY DEF Stop
<1>3. WaitTypes'
  BY <1>1 DEF WaitInv, WaitTypes
<1>4. EndsKept
  BY <1>1 DEF EndsKept
<1>5. Life' /\ HasHeir' /\ AtHome'
  BY <1>1, <1>4, CalmStep
<1>6. DeadLists'
  <2>1. \A t \in Threads : frame'[t].dead = frame[t].dead /\ phase'[t] = phase[t]
    BY <1>1
  <2> QED BY <1>1, <2>1, DeadListsKept
<1>7. Looks'
  BY <1>1, LookingKept DEF Looks
<1>8. Reports'
  <2>1. ~PF_EXITING(r)
    BY <1>2 DEF PF_EXITING
  <2>2. stop[p] \in {"no", "stopped", "reported", "continued"}
    BY DEF WaitInv, WaitTypes
  <2>3. ASSUME NEW q \in Leaders
        PROVE  /\ stop'[q] = IF q = p THEN "stopped" ELSE stop[q]
               /\ got'[q] = got[q] /\ exit_state'[q] = exit_state[q]
               /\ (\A u \in Group(q) : PF_EXITING(u))' => \A u \in Group(q) : PF_EXITING(u)
    BY <1>1 DEF WaitInv, WaitTypes, PF_EXITING
  <2> QED BY <1>1, <1>2, <2>1, <2>3 DEF WaitInv, Reports
<1>9. Linked'
  <2>1. Announced' = Announced
    BY <1>4, EndsKeptMeans
  <2>2. ASSUME NEW q \in (Leaders \cap hashed) \ late', Stopped(q)'
        PROVE  ~Orphaned(Pgrp[q], Announced, exit_state, hashed, real_parent)
    <3>1. CASE q = p
      BY <1>1, <2>2, <3>1 DEF OnlyAnnounced
    <3>2. CASE q # p
      <4>1. Stopped(q) /\ q \notin late
        BY <1>1, <2>2, <3>2 DEF WaitInv, WaitTypes, Stopped
      <4> QED BY <2>2, <4>1 DEF WaitInv, Linked
    <3> QED BY <3>1, <3>2
  <2> QED BY <1>1, <2>1, <2>2 DEF Linked
<1>10. Served'
  <2>1. ASSUME NEW u \in Threads PROVE ServedWell(u)'
    <3>1. \A q \in Leaders : stop'[q] = stop[q] \/ q \in note'
      BY <1>1 DEF WaitInv, WaitTypes
    <3>2. \A q \in Seen(u) : q \in Leaders
      BY DEF Seen, Children
    <3> QED BY <1>1, <3>1, <3>2, ServedKept
  <2> QED BY <2>1 DEF Served
<1> QED BY <1>3, <1>5, <1>6, <1>7, <1>8, <1>9, <1>10 DEF WaitInv

LEMMA ContinueStep ==
  ASSUME WaitConstantsOK, WaitInv, NEW p \in Leaders, Continue(p)
  PROVE  WaitInv'
<1>1. /\ Stopped(p) /\ stop' = [stop EXCEPT ![p] = "continued"] /\ note' = note \cup {p}
      /\ UNCHANGED <<plan, phase, frame, awake, exit_state, hashed, real_parent, released, got,
                     stops, late>>
  BY DEF Continue, treeVars
<1>2. \A q \in Leaders : stop'[q] = IF q = p THEN "continued" ELSE stop[q]
  BY <1>1 DEF WaitInv, WaitTypes
<1>3. WaitTypes'
  BY <1>1 DEF WaitInv, WaitTypes
<1>4. EndsKept
  BY <1>1 DEF EndsKept
<1>5. Life' /\ HasHeir' /\ AtHome' /\ Linked'
  <2>1. \A q \in Leaders : Stopped(q)' => Stopped(q)
    BY <1>2 DEF Stopped
  <2> QED BY <1>1, <1>4, <2>1, CalmStep
<1>6. DeadLists'
  <2>1. \A t \in Threads : frame'[t].dead = frame[t].dead /\ phase'[t] = phase[t]
    BY <1>1
  <2> QED BY <1>1, <2>1, DeadListsKept
<1>7. Looks'
  BY <1>1, LookingKept DEF Looks
<1>8. Reports'
  <2>1. stop[p] # "no"
    BY <1>1 DEF Stopped
  <2>2. ASSUME NEW q \in Leaders
        PROVE  (\A u \in Group(q) : PF_EXITING(u))' => \A u \in Group(q) : PF_EXITING(u)
    BY <1>1 DEF PF_EXITING
  <2> QED BY <1>1, <1>2, <2>1, <2>2 DEF WaitInv, Reports
<1>9. Served'
  <2>1. ASSUME NEW u \in Threads PROVE ServedWell(u)'
    <3>1. \A q \in Seen(u) : q \in Leaders
      BY DEF Seen, Children
    <3> QED BY <1>1, <1>2, <3>1, ServedKept
  <2> QED BY <2>1 DEF Served
<1> QED BY <1>3, <1>5, <1>6, <1>7, <1>8, <1>9 DEF WaitInv

LEMMA NotifyStopStep ==
  ASSUME WaitConstantsOK, WaitInv, NEW p \in Leaders, NotifyStop(p)
  PROVE  WaitInv'
<1>1. /\ note' = note \ {p}
      /\ awake' = [t \in Threads |-> awake[t] \/ t \in Woken({p}, real_parent)]
      /\ UNCHANGED <<plan, phase, frame, stop, exit_state, hashed, real_parent, released, got,
                     stops, late>>
  BY DEF NotifyStop, WakeUpParent, treeVars
<1>2. WaitTypes'
  <2>1. awake' \in [Threads -> BOOLEAN]
    BY <1>1 DEF WaitInv, WaitTypes
  <2> QED BY <1>1, <2>1 DEF WaitInv, WaitTypes
<1>3. EndsKept
  BY <1>1 DEF EndsKept
<1>4. Life' /\ HasHeir' /\ AtHome' /\ Linked'
  <2>1. \A q \in Leaders : Stopped(q)' => Stopped(q)
    BY <1>1 DEF Stopped
  <2> QED BY <1>1, <1>3, <2>1, CalmStep
<1>5. DeadLists'
  <2>1. \A t \in Threads : frame'[t].dead = frame[t].dead /\ phase'[t] = phase[t]
    BY <1>1
  <2> QED BY <1>1, <2>1, DeadListsKept
<1>6. Looks'
  BY <1>1, LookingKept DEF Looks
<1>7. Reports'
  BY <1>1 DEF WaitInv, Reports, PF_EXITING
<1>8. Served'
  <2>1. ASSUME NEW u \in Threads PROVE ServedWell(u)'
    <3>1. awake[u] => awake'[u]
      BY <1>1
    <3>2. ASSUME ~awake'[u], ~HasFlag(u, "__WNOTHREAD"), phase[u] \in {"scan", "reap", "sleep"},
                 NEW q \in Seen(u)
          PROVE  q # p
      <4>1. SUFFICES ASSUME q = p PROVE FALSE
        OBVIOUS
      <4>2. Leader[real_parent[p]] = Leader[u] /\ frame[u].wo.pid \in {p, AnyChild}
        BY <3>2, <4>1, ChildOfProcess DEF Seen, WaitInv
      <4>3. u \in Woken({p}, real_parent)
        BY <3>2, <4>2, ChildWakes DEF LookPhases
      <4> QED BY <1>1, <3>2, <4>3
    <3> QED BY <1>1, <3>1, <3>2, ServedKept
  <2> QED BY <2>1 DEF Served
<1> QED BY <1>2, <1>4, <1>5, <1>6, <1>7, <1>8 DEF WaitInv

-----------------------------------------------------------------------------
(* The wait                                                                  *)

\* A step of a waiter concerns the other threads only by the stops it reports.
LEMMA WaiterStep ==
  ASSUME WaitConstantsOK, WaitInv, NEW t \in Threads, NEW l \in LookPhases \cup {"run"},
         NEW r \in Frames, r.dead = {}, phase[t] \in LookPhases \cup {"run"},
         phase' = [phase EXCEPT ![t] = l], frame' = [frame EXCEPT ![t] = r],
         awake' \in [Threads -> BOOLEAN], \A u \in Threads \ {t} : awake'[u] = awake[u],
         UNCHANGED <<plan, treeVars, note, stops, late>>,
         stop' \in [Leaders -> {"no", "stopped", "reported", "continued"}],
         got' \in [Leaders -> Counts],
         \A p \in Leaders : /\ stop'[p] \in {stop[p], "no", "reported"}
                            /\ Stopped(p)' => Stopped(p),
         Reports', Looking(t)', ServedWell(t)'
  PROVE  WaitInv'
<1>1. UNCHANGED <<plan, exit_state, hashed, real_parent, released, note, stops, late>>
  BY DEF treeVars
<1>2. \A u \in Threads :
        /\ phase'[u] = IF u = t THEN l ELSE phase[u]
        /\ frame'[u] = IF u = t THEN r ELSE frame[u]
  BY DEF WaitInv, WaitTypes
<1>3. WaitTypes'
  BY <1>1 DEF WaitInv, WaitTypes, Phases
<1>4. EndsKept
  BY <1>2 DEF EndsKept, EndPhases, DeadPhases, LookPhases
<1>5. Life' /\ HasHeir' /\ AtHome' /\ Linked'
  BY <1>1, <1>4, CalmStep
<1>6. DeadLists'
  <2>1. frame[t].dead = {}
    BY DEF WaitInv, DeadLists, LookPhases
  <2> QED BY <1>1, <1>2, <2>1, DeadListsKept
<1>7. Looks'
  <2>1. ASSUME NEW u \in Threads \ {t} PROVE Looking(u)'
    BY <1>1, <1>2, <2>1, LookingKept
  <2> QED BY <2>1 DEF Looks
<1>8. Served'
  <2>1. ASSUME NEW u \in Threads \ {t} PROVE ServedWell(u)'
    <3>1. \A p \in Seen(u) : p \in Leaders
      BY DEF Seen, Children
    <3> QED BY <1>1, <1>2, <3>1, ServedKept
  <2> QED BY <2>1 DEF Served
<1> QED BY <1>3, <1>5, <1>6, <1>7, <1>8 DEF WaitInv

\* The counts of reports, when nothing is reported.
LEMMA ReportsKept ==
  ASSUME WaitInv, EndsKept, UNCHANGED <<stop, stops, got, exit_state>>
  PROVE  Reports'
<1>1. \A p \in Leaders : Group(p) \subseteq Threads
  BY DEF Group
<1> QED BY <1>1, EndsKeptMeans DEF WaitInv, Reports

LEMMA FrameFacts ==
  ASSUME WaitConstantsOK, WaitInv, NEW t \in Threads
  PROVE  /\ EmptyFrame \in Frames /\ EmptyFrame.dead = {}
         /\ frame[t] \in Frames
         /\ phase[t] \in LookPhases \cup {"run"} => frame[t].dead = {}
<1>1. NoWait \in Waits
  BY DEF NoWait, Waits
<1>2. EmptyFrame \in Frames /\ EmptyFrame.dead = {}
  BY <1>1, LeaderFacts DEF EmptyFrame, Frames
<1>3. frame[t] \in Frames
  BY DEF WaitInv, WaitTypes
<1>4. phase[t] \in LookPhases \cup {"run"} => frame[t].dead = {}
  BY DEF WaitInv, DeadLists, LookPhases
<1> QED BY <1>2, <1>3, <1>4

LEMMA QuietWaiterStep ==
  ASSUME WaitConstantsOK, WaitInv, NEW t \in Threads, NEW l \in LookPhases \cup {"run"},
         NEW r \in Frames, r.dead = {}, phase[t] \in LookPhases \cup {"run"},
         Become(t, l), SetFrame(t, r),
         awake' \in [Threads -> BOOLEAN], \A u \in Threads \ {t} : awake'[u] = awake[u],
         UNCHANGED <<plan, treeVars, jobVars, got>>,
         Looking(t)', ServedWell(t)'
  PROVE  WaitInv'
<1>1. phase' = [phase EXCEPT ![t] = l] /\ frame' = [frame EXCEPT ![t] = r]
  BY DEF Become, SetFrame
<1>2. UNCHANGED <<stop, note, stops, late>>
  BY DEF jobVars
<1>3. EndsKept
  BY <1>1 DEF WaitInv, WaitTypes, EndsKept, EndPhases, DeadPhases, LookPhases
<1>4. Reports'
  BY <1>2, <1>3, ReportsKept DEF treeVars
<1>5. /\ got' \in [Leaders -> Counts]
      /\ stop' \in [Leaders -> {"no", "stopped", "reported", "continued"}]
      /\ \A p \in Leaders : Stopped(p)' => Stopped(p)
  BY <1>2 DEF WaitInv, WaitTypes, Stopped
<1> QED BY <1>1, <1>2, <1>4, <1>5, WaiterStep

LEMMA BeginStep ==
  ASSUME WaitConstantsOK, WaitInv, NEW t \in Threads, Wait(t)
  PROVE  WaitInv'
<1>1. PICK wo \in plan.waits[t] : SetFrame(t, [EmptyFrame EXCEPT !.wo = wo])
  BY DEF Wait
<1>2. /\ phase[t] = "run" /\ Become(t, "repeat")
      /\ UNCHANGED <<plan, awake, treeVars, jobVars, got>>
  BY DEF Wait
<1> DEFINE r == [EmptyFrame EXCEPT !.wo = wo]
<1>3. wo \in Waits
  BY DEF WaitInv, WaitTypes, WaitConstantsOK, Waits
<1>4. r \in Frames /\ r.dead = {}
  BY <1>3, FrameFacts DEF Frames
<1>5. phase'[t] = "repeat"
  BY <1>2 DEF WaitInv, WaitTypes, Become
<1>6. Looking(t)' /\ ServedWell(t)'
  BY <1>5 DEF Looking, ServedWell
<1>7. awake' \in [Threads -> BOOLEAN]
  BY <1>2 DEF WaitInv, WaitTypes
<1> QED
  <2> SetFrame(t, r)
    BY <1>1
  <2> HIDE DEF r
  <2> QED BY <1>2, <1>4, <1>6, <1>7, QuietWaiterStep DEF LookPhases

LEMMA RepeatStep ==
  ASSUME WaitConstantsOK, WaitInv, NEW t \in Threads, Repeat(t)
  PROVE  WaitInv'
<1> DEFINE r == [frame[t] EXCEPT !.child = FALSE, !.todo = Children(t)]
<1>1. /\ phase[t] = "repeat" /\ Become(t, "scan") /\ SetFrame(t, r)
      /\ awake' = [awake EXCEPT ![t] = FALSE]
      /\ UNCHANGED <<plan, treeVars, jobVars, got>>
  BY DEF Repeat, SetInterruptible
<1>2. Children(t) \subseteq Leaders
  BY DEF Children
<1>3. r \in Frames /\ r.dead = {} /\ r.todo = Children(t) /\ ~r.child /\ r.wo = frame[t].wo
  BY <1>1, <1>2, FrameFacts DEF Frames, LookPhases
<1>4. phase'[t] = "scan" /\ frame'[t] = r
  BY <1>1 DEF WaitInv, WaitTypes, Become, SetFrame
<1>5. Children(t)' = Children(t)
  BY <1>1, <1>3, <1>4 DEF Children, treeVars
<1>6. Looking(t)'
  BY <1>3, <1>4, <1>5 DEF Looking
<1>7. ServedWell(t)'
  BY <1>3, <1>4, <1>5 DEF ServedWell, Content, Seen
<1>8. awake' \in [Threads -> BOOLEAN] /\ \A u \in Threads \ {t} : awake'[u] = awake[u]
  BY <1>1 DEF WaitInv, WaitTypes
<1> QED
  <2> HIDE DEF r
  <2> QED BY <1>1, <1>3, <1>6, <1>7, <1>8, QuietWaiterStep DEF LookPhases

LEMMA ReturnStep ==
  ASSUME WaitConstantsOK, WaitInv, NEW t \in Threads, WaitReturns(t), phase[t] \in LookPhases,
         UNCHANGED <<plan, treeVars, jobVars, got>>
  PROVE  WaitInv'
<1>1. /\ Become(t, "run") /\ SetFrame(t, EmptyFrame) /\ awake' = [awake EXCEPT ![t] = TRUE]
  BY DEF WaitReturns
<1>2. phase'[t] = "run"
  BY <1>1 DEF WaitInv, WaitTypes, Become
<1>3. Looking(t)' /\ ServedWell(t)'
  BY <1>2 DEF Looking, ServedWell
<1>4. awake' \in [Threads -> BOOLEAN] /\ \A u \in Threads \ {t} : awake'[u] = awake[u]
  BY <1>1 DEF WaitInv, WaitTypes
<1> QED BY <1>1, <1>3, <1>4, FrameFacts, QuietWaiterStep

LEMMA ScheduleStep ==
  ASSUME WaitConstantsOK, WaitInv, NEW t \in Threads, Schedule(t) \/ Interrupted(t)
  PROVE  WaitInv'
<1>1. CASE Interrupted(t)
  BY <1>1, ReturnStep DEF Interrupted, LookPhases
<1>2. CASE Schedule(t)
  <2>1. /\ phase[t] = "sleep" /\ Become(t, "repeat") /\ UNCHANGED <<frame, awake>>
        /\ UNCHANGED <<plan, treeVars, jobVars, got>>
    BY <1>2 DEF Schedule
  <2>2. phase'[t] = "repeat" /\ SetFrame(t, frame[t]) /\ awake' \in [Threads -> BOOLEAN]
    BY <2>1 DEF WaitInv, WaitTypes, Become, SetFrame
  <2>3. Looking(t)' /\ ServedWell(t)'
    BY <2>2 DEF Looking, ServedWell
  <2> QED BY <2>1, <2>2, <2>3, FrameFacts, QuietWaiterStep DEF LookPhases
<1> QED BY <1>1, <1>2

LEMMA NotaskStep ==
  ASSUME WaitConstantsOK, WaitInv, NEW t \in Threads, Notask(t)
  PROVE  WaitInv'
<1>1. phase[t] = "scan" /\ frame[t].todo = {} /\ UNCHANGED <<plan, treeVars, jobVars, got>>
  BY DEF Notask
<1>2. CASE WaitReturns(t)
  BY <1>1, <1>2, ReturnStep DEF LookPhases
<1>3. CASE frame[t].child /\ Become(t, "sleep") /\ UNCHANGED <<frame, awake>>
  <2>1. phase'[t] = "sleep" /\ SetFrame(t, frame[t]) /\ awake' \in [Threads -> BOOLEAN]
    BY <1>3 DEF WaitInv, WaitTypes, Become, SetFrame
  <2>2. Looking(t)'
    BY <2>1 DEF Looking
  <2>3. ServedWell(t)'
    <3>1. Children(t)' = Children(t) /\ Seen(t)' = Seen(t)
      BY <1>1, <1>3 DEF Children, Seen, treeVars
    <3>2. UNCHANGED <<note, stop, exit_state, hashed>>
      BY <1>1 DEF jobVars, treeVars
    <3>3. Content(t)' <=> Content(t)
      BY <1>3, <3>1, <3>2 DEF Content, HasFlag, Reapable, GroupEmpty, NoStopToReport
    <3> QED BY <1>1, <1>3, <2>1, <3>3 DEF WaitInv, Served, ServedWell, HasFlag
  <2> QED BY <1>1, <1>3, <2>1, <2>2, <2>3, FrameFacts, QuietWaiterStep DEF LookPhases
<1> QED BY <1>2, <1>3 DEF Notask

LEMMA EndedHasNoStop ==
  ASSUME WaitConstantsOK, WaitInv, NEW t \in Threads, NEW p \in Leaders,
         exit_state[p] # "alive", GroupEmpty(p, hashed)
  PROVE  NoStopToReport(t, p)
<1>1. \A u \in Group(p) : PF_EXITING(u)
  BY LeaderFacts, OutIsEnded DEF WaitInv
<1>2. stop[p] = "no"
  BY <1>1 DEF WaitInv, Reports
<1> QED BY <1>2 DEF NoStopToReport

\* The look passes a child.
LEMMA PassStep ==
  ASSUME WaitConstantsOK, WaitInv, NEW t \in Threads, phase[t] \in {"scan", "reap"},
         NEW p \in frame[t].todo, HasFlag(t, "WEXITED") => ~Reapable(p), NoStopToReport(t, p),
         NEW c \in BOOLEAN, c = frame[t].child \/ exit_state[p] # "dead",
         Become(t, "scan"), SetFrame(t, [Rest(t, p) EXCEPT !.child = c]),
         UNCHANGED <<plan, awake, treeVars, jobVars, got>>
  PROVE  WaitInv'
<1> DEFINE r == [Rest(t, p) EXCEPT !.child = c]
<1>1. /\ r \in Frames /\ r.dead = {} /\ r.wo = frame[t].wo /\ r.child = c
      /\ r.todo = frame[t].todo \ {p}
  BY FrameFacts DEF Rest, Frames, LookPhases
<1>2. phase'[t] = "scan" /\ frame'[t] = r
  BY DEF WaitInv, WaitTypes, Become, SetFrame
<1>3. UNCHANGED <<note, stop, exit_state, hashed, real_parent>>
  BY DEF jobVars, treeVars
<1>4. Children(t)' = Children(t) /\ frame[t].todo \subseteq Children(t)
  <2>1. frame[t].todo \subseteq Children(t)
    BY DEF WaitInv, Looks, Looking
  <2>2. frame'[t].wo = frame[t].wo
    BY <1>1, <1>2
  <2> QED BY <1>3, <2>1, <2>2 DEF Children
<1>5. Seen(t)' = Seen(t) \cup {p}
  BY <1>1, <1>2, <1>4 DEF Seen
<1>6. Looking(t)'
  BY <1>1, <1>2, <1>4 DEF Looking
<1>7. \A f : HasFlag(t, f)' <=> HasFlag(t, f)
  BY <1>1, <1>2 DEF HasFlag
<1>8. ServedWell(t)'
  <2> SUFFICES ASSUME ~awake[t], ~HasFlag(t, "__WNOTHREAD") PROVE Content(t)'
    BY <1>2, <1>7 DEF ServedWell
  <2>1. Content(t)
    BY DEF WaitInv, Served, ServedWell
  <2>2. ASSUME NEW q \in Seen(t)', HasFlag(t, "WEXITED") PROVE ~Reapable(q)'
    <3>1. ~Reapable(q)
      BY <1>5, <2>1, <2>2 DEF Content
    <3> QED BY <1>3, <3>1 DEF Reapable, GroupEmpty
  <2>3. ASSUME NEW q \in Seen(t)', q \notin note, Leader[Parent[q]] = Leader[t]
        PROVE  NoStopToReport(t, q)'
    <3>1. NoStopToReport(t, q)
      BY <1>5, <2>1, <2>3 DEF Content
    <3> QED BY <1>3, <1>7, <3>1 DEF NoStopToReport
  <2>4. ASSUME HasFlag(t, "WEXITED"), c PROVE \E q \in Seen(t)' : exit_state[q] # "dead"
    BY <1>5, <2>1, <2>4 DEF Content
  <2> QED BY <1>1, <1>2, <1>3, <1>7, <2>2, <2>3, <2>4 DEF Content
<1>9. awake' \in [Threads -> BOOLEAN]
  BY DEF WaitInv, WaitTypes
<1> QED
  <2> SetFrame(t, r)
    OBVIOUS
  <2> HIDE DEF r
  <2> QED BY <1>1, <1>6, <1>8, <1>9, QuietWaiterStep DEF LookPhases

\* wait_task_stopped() and wait_task_continued() report once.
LEMMA ReportStep ==
  ASSUME WaitConstantsOK, WaitInv, NEW t \in Threads, NEW p \in Leaders, phase[t] \in LookPhases,
         ReportStop(t, p), WaitReturns(t), UNCHANGED <<plan, treeVars, note, stops, late>>
  PROVE  WaitInv'
<1>1. stop[p] \in {"stopped", "continued"}
  BY DEF ReportStop
<1>2. \A q \in Leaders \ {p} : stop'[q] = stop[q] /\ got'[q] = got[q]
  BY DEF ReportStop, WaitInv, WaitTypes
<1>3. /\ stop' \in [Leaders -> {"no", "stopped", "reported", "continued"}]
      /\ stop'[p] \in {stop[p], "no", "reported"}
      /\ stop'[p] = "stopped" => got'[p].stop = got[p].stop
      /\ stop'[p] = "reported" => stop[p] = "stopped"
      /\ stop[p] = "continued" => stop'[p] # "stopped" /\ stop'[p] # "reported"
  <2>1. CASE stop[p] = "stopped"
    <3>1. stop' = [stop EXCEPT ![p] = IF HasFlag(t, "WNOWAIT") THEN @ ELSE "reported"]
      BY <2>1 DEF ReportStop
    <3>2. got' = [got EXCEPT ![p].stop = IF HasFlag(t, "WNOWAIT") THEN @ ELSE @ + 1]
      BY <2>1 DEF ReportStop
    <3>3. CASE HasFlag(t, "WNOWAIT")
      BY <2>1, <3>1, <3>2, <3>3 DEF WaitInv, WaitTypes, Counts
    <3>4. CASE ~HasFlag(t, "WNOWAIT")
      BY <2>1, <3>1, <3>4 DEF WaitInv, WaitTypes
    <3> QED BY <3>3, <3>4
  <2>2. CASE stop[p] = "continued"
    <3>1. stop' = [stop EXCEPT ![p] = IF HasFlag(t, "WNOWAIT") THEN @ ELSE "no"]
      BY <2>2 DEF ReportStop
    <3> QED BY <2>2, <3>1 DEF WaitInv, WaitTypes
  <2> QED BY <1>1, <2>1, <2>2
<1>4. /\ got[p] \in Counts /\ got[p].cont = 0 /\ p \in stops
      /\ stop[p] = "stopped" => got[p].stop = 0
  BY <1>1 DEF WaitInv, WaitTypes, Reports
<1>5. /\ got'[p] \in Counts /\ got'[p].exit = got[p].exit
      /\ stop'[p] # "no" => got'[p].cont = 0
  <2>1. CASE stop[p] = "stopped"
    BY <1>4, <2>1 DEF ReportStop, WaitInv, WaitTypes, Counts
  <2>2. CASE stop[p] = "continued"
    BY <1>4, <2>2 DEF ReportStop, WaitInv, WaitTypes, Counts
  <2> QED BY <1>1, <2>1, <2>2
<1>6. got' \in [Leaders -> Counts]
  <2>1. \E x : got' = [got EXCEPT ![p] = x]
    <3>1. CASE stop[p] = "stopped"
      BY <3>1 DEF ReportStop
    <3>2. CASE stop[p] = "continued"
      BY <3>2 DEF ReportStop
    <3> QED BY <1>1, <3>1, <3>2
  <2> QED BY <1>5, <2>1 DEF WaitInv, WaitTypes
<1>7. /\ Become(t, "run") /\ SetFrame(t, EmptyFrame) /\ awake' = [awake EXCEPT ![t] = TRUE]
  BY DEF WaitReturns
<1>8. phase' = [phase EXCEPT ![t] = "run"] /\ frame' = [frame EXCEPT ![t] = EmptyFrame]
      /\ phase'[t] = "run"
  BY <1>7 DEF WaitInv, WaitTypes, Become, SetFrame
<1>9. Looking(t)' /\ ServedWell(t)'
  BY <1>8 DEF Looking, ServedWell
<1>10. awake' \in [Threads -> BOOLEAN] /\ \A u \in Threads \ {t} : awake'[u] = awake[u]
  BY <1>7 DEF WaitInv, WaitTypes
<1>11. \A q \in Leaders : /\ stop'[q] \in {stop[q], "no", "reported"}
                          /\ Stopped(q)' => Stopped(q)
  BY <1>1, <1>2, <1>3 DEF Stopped
<1>12. Reports'
  <2>1. EndsKept
    BY <1>8 DEF WaitInv, WaitTypes, EndsKept, EndPhases, DeadPhases, LookPhases
  <2>2. UNCHANGED <<exit_state, stops>>
    BY DEF treeVars
  <2>3. \A q \in Leaders : Group(q) \subseteq Threads
    BY DEF Group
  <2>4. ~(\A u \in Group(p) : PF_EXITING(u))
    BY <1>1 DEF WaitInv, Reports
  <2>5. ASSUME NEW q \in Leaders
        PROVE  /\ exit_state'[q] # "dead" => got'[q].exit = 0
               /\ stop'[q] # "no" => q \in stops' /\ got'[q].cont = 0
               /\ q \notin stops' \/ stop'[q] = "stopped" => got'[q].stop = 0 /\ got'[q].cont = 0
               /\ (\A u \in Group(q) : PF_EXITING(u)') => stop'[q] = "no"
    <3>1. (\A u \in Group(q) : PF_EXITING(u)') => \A u \in Group(q) : PF_EXITING(u)
      BY <2>1, <2>3, EndsKeptMeans
    <3>2. CASE q = p
      BY <1>3, <1>4, <1>5, <2>2, <2>4, <3>1, <3>2 DEF WaitInv, Reports
    <3>3. CASE q # p
      BY <1>2, <2>2, <3>1, <3>3 DEF WaitInv, Reports
    <3> QED BY <3>2, <3>3
  <2> QED BY <2>5 DEF Reports
<1> QED BY <1>3, <1>6, <1>7, <1>8, <1>9, <1>10, <1>11, <1>12, FrameFacts, WaiterStep

LEMMA ConsiderStep ==
  ASSUME WaitConstantsOK, WaitInv, NEW t \in Threads, NEW p \in Leaders, Consider(t, p)
  PROVE  WaitInv'
<1>1. /\ phase[t] = "scan" /\ p \in frame[t].todo
      /\ UNCHANGED <<plan, treeVars, note, stops, late>>
  BY DEF Consider
<1>2. frame[t].child \in BOOLEAN /\ p \in Threads
  BY LeaderFacts DEF WaitInv, WaitTypes, Frames
<1>3. Rest(t, p) = [Rest(t, p) EXCEPT !.child = frame[t].child]
  BY DEF WaitInv, WaitTypes, Frames, Rest
<1>4. ASSUME UNCHANGED <<phase, awake, stop, got>>
      PROVE  Become(t, "scan") /\ UNCHANGED <<plan, awake, treeVars, jobVars, got>>
  BY <1>1, <1>4 DEF Become, jobVars, WaitInv, WaitTypes
<1>5. ASSUME exit_state[p] = "dead", SetFrame(t, Rest(t, p)), UNCHANGED <<phase, awake, stop, got>>
      PROVE  WaitInv'
  <2>1. ~Reapable(p) /\ GroupEmpty(p, hashed)
    BY <1>5 DEF Reapable, WaitInv, Life
  <2>2. NoStopToReport(t, p)
    BY <1>5, <2>1, EndedHasNoStop
  <2> QED BY <1>1, <1>2, <1>3, <1>4, <1>5, <2>1, <2>2, PassStep
<1>6. ASSUME Reapable(p), HasFlag(t, "WEXITED"), Become(t, "reap"),
             SetFrame(t, [frame[t] EXCEPT !.p = p]), UNCHANGED <<awake, stop, got>>
      PROVE  WaitInv'
  <2> DEFINE r == [frame[t] EXCEPT !.p = p]
  <2>1. /\ r \in Frames /\ r.dead = {} /\ r.wo = frame[t].wo /\ r.child = frame[t].child
        /\ r.todo = frame[t].todo /\ r.p = p
    BY <1>1, FrameFacts DEF Frames, LookPhases
  <2>2. phase'[t] = "reap" /\ frame'[t] = r
    BY <1>6 DEF WaitInv, WaitTypes, Become, SetFrame
  <2>3. UNCHANGED <<note, stop, exit_state, hashed, real_parent>>
    BY <1>1, <1>6 DEF treeVars
  <2>4. Children(t)' = Children(t) /\ Seen(t)' = Seen(t)
    <3>1. frame'[t].wo = frame[t].wo /\ frame'[t].todo = frame[t].todo
      BY <2>1, <2>2
    <3> QED BY <2>3, <3>1 DEF Children, Seen
  <2>5. Looking(t)'
    BY <1>1, <1>6, <2>1, <2>2, <2>3, <2>4 DEF WaitInv, Looks, Looking, Reapable
  <2>6. \A f : HasFlag(t, f)' <=> HasFlag(t, f)
    BY <2>1, <2>2 DEF HasFlag
  <2>7. Content(t)' <=> Content(t)
    BY <2>1, <2>2, <2>3, <2>4, <2>6 DEF Content, Reapable, GroupEmpty, NoStopToReport
  <2>8. ServedWell(t)'
    BY <1>1, <1>6, <2>2, <2>6, <2>7 DEF WaitInv, Served, ServedWell
  <2>9. awake' \in [Threads -> BOOLEAN] /\ UNCHANGED jobVars
    BY <1>1, <1>6 DEF WaitInv, WaitTypes, jobVars
  <2> QED
    <3> SetFrame(t, r)
      BY <1>6
    <3> HIDE DEF r
    <3> QED BY <1>1, <1>6, <2>1, <2>5, <2>8, <2>9, QuietWaiterStep DEF LookPhases
<1>7. ASSUME WaitReturns(t), UNCHANGED <<stop, got>> PROVE WaitInv'
  BY <1>1, <1>7, ReturnStep DEF jobVars, LookPhases
<1>8. ASSUME Reapable(p), ~HasFlag(t, "WEXITED"), SetFrame(t, Rest(t, p)),
             UNCHANGED <<phase, awake, stop, got>>
      PROVE  WaitInv'
  <2>1. NoStopToReport(t, p)
    BY <1>8, EndedHasNoStop DEF Reapable
  <2> QED BY <1>1, <1>2, <1>3, <1>4, <1>8, <2>1, PassStep
<1>9. ASSUME ReportStop(t, p), WaitReturns(t) PROVE WaitInv'
  BY <1>1, <1>9, ReportStep DEF LookPhases
<1>10. ASSUME exit_state[p] # "dead", ~Reapable(p), NoStopToReport(t, p),
              SetFrame(t, [Rest(t, p) EXCEPT !.child = TRUE]), UNCHANGED <<phase, awake, stop, got>>
       PROVE  WaitInv'
  BY <1>1, <1>4, <1>10, PassStep
<1> QED BY <1>5, <1>6, <1>7, <1>8, <1>9, <1>10 DEF Consider

\* wait_task_zombie() reports the end of a child to the thread that makes it dead.
LEMMA ReapStep ==
  ASSUME WaitConstantsOK, WaitInv, NEW t \in Threads, Reap(t)
  PROVE  WaitInv'
<1> DEFINE p == frame[t].p
<1>1. /\ phase[t] = "reap"
      /\ UNCHANGED <<plan, hashed, real_parent, released, stop, note, stops, late>>
  BY DEF Reap, jobVars
<1>2. /\ p \in Leaders /\ p \in Threads /\ p \in frame[t].todo /\ p \in hashed
      /\ GroupEmpty(p, hashed) /\ exit_state[p] # "alive"
  <2>1. p \in Leaders /\ p \in frame[t].todo /\ frame[t].todo \subseteq Children(t)
    BY <1>1 DEF WaitInv, WaitTypes, Frames, Looks, Looking
  <2> QED BY <1>1, <2>1, LeaderFacts DEF WaitInv, Looks, Looking, Children
<1>3. ASSUME exit_state[p] # "zombie", SetFrame(t, Rest(t, p)), Become(t, "scan"),
             UNCHANGED <<exit_state, got, awake>>
      PROVE  WaitInv'
  <2>1. ~Reapable(p) /\ NoStopToReport(t, p)
    BY <1>2, <1>3, EndedHasNoStop DEF Reapable
  <2>2. frame[t].child \in BOOLEAN /\ Rest(t, p) = [Rest(t, p) EXCEPT !.child = frame[t].child]
    BY DEF WaitInv, WaitTypes, Frames, Rest
  <2>3. UNCHANGED <<plan, awake, treeVars, jobVars, got>>
    BY <1>1, <1>3 DEF treeVars, jobVars
  <2> QED BY <1>1, <1>2, <1>3, <2>1, <2>2, <2>3, PassStep
<1>4. ASSUME exit_state[p] = "zombie", exit_state' = [exit_state EXCEPT ![p] = "dead"],
             got' = [got EXCEPT ![p].exit = @ + 1], awake' = [awake EXCEPT ![t] = TRUE],
             SetFrame(t, [EmptyFrame EXCEPT !.dead = {p}]), Become(t, "reaped")
      PROVE  WaitInv'
  <2> DEFINE r == [EmptyFrame EXCEPT !.dead = {p}]
  <2>1. r \in Frames /\ r.dead = {p}
    BY <1>2, FrameFacts DEF Frames
  <2>2. \A u \in Threads : /\ phase'[u] = IF u = t THEN "reaped" ELSE phase[u]
                           /\ frame'[u] = IF u = t THEN r ELSE frame[u]
                           /\ awake[u] => awake'[u]
    BY <1>4 DEF WaitInv, WaitTypes, Become, SetFrame
  <2>3. \A u \in Threads : exit_state'[u] = IF u = p THEN "dead" ELSE exit_state[u]
    BY <1>2, <1>4 DEF WaitInv, WaitTypes
  <2>4. /\ got[p].exit = 0 /\ got[p] \in Counts
        /\ \A q \in Leaders : /\ got'[q].stop = got[q].stop /\ got'[q].cont = got[q].cont
                              /\ q # p => got'[q] = got[q]
    BY <1>2, <1>4 DEF WaitInv, WaitTypes, Reports, Counts
  <2>5. WaitTypes'
    <3>1. got' \in [Leaders -> Counts]
      BY <1>2, <1>4, <2>4 DEF WaitInv, WaitTypes, Counts
    <3>2. phase' \in [Threads -> Phases] /\ frame' \in [Threads -> Frames]
      <4> HIDE DEF r
      <4> QED BY <1>4, <2>1 DEF WaitInv, WaitTypes, Become, SetFrame, Phases, r
    <3> QED BY <1>1, <1>2, <1>4, <3>1, <3>2 DEF WaitInv, WaitTypes
  <2>6. EndsKept
    BY <1>1, <2>2 DEF EndsKept, EndPhases, DeadPhases
  <2>7. Life'
    <3>1. InitTask \in Threads /\ phase'[InitTask] \notin EndPhases
      BY <2>6, LeaderFacts DEF WaitInv, Life, EndsKept
    <3>2. \A q \in Leaders : q \in Threads
      BY LeaderFacts
    <3> QED BY <1>1, <1>2, <2>3, <2>6, <3>1, <3>2, EndsKeptMeans DEF WaitInv, Life, GroupEmpty
  <2>8. HasHeir' /\ AtHome'
    <3>1. \A q \in Leaders : real_parent[q] \in Threads /\ Group(Leader[Parent[q]]) \subseteq Threads
      BY DEF WaitInv, WaitTypes, Group
    <3>2. \A q \in Leaders : Reapable(q)' => Reapable(q)
      BY <1>1, <1>2, <2>3, LeaderFacts DEF Reapable, GroupEmpty
    <3> QED BY <1>1, <2>6, <3>1, <3>2, EndsKeptMeans
            DEF WaitInv, HasHeir, AtHome, DeadPhases, Ignored
  <2>9. Linked'
    <3>1. \A x \in Leaders : exit_state'[x] # "alive" <=> exit_state[x] # "alive"
      BY <1>2, <2>3, LeaderFacts
    <3>2. \A q : Orphaned(q, Announced', exit_state', hashed, real_parent)
                   => Orphaned(q, Announced, exit_state, hashed, real_parent)
      BY <2>6, <3>1, EndsKeptMeans DEF Orphaned
    <3> QED BY <1>1, <3>2 DEF WaitInv, Linked, Stopped
  <2>10. DeadLists'
    <3>1. \A u \in Threads : p \notin frame[u].dead
      BY <1>4 DEF WaitInv, DeadLists
    <3>2. \A u \in Threads : frame[u].dead \subseteq Threads
      BY DEF WaitInv, WaitTypes, Frames
    <3>3. ASSUME NEW u \in Threads
          PROVE  phase'[u] \notin {"release", "reaped"} => frame'[u].dead = {}
      BY <2>2 DEF WaitInv, DeadLists
    <3>4. ASSUME NEW u \in Threads, NEW q \in frame'[u].dead
          PROVE  /\ q \in hashed' /\ exit_state'[q] = "dead"
                 /\ \A v \in Threads \ {u} : q \notin frame'[v].dead
      <4>1. CASE u = t
        <5>1. q = p
          BY <2>1, <2>2, <3>4, <4>1
        <5>2. q \in hashed' /\ exit_state'[q] = "dead"
          BY <1>1, <1>2, <2>3, <5>1
        <5>3. \A v \in Threads \ {u} : frame'[v] = frame[v]
          BY <2>2, <4>1
        <5> QED BY <3>1, <4>1, <5>1, <5>2, <5>3
      <4>2. CASE u # t
        <5>1. q \in frame[u].dead /\ q # p
          BY <2>2, <3>1, <3>4, <4>2
        <5>2. q \in hashed /\ exit_state[q] = "dead" /\ q \in Threads
          BY <3>2, <5>1 DEF WaitInv, DeadLists
        <5>3. \A v \in Threads \ {u} : q \notin frame[v].dead
          BY <5>1 DEF WaitInv, DeadLists
        <5>4. \A v \in Threads \ {u} : q \notin frame'[v].dead
          BY <2>1, <2>2, <5>1, <5>3
        <5> QED BY <1>1, <2>3, <5>2, <5>4
      <4> QED BY <4>1, <4>2
    <3> QED BY <3>3, <3>4 DEF DeadLists
  <2>11. Looks'
    <3>1. ASSUME NEW u \in Threads PROVE Looking(u)'
      <4>1. CASE u = t
        BY <2>2, <4>1 DEF Looking
      <4>2. CASE u # t
        BY <1>1, <1>2, <2>2, <2>3, <4>2, LeaderFacts, LookingKept
      <4> QED BY <4>1, <4>2
    <3> QED BY <3>1 DEF Looks
  <2>12. Reports'
    <3>1. ASSUME NEW q \in Leaders
          PROVE  (\A u \in Group(q) : PF_EXITING(u))' => \A u \in Group(q) : PF_EXITING(u)
      BY <2>6, EndsKeptMeans DEF Group
    <3>2. \A q \in Leaders : exit_state'[q] # "dead" => exit_state[q] # "dead" /\ q # p
      BY <1>2, <2>3, LeaderFacts
    <3> QED BY <1>1, <2>4, <3>1, <3>2 DEF WaitInv, Reports
  <2>13. Served'
    <3>1. ASSUME NEW u \in Threads PROVE ServedWell(u)'
      <4>1. CASE u = t
        BY <2>2, <4>1 DEF ServedWell
      <4>2. CASE u # t
        <5>1. \A q \in Seen(u) : q \in Threads
          BY LeaderFacts DEF Seen, Children
        <5>2. Reapable(p)
          BY <1>2, <1>4 DEF Reapable
        <5> QED BY <1>1, <2>2, <2>3, <4>2, <5>1, <5>2, ServedKept
      <4> QED BY <4>1, <4>2
    <3> QED BY <3>1 DEF Served
  <2> QED BY <2>5, <2>7, <2>8, <2>9, <2>10, <2>11, <2>12, <2>13 DEF WaitInv
<1> QED BY <1>3, <1>4 DEF Reap, MayReap

-----------------------------------------------------------------------------
(* The end of a thread                                                       *)

LEMMA ExitSignalsStep ==
  ASSUME WaitConstantsOK, WaitInv, NEW t \in Threads, ExitSignals(t)
  PROVE  WaitInv'
<1> DEFINE last == \A u \in Group(Leader[t]) \ {t} : PF_EXITING(u)
<1> DEFINE r == [EmptyFrame EXCEPT !.group_dead = last]
<1>1. /\ phase[t] = "run" /\ t \in plan.exits
      /\ phase' = [phase EXCEPT ![t] = "exiting"] /\ frame' = [frame EXCEPT ![t] = r]
      /\ stop' = IF last THEN [stop EXCEPT ![Leader[t]] = "no"] ELSE stop
      /\ UNCHANGED <<plan, awake, exit_state, hashed, real_parent, released, note, stops, late, got>>
  BY DEF ExitSignals, Become, SetFrame, treeVars
<1>2. /\ Leader[t] \in Leaders /\ t \in Group(Leader[t]) /\ t # InitTask
      /\ InitTask \in Threads /\ plan \in Plans
  BY <1>1, LeaderFacts DEF WaitConstantsOK, WaitInv, WaitTypes
<1>3. r \in Frames /\ r.dead = {} /\ r.group_dead = last /\ last \in BOOLEAN
  BY FrameFacts DEF Frames
<1>4. \A u \in Threads : /\ phase'[u] = IF u = t THEN "exiting" ELSE phase[u]
                         /\ frame'[u] = IF u = t THEN r ELSE frame[u]
  BY <1>1 DEF WaitInv, WaitTypes
<1>5. \A q \in Leaders : stop'[q] = IF last /\ q = Leader[t] THEN "no" ELSE stop[q]
  BY <1>1, <1>2 DEF WaitInv, WaitTypes
<1>6. /\ \A u \in Threads : PF_EXITING(u)' <=> PF_EXITING(u) \/ u = t
      /\ \A u \in Threads : phase'[u] \in DeadPhases <=> phase[u] \in DeadPhases
      /\ ~PF_EXITING(t)
  <2> HIDE DEF r, last
  <2>1. ASSUME NEW u \in Threads PROVE PF_EXITING(u)' <=> PF_EXITING(u) \/ u = t
    <3>1. CASE u = t
      BY <1>4, <3>1 DEF PF_EXITING
    <3>2. CASE u # t
      BY <1>4, <3>2 DEF PF_EXITING
    <3> QED BY <3>1, <3>2
  <2> QED BY <1>1, <1>4, <2>1 DEF PF_EXITING, DeadPhases
<1> HIDE DEF r, last
<1>7. WaitTypes'
  <2>1. phase' \in [Threads -> Phases] /\ frame' \in [Threads -> Frames]
    BY <1>1, <1>3 DEF WaitInv, WaitTypes, Phases, EndPhases
  <2>2. stop' \in [Leaders -> {"no", "stopped", "reported", "continued"}]
    BY <1>1, <1>2 DEF WaitInv, WaitTypes
  <2> QED BY <1>1, <2>1, <2>2 DEF WaitInv, WaitTypes
<1>8. Life'
  BY <1>1, <1>2, <1>4, <1>6 DEF WaitInv, Life, GroupEmpty
<1>9. DeadLists'
  <2>1. frame[t].dead = {}
    BY <1>1 DEF WaitInv, DeadLists
  <2> QED BY <1>1, <1>3, <1>4, <2>1, DeadListsKept
<1>10. Looks'
  <2>1. ASSUME NEW u \in Threads PROVE Looking(u)'
    <3>1. CASE u = t
      BY <1>4, <3>1 DEF Looking
    <3>2. CASE u # t
      BY <1>1, <1>4, <3>2, LookingKept
    <3> QED BY <3>1, <3>2
  <2> QED BY <2>1 DEF Looks
<1>11. Reports'
  <2>1. ASSUME NEW q \in Leaders, \A u \in Group(q) : PF_EXITING(u)' PROVE stop'[q] = "no"
    <3>1. CASE q = Leader[t]
      <4>1. last
        BY <1>6, <2>1, <3>1 DEF last, Group
      <4> QED BY <1>5, <3>1, <4>1
    <3>2. CASE q # Leader[t]
      <4>1. \A u \in Group(q) : u \in Threads /\ u # t
        BY <2>1, <3>2 DEF Group
      <4> QED BY <1>5, <1>6, <2>1, <3>2, <4>1 DEF WaitInv, Reports
    <3> QED BY <3>1, <3>2
  <2>2. ASSUME NEW q \in Leaders
        PROVE  /\ exit_state'[q] # "dead" => got'[q].exit = 0
               /\ stop'[q] # "no" => q \in stops' /\ got'[q].cont = 0
               /\ q \notin stops' \/ stop'[q] = "stopped" => got'[q].stop = 0 /\ got'[q].cont = 0
    BY <1>1, <1>5 DEF WaitInv, Reports
  <2> QED BY <2>1, <2>2 DEF Reports
<1>12. HasHeir'
  <2>1. \A q \in Leaders : real_parent[q] \in Threads
    BY DEF WaitInv, WaitTypes
  <2> QED BY <1>1, <1>6, <2>1 DEF WaitInv, HasHeir, DeadPhases, Reapable, Ignored
<1>13. Linked'
  <2>1. Announced' \subseteq Announced
    <3>1. ASSUME NEW q \in Announced' PROVE q \in Announced
      <4>1. /\ q \in Leaders
            /\ \A u \in Group(q) : PF_EXITING(u)' /\ ~(phase'[u] = "exiting" /\ frame'[u].group_dead)
        BY <3>1 DEF Announced
      <4>2. \A u \in Group(q) : u \in Threads
        BY DEF Group
      <4>3. CASE t \in Group(q)
        <5>1. ~last
          BY <1>3, <1>4, <4>1, <4>3
        <5>2. PICK u \in Group(Leader[t]) \ {t} : ~PF_EXITING(u)
          BY <5>1 DEF last
        <5>3. u \in Group(q)
          BY <4>3, <5>2 DEF Group
        <5> QED BY <1>6, <4>1, <4>2, <5>2, <5>3
      <4>4. CASE t \notin Group(q)
        BY <1>4, <1>6, <4>1, <4>2, <4>4 DEF Announced
      <4> QED BY <4>3, <4>4
    <3> QED BY <3>1
  <2>2. \A q \in Leaders : Stopped(q)' => Stopped(q)
    BY <1>5 DEF Stopped
  <2>3. \A q : Orphaned(q, Announced', exit_state, hashed, real_parent)
                 => Orphaned(q, Announced, exit_state, hashed, real_parent)
    BY <2>1 DEF Orphaned
  <2> QED BY <1>1, <2>2, <2>3 DEF WaitInv, Linked
<1>14. AtHome'
  <2>1. \A q \in Leaders : Group(Leader[Parent[q]]) \subseteq Threads
    BY DEF Group
  <2> QED BY <1>1, <1>6, <2>1 DEF WaitInv, AtHome
<1>15. Served'
  <2>1. ASSUME NEW u \in Threads PROVE ServedWell(u)'
    <3>1. CASE u = t
      BY <1>4, <3>1 DEF ServedWell
    <3>2. CASE u # t
      <4>1. \A q \in Seen(u) : q \in Leaders
        BY DEF Seen, Children
      <4> QED BY <1>1, <1>4, <1>5, <3>2, <4>1, ServedKept
    <3> QED BY <3>1, <3>2
  <2> QED BY <2>1 DEF Served
<1> QED BY <1>7, <1>8, <1>9, <1>10, <1>11, <1>12, <1>13, <1>14, <1>15 DEF WaitInv

\* release_task() of the last thread of a group but its leader tells the parent of
\* the leader, or takes the leader along.
LEMMA ReleaseTaskStep ==
  ASSUME WaitConstantsOK, WaitInv, NEW t \in Threads, NEW p \in Threads, ReleaseTask(t, p)
  PROVE  WaitInv'
<1> DEFINE left == hashed \ {p}
<1> DEFINE last == {l \in {Leader[p]} \ {p} : GroupEmpty(l, left) /\ exit_state[l] = "zombie"}
<1> DEFINE zap == {l \in last : Ignored(l, real_parent)}
<1> DEFINE dead == (frame[t].dead \ {p}) \cup zap
<1> DEFINE r == IF dead = {} THEN EmptyFrame ELSE [frame[t] EXCEPT !.dead = dead]
<1> DEFINE l == IF dead # {} THEN phase[t] ELSE IF phase[t] = "release" THEN "gone" ELSE "run"
<1>1. /\ phase[t] \in {"release", "reaped"} /\ p \in frame[t].dead /\ NoReader
      /\ hashed' = left
      /\ awake' = [u \in Threads |-> awake[u] \/ u \in Woken(last, real_parent)]
      /\ exit_state' = [u \in Threads |-> IF u \in zap THEN "dead" ELSE exit_state[u]]
      /\ released' = [released EXCEPT ![p] = @ + 1]
      /\ frame' = [frame EXCEPT ![t] = r] /\ phase' = [phase EXCEPT ![t] = l]
      /\ UNCHANGED <<plan, real_parent, stop, note, stops, late, got>>
  BY DEF ReleaseTask, WakeUpParent, SetFrame, Become, jobVars
<1>2. p \in hashed /\ exit_state[p] = "dead" /\ \A u \in Threads \ {t} : p \notin frame[u].dead
  BY <1>1 DEF WaitInv, DeadLists
<1>3. ASSUME NEW x \in last
      PROVE  /\ x = Leader[p] /\ x # p /\ x \in Leaders /\ x \in Threads /\ x \in left
             /\ GroupEmpty(x, left) /\ exit_state[x] = "zombie"
  BY <1>3, LeaderFacts DEF WaitInv, Life
<1>4. frame[t].dead \subseteq Threads /\ dead \subseteq Threads
  BY <1>3 DEF WaitInv, WaitTypes, Frames
<1>5. r \in Frames /\ r.dead = dead
  BY <1>4, FrameFacts DEF Frames
<1>6. l \in Phases /\ (l \in DeadPhases <=> phase[t] \in DeadPhases) /\ l \notin LookPhases
      /\ l # "exiting" /\ (l \notin {"release", "reaped"} => dead = {})
  BY <1>1 DEF Phases, EndPhases, DeadPhases, LookPhases
<1>7. \A u \in Threads : /\ phase'[u] = IF u = t THEN l ELSE phase[u]
                         /\ frame'[u] = IF u = t THEN r ELSE frame[u]
                         /\ exit_state'[u] = IF u \in zap THEN "dead" ELSE exit_state[u]
                         /\ released'[u] = IF u = p THEN 1 ELSE released[u]
  <2> HIDE DEF r, l, zap, left
  <2>1. released[p] = 0
    BY <1>2 DEF WaitInv, Life
  <2> QED BY <1>1, <2>1 DEF WaitInv, WaitTypes
<1>8. \A x \in zap : x \in last
  OBVIOUS
<1>9. \A x \in last : Ignored(x, real_parent) => x \in zap
  OBVIOUS
<1>10. \A x \in zap : x \in dead
  OBVIOUS
<1>11. \A x : x \in dead <=> (x \in frame[t].dead /\ x # p) \/ x \in zap
  OBVIOUS
<1>12. \A x \in Leaders \ {p} : exit_state[x] = "zombie" /\ GroupEmpty(x, left)
         => GroupEmpty(x, hashed) \/ x \in last
  <2>1. ASSUME NEW x \in Leaders, x # p, exit_state[x] = "zombie", GroupEmpty(x, left),
               ~GroupEmpty(x, hashed)
        PROVE  x = Leader[p]
    BY <2>1 DEF GroupEmpty, Group
  <2> QED BY <2>1
<1>13. \A x : GroupEmpty(x, hashed) => GroupEmpty(x, left)
  BY DEF GroupEmpty
<1> HIDE DEF r, l, zap, last, dead
<1>14. \A u \in Threads : /\ phase'[u] \in DeadPhases <=> phase[u] \in DeadPhases
                          /\ phase'[u] = "exiting" <=> phase[u] = "exiting"
                          /\ PF_EXITING(u)' <=> PF_EXITING(u)
                          /\ phase[u] = "exiting" => frame'[u] = frame[u]
  BY <1>1, <1>6, <1>7 DEF PF_EXITING, DeadPhases
<1>15. Announced' = Announced
  <2>1. \A q \in Leaders : Group(q) \subseteq Threads
    BY DEF Group
  <2> QED BY <1>14, <2>1 DEF Announced
<1>16. WaitTypes'
  <2>1. phase' \in [Threads -> Phases] /\ frame' \in [Threads -> Frames]
    BY <1>1, <1>5, <1>6 DEF WaitInv, WaitTypes
  <2>2. awake' \in [Threads -> BOOLEAN]
    BY <1>1 DEF WaitInv, WaitTypes
  <2>3. exit_state' \in [Threads -> {"alive", "zombie", "dead"}] /\ hashed' \subseteq Threads
    BY <1>1 DEF WaitInv, WaitTypes
  <2>4. released' \in [Threads -> {0, 1}]
    BY <1>1, <1>7 DEF WaitInv, WaitTypes
  <2> QED BY <1>1, <2>1, <2>2, <2>3, <2>4 DEF WaitInv, WaitTypes
<1>17. Life'
  <2>1. ASSUME NEW u \in Threads
        PROVE  /\ phase'[u] \in DeadPhases <=> exit_state'[u] # "alive"
               /\ IF u \in hashed' THEN released'[u] = 0
                  ELSE released'[u] = 1 /\ exit_state'[u] = "dead"
    BY <1>1, <1>2, <1>3, <1>7, <1>8, <1>14 DEF WaitInv, Life
  <2>2. InitTask \in Threads /\ phase'[InitTask] \notin EndPhases
    BY <1>14, LeaderFacts DEF WaitInv, Life, EndPhases
  <2>3. ASSUME NEW q \in Leaders, exit_state'[q] = "dead" PROVE GroupEmpty(q, hashed')
    BY <1>1, <1>3, <1>7, <1>8, <1>13, <2>3, LeaderFacts DEF WaitInv, Life
  <2> QED BY <2>1, <2>2, <2>3 DEF Life
<1>18. DeadLists'
  <2>1. \A u \in Threads : frame[u].dead \subseteq Threads
    BY DEF WaitInv, WaitTypes, Frames
  <2>2. ASSUME NEW u \in Threads
        PROVE  phase'[u] \notin {"release", "reaped"} => frame'[u].dead = {}
    BY <1>5, <1>6, <1>7 DEF WaitInv, DeadLists
  <2>3. ASSUME NEW u \in Threads, NEW x \in frame'[u].dead
        PROVE  /\ x \in hashed' /\ exit_state'[x] = "dead"
               /\ \A v \in Threads \ {u} : x \notin frame'[v].dead
    <3>1. CASE u = t /\ x \in zap
      <4>1. x \in left /\ x \in Threads /\ exit_state[x] = "zombie"
        BY <1>3, <1>8, <3>1
      <4>2. \A v \in Threads : x \notin frame[v].dead
        BY <4>1 DEF WaitInv, DeadLists
      <4> QED BY <1>1, <1>7, <3>1, <4>1, <4>2
    <3>2. CASE u = t /\ x \notin zap
      <4>1. x \in frame[t].dead /\ x # p
        BY <1>5, <1>7, <1>11, <2>3, <3>2
      <4> QED BY <1>1, <1>7, <2>1, <3>2, <4>1 DEF WaitInv, DeadLists
    <3>3. CASE u # t
      <4>1. x \in frame[u].dead
        BY <1>7, <2>3, <3>3
      <4>2. x # p /\ x \in hashed /\ exit_state[x] = "dead" /\ x \in Threads
        BY <1>2, <2>1, <3>3, <4>1 DEF WaitInv, DeadLists
      <4>3. x \notin dead
        BY <1>3, <1>8, <1>11, <3>3, <4>1, <4>2 DEF WaitInv, DeadLists
      <4> QED BY <1>1, <1>5, <1>7, <3>3, <4>1, <4>2, <4>3 DEF WaitInv, DeadLists
    <3> QED BY <3>1, <3>2, <3>3
  <2> QED BY <2>2, <2>3 DEF DeadLists
<1>19. Looks'
  BY <1>1, <1>6, <1>7 DEF NoReader, Looks, Looking, LookPhases
<1>20. Reports'
  <2>1. \A q \in Leaders : Group(q) \subseteq Threads /\ q \in Threads
    BY LeaderFacts DEF Group
  <2> QED BY <1>1, <1>7, <1>14, <2>1 DEF WaitInv, Reports
<1>21. HasHeir'
  <2>1. ASSUME NEW q \in (Leaders \cap hashed') \ {InitTask}
        PROVE  /\ phase'[real_parent[q]] \notin {"release", "gone"}
               /\ Reapable(q)' => ~Ignored(q, real_parent)
    <3>1. q \in (Leaders \cap hashed) \ {InitTask} /\ q # p /\ real_parent[q] \in Threads /\ q \in Threads
      BY <1>1, LeaderFacts DEF WaitInv, WaitTypes
    <3>2. phase'[real_parent[q]] \notin {"release", "gone"}
      BY <1>14, <3>1 DEF WaitInv, HasHeir, DeadPhases
    <3>3. ASSUME Reapable(q)', Ignored(q, real_parent) PROVE FALSE
      <4>1. q \notin zap /\ exit_state[q] = "zombie" /\ GroupEmpty(q, left)
        BY <1>1, <1>7, <3>1, <3>3 DEF Reapable
      <4>2. GroupEmpty(q, hashed)
        BY <1>9, <1>12, <3>1, <3>3, <4>1
      <4> QED BY <3>1, <3>3, <4>1, <4>2 DEF WaitInv, HasHeir, Reapable
    <3> QED BY <3>2, <3>3
  <2> QED BY <1>1, <2>1 DEF HasHeir, Ignored
<1>22. Linked'
  <2>1. ASSUME NEW q \in (Leaders \cap hashed') \ late', Stopped(q)'
        PROVE  ~Orphaned(Pgrp[q], Announced', exit_state', hashed', real_parent')
    <3>1. q \in (Leaders \cap hashed) \ late /\ Stopped(q)
      BY <1>1, <2>1 DEF Stopped
    <3>2. PICK x : Links(Pgrp[q], x, exit_state, hashed, real_parent) /\ x \notin Announced
      BY <3>1, LinkedMeans DEF WaitInv
    <3>3. x \in Leaders /\ x \in Threads /\ x \in hashed
      BY <3>2, LeaderFacts DEF Links
    <3>4. x # p
      BY <1>2, <3>2, <3>3 DEF Links, WaitInv, Life
    <3>5. ASSUME exit_state'[x] # "alive", GroupEmpty(x, left) PROVE FALSE
      <4>1. exit_state[x] # "alive"
        BY <1>3, <1>7, <1>8, <3>3, <3>5
      <4>2. ASSUME NEW u \in Group(x) PROVE phase[u] \in DeadPhases
        <5>1. u \in Threads /\ (u = x \/ u \notin hashed \/ u = p)
          BY <3>5, <4>2 DEF GroupEmpty, Group
        <5> QED BY <1>2, <4>1, <5>1 DEF WaitInv, Life
      <4>3. x \in Announced
        BY <3>3, <4>2 DEF Announced, PF_EXITING, DeadPhases
      <4> QED BY <3>2, <4>3
    <3>6. Links(Pgrp[q], x, exit_state', left, real_parent)
      BY <3>2, <3>3, <3>4, <3>5 DEF Links
    <3> QED BY <1>1, <1>15, <3>2, <3>6, OrphanHasNoLink
  <2> QED BY <2>1 DEF Linked
<1>23. AtHome'
  <2>1. \A q \in Leaders : Group(Leader[Parent[q]]) \subseteq Threads
    BY DEF Group
  <2> QED BY <1>1, <1>14, <2>1 DEF WaitInv, AtHome
<1>24. Served'
  <2>1. ASSUME NEW u \in Threads PROVE ServedWell(u)'
    <3>1. CASE u = t
      BY <1>6, <1>7, <3>1 DEF ServedWell, LookPhases
    <3>2. CASE u # t
      <4>1. phase'[u] = phase[u] /\ frame'[u] = frame[u] /\ phase[u] \notin {"scan", "reap"}
        BY <1>1, <1>7, <3>2 DEF NoReader
      <4> SUFFICES ASSUME phase[u] = "sleep", ~awake'[u], ~HasFlag(u, "__WNOTHREAD")
                   PROVE  Content(u)'
        BY <4>1 DEF WaitInv, Served, ServedWell, HasFlag
      <4>2. Content(u) /\ ~awake[u] /\ u \notin Woken(last, real_parent)
        BY <1>1 DEF WaitInv, Served, ServedWell
      <4>3. Children(u)' = Children(u) \ {p} /\ Seen(u)' = Seen(u) \ {p}
        BY <1>1, <4>1 DEF Children, Seen
      <4>4. \A q \in Seen(u) : q \in Leaders /\ q \in Threads /\ q \notin last
        <5>1. ASSUME NEW q \in Seen(u) PROVE q \in Leaders /\ q \in Threads /\ q \notin last
          <6>1. q \in Children(u)
            BY DEF Seen
          <6>2. Leader[real_parent[q]] = Leader[u] /\ frame[u].wo.pid \in {q, AnyChild}
            BY <6>1, ChildOfProcess DEF WaitInv
          <6>3. q \in last => u \in Woken(last, real_parent)
            BY <6>2, ChildWakes DEF LookPhases
          <6> QED BY <4>2, <6>1, <6>3, LeaderFacts DEF Children
        <5> QED BY <5>1
      <4>5. \A f : HasFlag(u, f)' <=> HasFlag(u, f)
        BY <4>1 DEF HasFlag
      <4>6. ASSUME NEW q \in Seen(u) \ {p}, HasFlag(u, "WEXITED") PROVE ~Reapable(q)'
        <5>1. ~Reapable(q)
          BY <4>2, <4>6 DEF Content
        <5> QED BY <1>1, <1>7, <1>8, <1>12, <4>4, <4>6, <5>1 DEF Reapable
      <4>7. ASSUME HasFlag(u, "WEXITED"), frame[u].child
            PROVE  \E q \in Seen(u) \ {p} : exit_state'[q] # "dead"
        <5>1. PICK q \in Seen(u) : exit_state[q] # "dead"
          BY <4>2, <4>7 DEF Content
        <5> QED BY <1>2, <1>7, <1>8, <4>4, <5>1
      <4>8. ASSUME NEW q \in Seen(u) \ {p}, q \notin note, Leader[Parent[q]] = Leader[u]
            PROVE  NoStopToReport(u, q)'
        BY <1>1, <4>2, <4>5, <4>8 DEF Content, NoStopToReport
      <4> QED BY <1>1, <4>1, <4>3, <4>5, <4>6, <4>7, <4>8 DEF Content
    <3> QED BY <3>1, <3>2
  <2> QED BY <2>1 DEF Served
<1> QED BY <1>16, <1>17, <1>18, <1>19, <1>20, <1>21, <1>22, <1>23, <1>24 DEF WaitInv

\* What exit_notify() of t does when heir inherits.
Kids(t) == {p \in Leaders \cap hashed : real_parent[p] = t}
ParentsAfter(t, heir) ==
  [p \in Leaders |-> IF p \in Kids(t) THEN heir ELSE real_parent[p]]
Told(t, heir) ==
  IF Leader[heir] = Leader[t] THEN {}
  ELSE {p \in Kids(t) : exit_state[p] = "zombie" /\ GroupEmpty(p, hashed)}
Self(t) == {p \in {t} : p \in Leaders /\ GroupEmpty(p, hashed)}
DeadNow(t, heir) ==
  {p \in Told(t, heir) \cup Self(t) : Ignored(p, ParentsAfter(t, heir))}
    \cup (IF t \in Leaders THEN {} ELSE {t})
JobsLeft(t, heir) ==
  UNION {StoppedJobs(q) : q \in LeftAlone(t, Kids(t), heir, ParentsAfter(t, heir))}

Notifies(t, heir) ==
  /\ phase[t] = "exiting" /\ NoReader /\ heir \in NewReapers(t)
  /\ real_parent' = ParentsAfter(t, heir)
  /\ exit_state' = [p \in Threads |->
       IF p \in DeadNow(t, heir) THEN "dead" ELSE IF p = t THEN "zombie" ELSE exit_state[p]]
  /\ stop' = [p \in Leaders |-> IF p \in JobsLeft(t, heir) THEN "continued" ELSE stop[p]]
  /\ note' = note \cup JobsLeft(t, heir)
  /\ awake' = [u \in Threads |->
       awake[u] \/ u \in Woken(Told(t, heir) \cup Self(t), ParentsAfter(t, heir))]
  /\ frame' = [frame EXCEPT ![t] = [frame[t] EXCEPT !.dead = DeadNow(t, heir)]]
  /\ phase' = [phase EXCEPT ![t] = IF DeadNow(t, heir) = {} THEN "gone" ELSE "release"]
  /\ late' = late \cup {p \in Leaders : Stopped(p)' /\ OnlyAnnounced(Pgrp[p])'}
  /\ UNCHANGED <<plan, calls, hashed, released, got, stops>>

LEMMA ExitNotifyMeans ==
  ASSUME NEW t \in Threads, ExitNotify(t)
  PROVE  \E heir : Notifies(t, heir)
BY DEF ExitNotify, Notifies, Kids, ParentsAfter, Told, Self, DeadNow, JobsLeft, KillOrphaned,
       WakeUpParent, SetFrame, Become

\* find_new_reaper() finds a thread that is not about to end, of the same process
\* as long as there is one.
LEMMA HeirFacts ==
  ASSUME WaitConstantsOK, WaitInv, NEW t \in Threads, phase[t] = "exiting",
         NEW heir \in NewReapers(t)
  PROVE  /\ heir \in Threads /\ ~PF_EXITING(heir)
         /\ AliveThreads(Leader[t]) # {} => Leader[heir] = Leader[t]
         /\ Leader[heir] # Leader[t] => \A u \in Group(Leader[t]) : PF_EXITING(u)
<1>1. InitTask \in Threads /\ ~PF_EXITING(InitTask)
  BY LeaderFacts DEF WaitInv, Life, PF_EXITING, EndPhases, DeadPhases
<1>2. (\E x : heir \in AliveThreads(x)) \/ heir = InitTask
  BY DEF NewReapers
<1>3. heir \in Threads /\ ~PF_EXITING(heir)
  BY <1>1, <1>2 DEF AliveThreads, Group
<1>4. ASSUME AliveThreads(Leader[t]) # {} PROVE Leader[heir] = Leader[t]
  BY <1>4 DEF NewReapers, AliveThreads, Group
<1>5. ASSUME AliveThreads(Leader[t]) = {}, NEW u \in Group(Leader[t]) PROVE PF_EXITING(u)
  <2>1. u \in Threads
    BY DEF Group
  <2>2. CASE u \in hashed
    BY <1>5, <2>2 DEF AliveThreads
  <2>3. CASE u \notin hashed
    BY <2>1, <2>3, OutIsEnded DEF WaitInv, PF_EXITING, DeadPhases
  <2> QED BY <2>2, <2>3
<1> QED BY <1>3, <1>4, <1>5

LEMMA DeadFrame ==
  ASSUME NEW r \in Frames, NEW dead \in SUBSET Threads
  PROVE  [r EXCEPT !.dead = dead] \in Frames /\ [r EXCEPT !.dead = dead].dead = dead
BY DEF Frames

\* The facts of the step that the parts of the invariant rest on.
LEMMA NotifyFacts ==
  ASSUME WaitConstantsOK, WaitInv, NEW t \in Threads, NEW heir, Notifies(t, heir)
  PROVE  /\ heir \in Threads /\ t # InitTask /\ t \in hashed /\ exit_state[t] = "alive"
         /\ PF_EXITING(t) /\ heir # t
         /\ \A u \in Threads :
              /\ u # t => phase'[u] = phase[u] /\ frame'[u] = frame[u]
              /\ phase[u] \notin {"scan", "reap"}
              /\ phase'[u] \in DeadPhases <=> phase[u] \in DeadPhases \/ u = t
              /\ PF_EXITING(u)' <=> PF_EXITING(u)
         /\ phase'[t] = (IF DeadNow(t, heir) = {} THEN "gone" ELSE "release")
         /\ frame'[t].dead = DeadNow(t, heir) /\ frame'[t] \in Frames
         /\ \A p \in Leaders :
              real_parent'[p] = (IF p \in Kids(t) THEN heir ELSE real_parent[p])
         /\ \A p \in DeadNow(t, heir) : p = t \/ p \in Told(t, heir)
         /\ \A p \in Told(t, heir) : /\ p \in Kids(t) /\ p # t /\ Leader[heir] # Leader[t]
                                     /\ exit_state[p] = "zombie" /\ GroupEmpty(p, hashed)
         /\ \A p \in Kids(t) : p \in Leaders /\ p \in Threads /\ p \in hashed /\ real_parent[p] = t
         /\ \A p \in Threads : /\ exit_state'[p] # "alive" <=> exit_state[p] # "alive" \/ p = t
                               /\ exit_state'[p] = (IF p \in DeadNow(t, heir) THEN "dead"
                                                    ELSE IF p = t THEN "zombie" ELSE exit_state[p])
<1>1. phase[t] = "exiting" /\ NoReader /\ heir \in NewReapers(t)
  BY DEF Notifies
<1>2. exit_state[t] = "alive" /\ t \in hashed /\ t # InitTask /\ PF_EXITING(t)
  BY <1>1 DEF WaitInv, Life, PF_EXITING, EndPhases, DeadPhases
<1>3. heir \in Threads /\ ~PF_EXITING(heir) /\ heir # t
  BY <1>1, <1>2, HeirFacts
<1>4. /\ \A p \in Kids(t) : p \in Leaders /\ p \in Threads /\ p \in hashed /\ real_parent[p] = t
      /\ \A p \in Told(t, heir) : /\ p \in Kids(t) /\ p # t /\ Leader[heir] # Leader[t]
                                  /\ exit_state[p] = "zombie" /\ GroupEmpty(p, hashed)
      /\ \A p \in DeadNow(t, heir) : (p = t \/ p \in Told(t, heir)) /\ p \in Threads
  BY <1>2, LeaderFacts DEF Kids, Told, DeadNow, Self
<1>5. frame'[t].dead = DeadNow(t, heir) /\ frame'[t] \in Frames
  <2>1. DeadNow(t, heir) \subseteq Threads /\ frame[t] \in Frames
    BY <1>4 DEF WaitInv, WaitTypes
  <2>2. frame'[t] = [frame[t] EXCEPT !.dead = DeadNow(t, heir)]
    BY DEF Notifies, WaitInv, WaitTypes
  <2> QED BY <2>1, <2>2, DeadFrame
<1>6. phase'[t] = (IF DeadNow(t, heir) = {} THEN "gone" ELSE "release")
  BY DEF Notifies, WaitInv, WaitTypes
<1>7. \A u \in Threads : u # t => phase'[u] = phase[u] /\ frame'[u] = frame[u]
  BY DEF Notifies, WaitInv, WaitTypes
<1>8. ASSUME NEW u \in Threads
      PROVE  /\ phase[u] \notin {"scan", "reap"}
             /\ phase'[u] \in DeadPhases <=> phase[u] \in DeadPhases \/ u = t
             /\ PF_EXITING(u)' <=> PF_EXITING(u)
  BY <1>1, <1>6, <1>7 DEF NoReader, PF_EXITING, DeadPhases
<1>9. \A p \in Leaders : real_parent'[p] = (IF p \in Kids(t) THEN heir ELSE real_parent[p])
  BY DEF Notifies, ParentsAfter
<1>10. \A p \in Threads : exit_state'[p] = (IF p \in DeadNow(t, heir) THEN "dead"
                                            ELSE IF p = t THEN "zombie" ELSE exit_state[p])
  BY DEF Notifies
<1>11. \A p \in Threads : exit_state'[p] # "alive" <=> exit_state[p] # "alive" \/ p = t
  BY <1>4, <1>10
<1> QED BY <1>1, <1>2, <1>3, <1>4, <1>5, <1>6, <1>7, <1>8, <1>9, <1>10, <1>11

LEMMA NotifyLife ==
  ASSUME WaitConstantsOK, WaitInv, NEW t \in Threads, NEW heir, Notifies(t, heir)
  PROVE  WaitTypes' /\ Life' /\ DeadLists' /\ Looks' /\ Reports'
<1>1. UNCHANGED <<plan, hashed, released, got, stops>>
  BY DEF Notifies
<1>2. JobsLeft(t, heir) \subseteq Leaders /\ \A p \in JobsLeft(t, heir) : Stopped(p)
  BY DEF JobsLeft, StoppedJobs
<1>3. \A p \in Leaders : stop'[p] = IF p \in JobsLeft(t, heir) THEN "continued" ELSE stop[p]
  BY DEF Notifies
<1>4. \A p \in DeadNow(t, heir) : p \in Threads /\ p \in hashed /\ exit_state[p] # "dead"
  BY NotifyFacts
<1>5. WaitTypes'
  <2>1. phase' \in [Threads -> Phases]
    BY DEF Notifies, WaitInv, WaitTypes, Phases, EndPhases, DeadPhases
  <2>2. frame' \in [Threads -> Frames]
    <3>1. [frame[t] EXCEPT !.dead = DeadNow(t, heir)] \in Frames
      <4>1. DeadNow(t, heir) \subseteq Threads /\ frame[t] \in Frames
        BY <1>4 DEF WaitInv, WaitTypes
      <4> QED BY <4>1, DeadFrame
    <3> QED BY <3>1 DEF Notifies, WaitInv, WaitTypes
  <2>3. awake' \in [Threads -> BOOLEAN]
    BY DEF Notifies, WaitInv, WaitTypes
  <2>4. exit_state' \in [Threads -> {"alive", "zombie", "dead"}]
    BY DEF Notifies, WaitInv, WaitTypes
  <2>5. real_parent' \in [Leaders -> Threads]
    BY NotifyFacts DEF Notifies, ParentsAfter, WaitInv, WaitTypes
  <2>6. /\ stop' \in [Leaders -> {"no", "stopped", "reported", "continued"}]
        /\ note' \subseteq Leaders
    BY <1>2 DEF Notifies, WaitInv, WaitTypes
  <2> QED BY <1>1, <2>1, <2>2, <2>3, <2>4, <2>5, <2>6 DEF WaitInv, WaitTypes
<1>6. Life'
  <2>1. ASSUME NEW u \in Threads
        PROVE  /\ phase'[u] \in DeadPhases <=> exit_state'[u] # "alive"
               /\ IF u \in hashed' THEN released'[u] = 0
                  ELSE released'[u] = 1 /\ exit_state'[u] = "dead"
    <3>1. phase'[u] \in DeadPhases <=> exit_state'[u] # "alive"
      BY NotifyFacts DEF WaitInv, Life
    <3>2. u \notin hashed => u # t /\ exit_state[u] = "dead"
      BY NotifyFacts DEF WaitInv, Life
    <3> QED BY <1>1, <3>1, <3>2, NotifyFacts DEF WaitInv, Life
  <2>2. phase'[InitTask] \notin EndPhases
    BY LeaderFacts, NotifyFacts DEF WaitInv, Life
  <2>3. ASSUME NEW p \in Leaders, exit_state'[p] = "dead" PROVE GroupEmpty(p, hashed)
    <3>1. p \in Threads
      BY LeaderFacts
    <3>2. CASE p \in DeadNow(t, heir)
      <4>1. p \in Told(t, heir) \/ p \in Self(t)
        BY <3>2 DEF DeadNow
      <4> QED BY <4>1, NotifyFacts DEF Self
    <3>3. CASE p \notin DeadNow(t, heir)
      BY <2>3, <3>1, <3>3, NotifyFacts DEF WaitInv, Life
    <3> QED BY <3>2, <3>3
  <2> QED BY <1>1, <2>1, <2>2, <2>3 DEF Life, GroupEmpty
<1>7. DeadLists'
  <2>1. \A u \in Threads : frame[u].dead \subseteq Threads
    BY DEF WaitInv, WaitTypes, Frames
  <2>2. ASSUME NEW u \in Threads
        PROVE  phase'[u] \notin {"release", "reaped"} => frame'[u].dead = {}
    BY NotifyFacts DEF WaitInv, DeadLists
  <2>3. ASSUME NEW u \in Threads, NEW x \in frame'[u].dead
        PROVE  /\ x \in hashed' /\ exit_state'[x] = "dead"
               /\ \A v \in Threads \ {u} : x \notin frame'[v].dead
    <3>1. CASE u = t
      <4>1. x \in DeadNow(t, heir)
        BY <2>3, <3>1, NotifyFacts
      <4>2. \A v \in Threads \ {t} : x \notin frame'[v].dead
        BY <1>4, <4>1, NotifyFacts DEF WaitInv, DeadLists
      <4> QED BY <1>1, <1>4, <3>1, <4>1, <4>2, NotifyFacts
    <3>2. CASE u # t
      <4>1. x \in frame[u].dead /\ x \in Threads
        BY <2>1, <2>3, <3>2, NotifyFacts
      <4>2. x \in hashed /\ exit_state[x] = "dead" /\ \A v \in Threads \ {u} : x \notin frame[v].dead
        BY <4>1 DEF WaitInv, DeadLists
      <4>3. x \notin DeadNow(t, heir) /\ x # t
        BY <1>4, <4>2, NotifyFacts
      <4> QED BY <1>1, <4>1, <4>2, <4>3, NotifyFacts
    <3> QED BY <3>1, <3>2
  <2> QED BY <2>2, <2>3 DEF DeadLists
<1>8. Looks'
  <2>1. ASSUME NEW u \in Threads PROVE Looking(u)'
    BY NotifyFacts DEF Looking
  <2> QED BY <2>1 DEF Looks
<1>9. Reports'
  <2>1. ASSUME NEW p \in Leaders
        PROVE  /\ exit_state'[p] # "dead" => got'[p].exit = 0
               /\ stop'[p] # "no" => p \in stops' /\ got'[p].cont = 0
               /\ p \notin stops' \/ stop'[p] = "stopped" => got'[p].stop = 0 /\ got'[p].cont = 0
               /\ (\A u \in Group(p) : PF_EXITING(u)') => stop'[p] = "no"
    <3>1. exit_state'[p] # "dead" => exit_state[p] # "dead"
      BY LeaderFacts, NotifyFacts
    <3>2. p \in JobsLeft(t, heir) => stop[p] # "no"
      BY <1>2 DEF Stopped
    <3>3. (\A u \in Group(p) : PF_EXITING(u)') => \A u \in Group(p) : PF_EXITING(u)
      BY NotifyFacts DEF Group
    <3> QED BY <1>1, <1>3, <3>1, <3>2, <3>3 DEF WaitInv, Reports
  <2> QED BY <2>1 DEF Reports
<1> QED BY <1>5, <1>6, <1>7, <1>8, <1>9

\* A child that changes its process leaves one without a living thread.
LEMMA NotifyKids ==
  ASSUME WaitConstantsOK, WaitInv, NEW t \in Threads, NEW heir, Notifies(t, heir), NEW p \in Leaders
  PROVE  \/ Leader[real_parent'[p]] = Leader[real_parent[p]]
         \/ /\ p \in Kids(t) /\ real_parent[p] = t /\ real_parent'[p] = heir
            /\ Leader[heir] # Leader[t] /\ \A u \in Group(Leader[t]) : PF_EXITING(u)
<1>1. phase[t] = "exiting" /\ heir \in NewReapers(t)
  BY DEF Notifies
<1> QED BY <1>1, NotifyFacts, HeirFacts

LEMMA NotifyHeirs ==
  ASSUME WaitConstantsOK, WaitInv, NEW t \in Threads, NEW heir, Notifies(t, heir)
  PROVE  HasHeir' /\ AtHome'
<1>1. UNCHANGED <<plan, hashed>> /\ ~PF_EXITING(heir) /\ heir \in Threads
  BY HeirFacts DEF Notifies
<1>2. ASSUME NEW p \in (Leaders \cap hashed) \ {InitTask}
      PROVE  /\ phase'[real_parent'[p]] \notin DeadPhases
             /\ Reapable(p)' => ~Ignored(p, real_parent')
  <2>1. p \in Threads /\ real_parent[p] \in Threads
    BY LeaderFacts DEF WaitInv, WaitTypes
  <2>2. phase'[real_parent'[p]] \notin DeadPhases
    <3>1. CASE p \in Kids(t)
      <4>1. real_parent'[p] = heir /\ heir # t /\ phase[heir] \notin DeadPhases
        BY <1>1, <3>1, NotifyFacts DEF PF_EXITING, DeadPhases
      <4> QED BY <1>1, <4>1, NotifyFacts
    <3>2. CASE p \notin Kids(t)
      <4>1. real_parent'[p] = real_parent[p] /\ real_parent[p] # t
        BY <3>2, NotifyFacts DEF Kids
      <4> QED BY <2>1, <4>1, NotifyFacts DEF WaitInv, HasHeir, DeadPhases
    <3> QED BY <3>1, <3>2
  <2>3. ASSUME Reapable(p)', Ignored(p, real_parent') PROVE FALSE
    <3>1. p \notin DeadNow(t, heir) /\ GroupEmpty(p, hashed)
      BY <1>1, <2>1, <2>3, NotifyFacts DEF Reapable
    <3>2. Ignored(p, ParentsAfter(t, heir))
      BY <2>3 DEF Notifies
    <3>3. p \notin Told(t, heir) /\ p \notin Self(t)
      BY <3>1, <3>2 DEF DeadNow
    <3>4. p # t /\ exit_state[p] = "zombie"
      BY <2>1, <2>3, <3>1, <3>3, NotifyFacts DEF Self, Reapable
    <3>5. Leader[real_parent'[p]] = Leader[real_parent[p]]
      BY <3>1, <3>3, <3>4, NotifyKids DEF Told
    <3> QED BY <2>3, <3>1, <3>4, <3>5 DEF WaitInv, HasHeir, Reapable, Ignored
  <2> QED BY <2>2, <2>3
<1>3. HasHeir'
  BY <1>1, <1>2 DEF HasHeir, DeadPhases, Ignored
<1>4. AtHome'
  <2>1. ASSUME NEW p \in Leaders, Leader[real_parent'[p]] # Leader[Parent[p]],
               NEW u \in Group(Leader[Parent[p]])
        PROVE  PF_EXITING(u)'
    <3>1. u \in Threads
      BY DEF Group
    <3>2. PF_EXITING(u)
      BY <2>1, NotifyKids DEF WaitInv, AtHome
    <3> QED BY <3>1, <3>2, NotifyFacts
  <2> QED BY <2>1 DEF AtHome
<1> QED BY <1>3, <1>4

\* Whoever breaks the last link of a group looks at it.
LEMMA NotifyLinked ==
  ASSUME WaitConstantsOK, WaitInv, NEW t \in Threads, NEW heir, Notifies(t, heir)
  PROVE  Linked'
<1> DEFINE me == Leader[t]
<1>1. /\ UNCHANGED hashed /\ real_parent' = ParentsAfter(t, heir)
      /\ stop' = [p \in Leaders |-> IF p \in JobsLeft(t, heir) THEN "continued" ELSE stop[p]]
      /\ late' = late \cup {p \in Leaders : Stopped(p)' /\ OnlyAnnounced(Pgrp[p])'}
  BY DEF Notifies
<1>2. me \in Leaders /\ me \in Threads
  BY LeaderFacts
<1>3. ASSUME NEW p \in (Leaders \cap hashed) \ late, Stopped(p), p \notin JobsLeft(t, heir)
      PROVE  ~Orphaned(Pgrp[p], {}, exit_state', hashed, real_parent')
  <2> DEFINE q == Pgrp[p]
  <2> SUFFICES ASSUME Orphaned(q, {}, exit_state', hashed, real_parent') PROVE FALSE
    OBVIOUS
  <2> HIDE DEF q
  <2>1. PICK x : Links(q, x, exit_state, hashed, real_parent) /\ x \notin Announced
    BY <1>3, LinkedMeans DEF WaitInv, q
  <2>2. x \in Leaders /\ x \in Threads /\ x \in hashed /\ Pgrp[x] = q
    BY <2>1, LeaderFacts DEF Links
  <2>3. \A y : ~Links(q, y, exit_state', hashed, real_parent')
    BY OrphanHasNoLink
  <2>4. p \in StoppedJobs(q)
    BY <1>3 DEF StoppedJobs, q
  <2>5. q \notin LeftAlone(t, Kids(t), heir, ParentsAfter(t, heir))
    BY <1>3, <2>4 DEF JobsLeft
  <2>6. ASSUME NEW S, t \in S \/ ~Links(q, t, exit_state, hashed, real_parent')
        PROVE  Orphaned(q, S, exit_state, hashed, ParentsAfter(t, heir))
    <3>1. ASSUME NEW y, Links(q, y, exit_state, hashed, real_parent'), y # t PROVE FALSE
      <4>1. y \in Threads /\ (exit_state'[y] # "alive" <=> exit_state[y] # "alive")
        BY <3>1, LeaderFacts, NotifyFacts DEF Links
      <4>2. Links(q, y, exit_state', hashed, real_parent')
        BY <3>1, <4>1 DEF Links
      <4> QED BY <2>3, <4>2
    <3> QED BY <1>1, <2>6, <3>1, OrphanHasNoLink
  <2>7. CASE exit_state'[x] # "alive" /\ GroupEmpty(x, hashed)
    <3>1. x = t
      BY <2>1, <2>2, <2>7, NotifyFacts DEF Links
    <3>2. me = t
      BY <2>2, <3>1, LeaderFacts
    <3>3. \A u \in Group(t) \ {t} : phase[u] \in DeadPhases
      <4>1. \A u \in Group(t) \ {t} : u \in Threads /\ u \notin hashed
        BY <2>7, <3>1 DEF GroupEmpty, Group
      <4> QED BY <4>1, OutIsEnded DEF WaitInv
    <3>4. frame[t].group_dead
      <4>1. PICK u \in Group(t) :
              ~(PF_EXITING(u) /\ ~(phase[u] = "exiting" /\ frame[u].group_dead))
        BY <2>1, <2>2, <3>1 DEF Announced
      <4>2. u = t
        BY <3>3, <4>1 DEF PF_EXITING, DeadPhases
      <4> QED BY <4>1, <4>2, NotifyFacts
    <3>5. Leader[real_parent[t]] # InitTask /\ Pgrp[Leader[real_parent[t]]] # q
      BY <2>1, <3>1 DEF Links
    <3>6. real_parent[t] # t
      BY <2>2, <3>1, <3>2, <3>5
    <3>7. ParentsAfter(t, heir)[me] = real_parent[me]
      BY <1>1, <1>2, <3>2, <3>6, NotifyFacts DEF Kids
    <3>8. Orphaned(q, {me}, exit_state, hashed, ParentsAfter(t, heir))
      BY <2>6, <3>2
    <3>9. q \in LeftAlone(t, Kids(t), heir, ParentsAfter(t, heir))
      BY <2>2, <3>1, <3>2, <3>4, <3>5, <3>7, <3>8 DEF LeftAlone
    <3> QED BY <2>5, <3>9
  <2>8. CASE ~(exit_state'[x] # "alive" /\ GroupEmpty(x, hashed))
    <3>1. Leader[real_parent'[x]] # Leader[real_parent[x]]
      BY <2>1, <2>2, <2>3, <2>8 DEF Links
    <3>2. x \in Kids(t) /\ real_parent[x] = t /\ Leader[heir] # me
      BY <2>2, <3>1, NotifyKids
    <3>3. exit_state[x] # "dead"
      BY <2>1, <2>2 DEF Links, WaitInv, Life
    <3>4. q # Pgrp[me]
      BY <2>1, <3>2 DEF Links
    <3>5. ~Links(q, t, exit_state, hashed, real_parent')
      BY <3>4, LeaderFacts DEF Links
    <3>6. Orphaned(q, {}, exit_state, hashed, ParentsAfter(t, heir))
      BY <2>6, <3>5
    <3>7. q \in LeftAlone(t, Kids(t), heir, ParentsAfter(t, heir))
      BY <2>2, <3>2, <3>3, <3>4, <3>6 DEF LeftAlone
    <3> QED BY <2>5, <3>7
  <2> QED BY <2>7, <2>8
<1>4. ASSUME NEW p \in (Leaders \cap hashed') \ late', Stopped(p)'
      PROVE  ~Orphaned(Pgrp[p], Announced', exit_state', hashed', real_parent')
  <2>1. p \in (Leaders \cap hashed) \ late /\ Stopped(p) /\ p \notin JobsLeft(t, heir)
    BY <1>1, <1>4 DEF Stopped
  <2>2. ~OnlyAnnounced(Pgrp[p])'
    BY <1>1, <1>4
  <2> QED BY <1>1, <1>3, <2>1, <2>2 DEF OnlyAnnounced
<1> QED BY <1>4 DEF Linked

\* A sleeper of another thread is woken by a zombie that becomes its child, and by
\* the end of its last child.
LEMMA NotifyServed ==
  ASSUME WaitConstantsOK, WaitInv, NEW t \in Threads, NEW heir, Notifies(t, heir)
  PROVE  Served'
<1> DEFINE told == Told(t, heir) \cup Self(t)
<1>1. /\ UNCHANGED hashed /\ real_parent' = ParentsAfter(t, heir)
      /\ note' = note \cup JobsLeft(t, heir) /\ JobsLeft(t, heir) \subseteq Leaders
      /\ stop' = [p \in Leaders |-> IF p \in JobsLeft(t, heir) THEN "continued" ELSE stop[p]]
      /\ awake' = [u \in Threads |-> awake[u] \/ u \in Woken(told, real_parent')]
  BY DEF Notifies, JobsLeft, StoppedJobs
<1>2. ASSUME NEW u \in Threads, u # t, phase[u] = "sleep", ~awake'[u],
             ~HasFlag(u, "__WNOTHREAD")
      PROVE  Content(u)'
  <2>1. phase'[u] = phase[u] /\ frame'[u] = frame[u]
    BY <1>2, NotifyFacts
  <2>2. Content(u) /\ u \notin Woken(told, real_parent') /\ frame[u].todo = {}
    BY <1>1, <1>2 DEF WaitInv, Served, ServedWell
  <2>3. Seen(u) = Children(u) /\ Seen(u)' = Children(u)'
    BY <2>1, <2>2 DEF Seen
  <2>4. \A f : HasFlag(u, f)' <=> HasFlag(u, f)
    BY <2>1 DEF HasFlag
  <2>5. ~PF_EXITING(u) /\ u \in hashed /\ u \in Group(Leader[u])
    BY <1>2, LeaderFacts DEF PF_EXITING, WaitInv, Life, DeadPhases
  <2>6. ASSUME NEW p \in Children(u)'
        PROVE  /\ p \in Leaders /\ p \in Threads /\ p \in hashed
               /\ Leader[real_parent'[p]] = Leader[u]
               /\ p \notin told
               /\ p \in Children(u) \/ /\ Leader[real_parent[p]] = Leader[t] /\ p \in Kids(t)
                                       /\ Leader[t] # Leader[u] /\ Leader[heir] = Leader[u]
    <3>1. /\ p \in Leaders /\ p \in Threads /\ p \in hashed
          /\ Leader[real_parent'[p]] = Leader[u] /\ frame[u].wo.pid \in {p, AnyChild}
      BY <1>1, <1>2, <2>1, <2>4, LeaderFacts DEF Children, Group, HasFlag
    <3>2. p \notin told
      BY <1>2, <2>2, <3>1, ChildWakes DEF LookPhases
    <3>3. CASE Leader[real_parent'[p]] = Leader[real_parent[p]]
      <4>1. real_parent[p] \in Threads
        BY <3>1 DEF WaitInv, WaitTypes
      <4>2. p \in Children(u)
        BY <1>2, <3>1, <3>3, <4>1 DEF Children, Group, HasFlag
      <4> QED BY <3>1, <3>2, <4>2
    <3>4. CASE Leader[real_parent'[p]] # Leader[real_parent[p]]
      BY <3>1, <3>2, <3>4, NotifyKids
    <3> QED BY <3>3, <3>4
  <2>7. ASSUME NEW p \in Children(u)', HasFlag(u, "WEXITED"), Reapable(p)' PROVE FALSE
    <3>1. p \in Leaders /\ p \in Threads /\ p \notin Told(t, heir) /\ p \notin Self(t)
      BY <2>6
    <3>2. exit_state'[p] = "zombie" /\ GroupEmpty(p, hashed)
      BY <1>1, <2>7 DEF Reapable
    <3>3. p # t /\ exit_state[p] = "zombie"
      BY <3>1, <3>2, NotifyFacts DEF Self
    <3>4. p \in Children(u)
      BY <2>6, <3>1, <3>2, <3>3 DEF Told
    <3> QED BY <2>2, <2>3, <2>7, <3>2, <3>3, <3>4 DEF Content, Reapable
  <2>8. ASSUME NEW p \in Children(u)', p \notin note', Leader[Parent[p]] = Leader[u]
        PROVE  NoStopToReport(u, p)'
    <3>1. p \in Leaders /\ p \notin note /\ stop'[p] = stop[p]
      BY <1>1, <2>6, <2>8
    <3>2. p \in Children(u)
      BY <2>5, <2>6, <2>8 DEF WaitInv, AtHome
    <3> QED BY <2>2, <2>3, <2>4, <2>8, <3>1, <3>2 DEF Content, NoStopToReport
  <2>9. ASSUME HasFlag(u, "WEXITED"), frame[u].child
        PROVE  \E p \in Children(u)' : exit_state'[p] # "dead"
    <3>1. PICK p \in Children(u) : exit_state[p] # "dead"
      BY <2>2, <2>3, <2>9 DEF Content
    <3>2. /\ p \in Leaders /\ p \in Threads /\ p \in hashed /\ Leader[real_parent[p]] = Leader[u]
          /\ frame[u].wo.pid \in {p, AnyChild} /\ real_parent[p] \in Threads
      BY ChildOfProcess, LeaderFacts DEF WaitInv
    <3>3. Leader[real_parent'[p]] = Leader[real_parent[p]]
      BY <2>5, <3>2, NotifyKids
    <3>4. real_parent'[p] \in Threads
      BY <3>2, NotifyFacts
    <3>5. p \in Children(u)'
      BY <1>1, <1>2, <2>1, <3>2, <3>3, <3>4 DEF Children, Group, HasFlag
    <3>6. p \notin Told(t, heir) /\ p \notin Self(t)
      BY <2>6, <3>5
    <3>7. p \notin DeadNow(t, heir)
      BY <3>2, <3>6 DEF DeadNow
    <3> QED BY <3>1, <3>2, <3>5, <3>7, NotifyFacts
  <2> QED BY <2>1, <2>3, <2>4, <2>7, <2>8, <2>9 DEF Content
<1>3. ASSUME NEW u \in Threads PROVE ServedWell(u)'
  <2>1. CASE u = t
    BY <2>1, NotifyFacts DEF ServedWell
  <2>2. CASE u # t
    <3>1. phase'[u] = phase[u] /\ frame'[u] = frame[u] /\ phase[u] \notin {"scan", "reap"}
      BY <2>2, NotifyFacts
    <3> QED BY <1>2, <2>2, <3>1 DEF WaitInv, Served, ServedWell, HasFlag
  <2> QED BY <2>1, <2>2
<1> QED BY <1>3 DEF Served

LEMMA ExitNotifyStep ==
  ASSUME WaitConstantsOK, WaitInv, NEW t \in Threads, ExitNotify(t)
  PROVE  WaitInv'
<1>1. PICK heir : Notifies(t, heir)
  BY ExitNotifyMeans
<1> QED BY <1>1, NotifyLife, NotifyHeirs, NotifyLinked, NotifyServed DEF WaitInv

-----------------------------------------------------------------------------
(* The theorems                                                              *)

LEMMA InvInit ==
  ASSUME WaitConstantsOK, WaitInit
  PROVE  WaitInv
<1>1. EmptyFrame \in Frames /\ EmptyFrame.dead = {}
  BY LeaderFacts DEF EmptyFrame, Frames, NoWait, Waits
<1>2. WaitTypes
  BY <1>1 DEF WaitInit, WaitTypes, WaitConstantsOK, Phases, Counts
<1>3. /\ \A t \in Threads : /\ phase[t] = "run" /\ frame[t].dead = {} /\ exit_state[t] = "alive"
                            /\ released[t] = 0
      /\ \A p \in Leaders : stop[p] = "no" /\ got[p].exit = 0 /\ got[p].stop = 0 /\ got[p].cont = 0
      /\ hashed = Threads /\ real_parent = Parent
  BY <1>1 DEF WaitInit
<1>4. Life
  BY <1>3, LeaderFacts DEF Life, EndPhases, DeadPhases
<1>5. DeadLists /\ Looks /\ Served
  BY <1>3 DEF DeadLists, Looks, Looking, Served, ServedWell
<1>6. Reports /\ Linked
  BY <1>3 DEF Reports, Linked, Stopped
<1>7. HasHeir /\ AtHome
  BY <1>3, LeaderFacts DEF HasHeir, AtHome, Reapable
<1> QED BY <1>2, <1>4, <1>5, <1>6, <1>7 DEF WaitInv

LEMMA StutterStep ==
  ASSUME WaitConstantsOK, WaitInv, UNCHANGED waitVars
  PROVE  WaitInv'
<1>1. UNCHANGED <<plan, phase, frame, awake, exit_state, hashed, real_parent, stop, note,
                  stops, late, got, released>>
  BY DEF waitVars
<1>2. \A t \in Threads : Children(t)' = Children(t)
  BY <1>1 DEF Children
<1>3. WaitTypes' /\ Life' /\ DeadLists'
  BY <1>1 DEF WaitInv, WaitTypes, Life, DeadLists, GroupEmpty
<1>4. Looks' /\ Served'
  <2>1. \A t \in Threads : Looking(t)'
    BY <1>1, LookingKept
  <2>2. ASSUME NEW t \in Threads PROVE ServedWell(t)'
    BY <1>1, ServedKept
  <2> QED BY <2>1, <2>2 DEF Looks, Served
<1>5. EndsKept
  BY <1>1 DEF EndsKept
<1>6. Reports'
  BY <1>1, <1>5, ReportsKept
<1>7. HasHeir' /\ AtHome' /\ Linked'
  BY <1>1, <1>5, CalmStep DEF Stopped
<1> QED BY <1>3, <1>4, <1>6, <1>7 DEF WaitInv

LEMMA EveryStep ==
  ASSUME WaitConstantsOK, WaitInv, WaitNext
  PROVE  WaitInv'
<1>1. ASSUME NEW t \in Threads, WaitStep(t) PROVE WaitInv'
  BY <1>1, ExitNotifyStep, ReleaseTaskStep, RepeatStep, ConsiderStep, ReapStep, NotaskStep,
     ScheduleStep DEF WaitStep
<1>2. ASSUME NEW t \in Threads, ExitSignals(t) \/ Wait(t) \/ Interrupted(t) PROVE WaitInv'
  BY <1>2, ExitSignalsStep, BeginStep, ScheduleStep
<1>3. ASSUME NEW p \in Leaders, Stop(p) \/ Continue(p) \/ NotifyStop(p) PROVE WaitInv'
  BY <1>3, StopStep, ContinueStep, NotifyStopStep
<1> QED BY <1>1, <1>2, <1>3 DEF WaitNext

(* For every family: the places, the states and the parents of the threads,  *)
(* what a look of do_wait() knows and the links of the jobs stay as the       *)
(* argument above has them.                                                  *)
THEOREM WaitInvariant ==
  ASSUME WaitConstantsOK
  PROVE  WaitSpec => []WaitInv
<1>1. WaitInit => WaitInv
  BY InvInit
<1>2. WaitInv /\ [WaitNext]_waitVars => WaitInv'
  BY EveryStep, StutterStep
<1> QED BY <1>1, <1>2, PTL DEF WaitSpec

(* Every end of a process is reported to one wait at most, and every task is *)
(* released once; no child is left without a parent; no orphaned process     *)
(* group is left stopped, but for the late ones (wait_task_zombie(),         *)
(* find_new_reaper(), kill_orphaned_pgrp()).                                 *)
THEOREM WaitZombiesExact ==
  ASSUME WaitConstantsOK
  PROVE  WaitSpec => []ZombiesExact
<1>1. WaitInv => ZombiesExact
  <2> SUFFICES ASSUME WaitInv PROVE ZombiesExact
    OBVIOUS
  <2>1. ReportedOnce
    <3>1. ASSUME NEW p \in Leaders
          PROVE  /\ got[p].exit <= 1 /\ got[p].stop <= 1 /\ got[p].cont <= 1
                 /\ got[p].exit = 1 => exit_state[p] = "dead"
      <4>1. got[p] \in Counts
        BY DEF WaitInv, WaitTypes
      <4> QED BY <4>1 DEF WaitInv, Reports, Counts
    <3>2. ASSUME NEW t \in Threads
          PROVE  /\ released[t] <= 1
                 /\ t \notin hashed => exit_state[t] = "dead" /\ released[t] = 1
      <4>1. released[t] \in {0, 1}
        BY DEF WaitInv, WaitTypes
      <4> QED BY <4>1 DEF WaitInv, Life
    <3> QED BY <3>1, <3>2 DEF ReportedOnce
  <2> QED BY <2>1, InvOrphans DEF WaitInv, ZombiesExact
<1> QED BY <1>1, WaitInvariant, PTL

(* No thread sleeps in do_wait() while it has something to report, or no     *)
(* child that could still give it something: each change of a child either   *)
(* is seen by the look or wakes the thread (do_wait(), child_wait_callback()).*)
THEOREM WaitServesAll ==
  ASSUME WaitConstantsOK
  PROVE  WaitSpec => []WaitersServed
<1>1. WaitInv => WaitersServed
  <2> SUFFICES ASSUME WaitInv, NEW t \in Threads, phase[t] = "sleep", ~awake[t],
                      ~HasFlag(t, "__WNOTHREAD")
               PROVE  /\ \A p \in Children(t) :
                           /\ HasFlag(t, "WEXITED") => ~Reapable(p)
                           /\ (p \notin note /\ Leader[Parent[p]] = Leader[t]) => NoStopToReport(t, p)
                      /\ HasFlag(t, "WEXITED") => \E p \in Children(t) : exit_state[p] # "dead"
    BY DEF WaitersServed
  <2>1. Content(t) /\ frame[t].child /\ frame[t].todo = {}
    BY DEF WaitInv, Served, ServedWell
  <2>2. Seen(t) = Children(t)
    BY <2>1 DEF Seen
  <2> QED BY <2>1, <2>2 DEF Content
<1> QED BY <1>1, WaitInvariant, PTL
=============================================================================
