---------------------------- MODULE HaloExchange ----------------------------
(***************************************************************************)
(* The MPI program of cs633: each process owns a box of a grid, exchanges  *)
(* the faces of its box with its neighbours by six MPI_Sendrecv() per time *)
(* step, counts the local minima and maxima of its box and takes part in a *)
(* reduction to rank 0.                                                    *)
(*                                                                         *)
(* Messages of a sender, receiver and tag arrive in order.  A send returns *)
(* when its message is under way (eager) or when it has been received.     *)
(***************************************************************************)
EXTENDS Integers, Sequences, FiniteSets, FiniteSetsExt

CONSTANTS
  Cases,   \* the runs: [P, N, NC, file], P and N being <<x, y, z>>
  Null     \* MPI_PROC_NULL

\* What main() asks of its arguments.
CaseOK(c) ==
  /\ \A a \in 1 .. 3 : c.P[a] >= 1 /\ c.N[a] % c.P[a] = 0
  /\ c.NC >= 1
  /\ DOMAIN c.file = 0 .. (c.N[1] * c.N[2] * c.N[3] * c.NC - 1)
ConstantsOK == \A c \in Cases : CaseOK(c)

VARIABLES
  case, eager,
  t,           \* the time step of each process
  pc,          \* Filling, a Sendrecv 1 .. 6, Reducing or Done
  sent, got,   \* the halves of the Sendrecv that are done
  local_data,  \* [0 .. n + 1]^3, with the ghost cells
  recv,        \* the receive buffers: of the lower and of the upper side
  channel,     \* the messages from a rank to a rank with a tag
  reduced,     \* what each process has given to the reduction of each step
  results      \* minima_counts, ... of rank 0, by time step

vars == <<case, eager, t, pc, sent, got, local_data, recv, channel, reduced, results>>

Filling == 0
Reducing == 7
Done == 8

size == case.P[1] * case.P[2] * case.P[3]
Ranks == 0 .. (size - 1)
sub == [a \in 1 .. 3 |-> case.N[a] \div case.P[a]]

-----------------------------------------------------------------------------
(* compute_decomposition() *)

Stride(a) == IF a = 1 THEN 1 ELSE IF a = 2 THEN case.P[1] ELSE case.P[1] * case.P[2]
Coord(r, a) == (r \div Stride(a)) % case.P[a]
Start(r, a) == Coord(r, a) * sub[a]

Lower(r, a) == IF Coord(r, a) = 0 THEN Null ELSE r - Stride(a)
Upper(r, a) == IF Coord(r, a) = case.P[a] - 1 THEN Null ELSE r + Stride(a)

-----------------------------------------------------------------------------
Padded == (0 .. (sub[1] + 1)) \X (0 .. (sub[2] + 1)) \X (0 .. (sub[3] + 1))
Own == (1 .. sub[1]) \X (1 .. sub[2]) \X (1 .. sub[3])

\* The position of <<x, y, z>>, counted from 0, in an array [z][y][x][time].
Flat(p, n, s) == ((p[3] * n[2] + p[2]) * n[1] + p[1]) * case.NC + s

\* MPI_File_read_all(): the k-th number of the view of the file.
LocalBuffer(r, k) ==
  LET s == k % case.NC
      i == k \div case.NC
      p == <<i % sub[1], (i \div sub[1]) % sub[2], i \div (sub[1] * sub[2])>>
  IN case.file[Flat([a \in 1 .. 3 |-> p[a] + Start(r, a)], case.N, s)]

Init ==
  /\ case \in Cases /\ eager \in BOOLEAN
  /\ t = [r \in Ranks |-> 0]
  /\ pc = [r \in Ranks |-> Filling]
  /\ sent = [r \in Ranks |-> FALSE] /\ got = [r \in Ranks |-> FALSE]
  /\ local_data = [r \in Ranks |-> <<>>]
  /\ recv = [r \in Ranks |-> [lower |-> <<>>, upper |-> <<>>]]
  /\ channel = [c \in Ranks \X Ranks \X (0 .. 5) |-> <<>>]
  /\ reduced = [s \in 0 .. (case.NC - 1) |-> [r \in Ranks |-> <<>>]]
  /\ results = [s \in 0 .. (case.NC - 1) |-> <<>>]

Goto(r, l) == pc' = [pc EXCEPT ![r] = l]

\* The halves of Sendrecv k that have no partner are done at once.
Axis(k) == (k + 1) \div 2
Dest(r, k) == IF k % 2 = 1 THEN Lower(r, Axis(k)) ELSE Upper(r, Axis(k))

\* Mutant: the data is awaited from the side it was sent to.
SameSide(r, k) == Dest(r, k)

Source(r, k) == IF k % 2 = 1 THEN Upper(r, Axis(k)) ELSE Lower(r, Axis(k))
Enter(r, k) ==
  /\ Goto(r, k)
  /\ sent' = [sent EXCEPT ![r] = (Dest(r, k) = Null)]
  /\ got' = [got EXCEPT ![r] = (Source(r, k) = Null)]

\* allocate_3d_array() and the copy of the time step.
Fill(r) ==
  /\ pc[r] = Filling
  /\ local_data' = [local_data EXCEPT ![r] =
       [p \in Padded |->
          IF p \in Own
          THEN LocalBuffer(r, Flat([a \in 1 .. 3 |-> p[a] - 1], sub, t[r]))
          ELSE 0]]
  /\ Enter(r, 1)
  /\ UNCHANGED <<case, eager, t, recv, channel, reduced, results>>

-----------------------------------------------------------------------------
(* exchange_boundary_data() *)

\* The layer i of axis a of the box, whichever i is.
Layer(r, a, i) ==
  [q \in {[p EXCEPT ![a] = 0] : p \in Own} |-> local_data[r][[q EXCEPT ![a] = i]]]

\* Mutant: the upper side sends the layer before its last.
InnerFace(r, k) == Layer(r, Axis(k), 1)

Face(r, k) == Layer(r, Axis(k), IF k % 2 = 1 THEN 1 ELSE sub[Axis(k)])

Exchanging(r) == pc[r] \in 1 .. 6

Send(r) ==
  LET k == pc[r]
      to == <<r, Dest(r, k), k - 1>>
  IN /\ Exchanging(r) /\ ~sent[r]
     /\ channel' = [channel EXCEPT ![to] = Append(@, Face(r, k))]
     /\ sent' = [sent EXCEPT ![r] = TRUE]
     /\ UNCHANGED <<case, eager, t, pc, got, local_data, recv, reduced, results>>

Receive(r) ==
  LET k == pc[r]
      from == <<Source(r, k), r, k - 1>>
  IN /\ Exchanging(r) /\ ~got[r]
     /\ channel[from] # <<>>
     /\ recv' = [recv EXCEPT ![r] = IF k % 2 = 1 THEN [@ EXCEPT !.upper = Head(channel[from])]
                                    ELSE [@ EXCEPT !.lower = Head(channel[from])]]
     /\ channel' = [channel EXCEPT ![from] = Tail(@)]
     /\ got' = [got EXCEPT ![r] = TRUE]
     /\ UNCHANGED <<case, eager, t, pc, sent, local_data, reduced, results>>

\* The receive buffers of an axis go to the ghost cells where there is a
\* neighbour.
Unpacked(r, a) ==
  [p \in Padded |->
     LET q == [p EXCEPT ![a] = 0]
         face == \A b \in 1 .. 3 : b = a \/ p[b] \in 1 .. sub[b]
     IN IF face /\ p[a] = 0 /\ Lower(r, a) # Null THEN recv[r].lower[q]
        ELSE IF face /\ p[a] = sub[a] + 1 /\ Upper(r, a) # Null THEN recv[r].upper[q]
        ELSE local_data[r][p]]

SendrecvEnd(r) ==
  LET k == pc[r]
  IN /\ Exchanging(r) /\ sent[r] /\ got[r]
     /\ ~eager /\ Dest(r, k) # Null => channel[<<r, Dest(r, k), k - 1>>] = <<>>
     /\ IF k % 2 = 1 THEN UNCHANGED <<local_data, recv>>
        ELSE /\ local_data' = [local_data EXCEPT ![r] = Unpacked(r, Axis(k))]
             /\ recv' = [recv EXCEPT ![r] = [lower |-> <<>>, upper |-> <<>>]]
     /\ IF k < 6 THEN Enter(r, k + 1) ELSE Goto(r, Reducing) /\ UNCHANGED <<sent, got>>
     /\ UNCHANGED <<case, eager, t, channel, reduced, results>>

-----------------------------------------------------------------------------
(* find_minima_maxima() and the reductions *)

\* The cells that the loop over the six directions compares p with.
Compared(r, p) ==
  {q \in Padded :
     \E a \in 1 .. 3 :
       \/ q = [p EXCEPT ![a] = @ - 1] /\ ~(p[a] = 1 /\ Lower(r, a) = Null)
       \/ q = [p EXCEPT ![a] = @ + 1] /\ ~(p[a] = sub[a] /\ Upper(r, a) = Null)}

Count(S, P(_)) == Cardinality({p \in S : P(p)})

FindMinimaMaxima(r) ==
  LET d == local_data[r]
      values == {d[p] : p \in Own}
  IN [minima |-> Count(Own, LAMBDA p : \A q \in Compared(r, p) : ~(d[q] <= d[p])),
      maxima |-> Count(Own, LAMBDA p : \A q \in Compared(r, p) : ~(d[q] >= d[p])),
      min |-> Min(values), max |-> Max(values)]

NextStep(r) ==
  /\ t' = [t EXCEPT ![r] = @ + 1]
  /\ Goto(r, IF t[r] + 1 = case.NC THEN Done ELSE Filling)
  /\ local_data' = [local_data EXCEPT ![r] = <<>>]

\* MPI_Reduce(): the other ranks need not wait for rank 0.
Contribute(r) ==
  /\ pc[r] = Reducing /\ reduced[t[r]][r] = <<>>
  /\ reduced' = [reduced EXCEPT ![t[r]][r] = FindMinimaMaxima(r)]
  /\ IF r = 0 THEN UNCHANGED <<t, pc, local_data>> ELSE NextStep(r)
  /\ UNCHANGED <<case, eager, sent, got, recv, channel, results>>

Collect ==
  LET given == reduced[t[0]]
  IN /\ pc[0] = Reducing /\ \A r \in Ranks : given[r] # <<>>
     /\ results' = [results EXCEPT ![t[0]] =
          [minima |-> FoldSet(LAMBDA r, n : n + given[r].minima, 0, Ranks),
           maxima |-> FoldSet(LAMBDA r, n : n + given[r].maxima, 0, Ranks),
           min |-> Min({given[r].min : r \in Ranks}),
           max |-> Max({given[r].max : r \in Ranks})]]
     /\ NextStep(0)
     /\ UNCHANGED <<case, eager, sent, got, recv, channel, reduced>>

Run(r) ==
  Fill(r) \/ Send(r) \/ Receive(r) \/ SendrecvEnd(r) \/ Contribute(r)

Next == (\E r \in Ranks : Run(r)) \/ Collect

\* MPI makes progress in both halves of a Sendrecv and in the reductions.
Spec == Init /\ [][Next]_vars
FairSpec == Spec /\ WF_vars(Next)

-----------------------------------------------------------------------------
(* What is to be computed, from the whole grid. *)

Grid == (0 .. (case.N[1] - 1)) \X (0 .. (case.N[2] - 1)) \X (0 .. (case.N[3] - 1))
Adjacent(p, q) ==
  \E a \in 1 .. 3 : q = [p EXCEPT ![a] = @ - 1] \/ q = [p EXCEPT ![a] = @ + 1]
Expected(s) ==
  LET d == [p \in Grid |-> case.file[Flat(p, case.N, s)]]
      Around(p) == {q \in Grid : Adjacent(p, q)}
      values == {d[p] : p \in Grid}
  IN [minima |-> Count(Grid, LAMBDA p : \A q \in Around(p) : d[q] > d[p]),
      maxima |-> Count(Grid, LAMBDA p : \A q \in Around(p) : d[q] < d[p]),
      min |-> Min(values), max |-> Max(values)]

\* The results of rank 0 are those of the whole grid, at every time step,
\* however the processes are cut and run ahead of each other (main).
ResultsExact ==
  \A s \in DOMAIN results : results[s] # <<>> => results[s] = Expected(s)

\* Every process comes to its end (exchange_boundary_data).
Finished == \A r \in Ranks : pc[r] = Done
Ends == <>Finished
=============================================================================
