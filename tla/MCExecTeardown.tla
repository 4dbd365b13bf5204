--------------------------- MODULE MCExecTeardown ---------------------------
(* Finite instances of the kernels: de_thread(), unmodified or optimised, and *)
(* the two ways of tearing the old address space down later.  A behaviour is  *)
(* one of the kernel that kernel names.                                       *)
EXTENDS MCExecDeThread, AsyncMm, DeferredMmput, TLC

CONSTANTS
  Kernels,   \* the kernels of a run
  m1, m2, a1, a2, a3, b1, r1

VARIABLE kernel

\* m1 has up to three tasks that share it; m2 has one task and a reader.
TwoMms == {m1, m2}
AsyncMmOf == a1 :> m1 @@ a2 :> m1 @@ a3 :> m1 @@ b1 :> m2 @@ r1 :> m2
StartingTasks == {a1, a2, b1}

\* In the deferred teardown m1 is shared by two tasks, as after vfork(), and m2
\* has one.  The limit is one work item, which two tasks can pass together.
DeferredMmOf == a1 :> m1 @@ a2 :> m1 @@ b1 :> m2
TwoLatencies == {3, 1000}

ASSUME
  /\ Kernels \subseteq {"exec", "async", "deferred"}
  /\ AsyncConstantsOK /\ DeferredConstantsOK

kernelVars == <<kernel, vars, asyncVars, deferredVars>>

KernelInit ==
  /\ kernel \in Kernels
  /\ Init /\ AsyncInit /\ DeferredInit

KernelNext ==
  \/ kernel = "exec" /\ Next /\ UNCHANGED <<kernel, asyncVars, deferredVars>>
  \/ kernel = "async" /\ AsyncNext /\ UNCHANGED <<kernel, vars, deferredVars>>
  \/ kernel = "deferred" /\ DeferredNext /\ UNCHANGED <<kernel, vars, asyncVars>>

\* The fairness of the modules.
KernelSpec ==
  /\ KernelInit /\ [][KernelNext]_kernelVars
  /\ \A t \in Threads : WF_vars(kernel = "exec" /\ Kernel(t))
  /\ \A u \in AllTasks : WF_asyncVars(kernel = "async" /\ Put(u))
  /\ WF_asyncVars(kernel = "async" /\ Worker)
  /\ WF_asyncVars(kernel = "async" /\ ModuleExit)
  /\ \A t \in Tasks : WF_deferredVars(kernel = "deferred" /\ Leave(t))
  /\ \A m \in Mms : WF_deferredVars(kernel = "deferred" /\ Work(m))

\* An address space that all its tasks have left is torn down in the end, also
\* when the kernel has put that off, and its work item is done with
\* (exec_deferred_mmput, async_mm_put).
SpacesTornDown ==
  <>[](/\ \A m \in Spaces : AsyncLeft(m) => AsyncGone(m)
       /\ \A m \in Mms : Left(m) => Gone(m))
=============================================================================
