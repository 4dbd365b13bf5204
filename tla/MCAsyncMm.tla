----------------------------- MODULE MCAsyncMm -----------------------------
(* The smallest instance of AsyncMm: one task alone in its address space.   *)
EXTENDS AsyncMm, TLC

CONSTANTS m1, a1

OneMm == {m1}
AloneMmOf == a1 :> m1
=============================================================================
