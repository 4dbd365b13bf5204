---------------------------- MODULE MCBloomFilter ----------------------------
(* An instance of BloomFilter that deadlocks: bytes of 2 bits, 2 stripes.   *)
EXTENDS BloomFilter, TLC

\* "aab" locks stripe 0 then 1, "bba" locks 1 then 0.
HashCrossed == "aab" :> <<1, 0, 2>> @@ "bba" :> <<2, 3, 0>>
ValuesCrossed == DOMAIN HashCrossed
CallsCrossed == [p \in Procs |-> 1]
=============================================================================
