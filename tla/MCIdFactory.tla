----------------------------- MODULE MCIdFactory -----------------------------
(* Two JVMs, one of them with two threads, that draw ids for one table in  *)
(* batches of two.                                                         *)
EXTENDS IdFactory

CONSTANTS j1, j2, t1, t2, t3

MCJVMs == {j1, j2}
MCThreads == {t1, t2, t3}
MCJvmOf == [th \in MCThreads |-> IF th = t3 THEN j2 ELSE j1]
==============================================================================
