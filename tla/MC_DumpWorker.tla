--------------------------- MODULE MC_DumpWorker ---------------------------
(* Small instance of DumpWorker: two cache keys, three jobs of which two  *)
(* share a key; the cfgs give the channel its capacity (two in the main   *)
(* run, one in the runs about the tick and the in-flight set).            *)
EXTENDS DumpWorker, TLC

CONSTANTS k1, k2, j1, j2, j3

MCKeys == {k1, k2}
MCJobs == {j1, j2, j3}
MCKeyOf == (j1 :> k1) @@ (j2 :> k1) @@ (j3 :> k2)
=============================================================================
