---------------------------- MODULE MCGpuHealth ----------------------------
(* A full GPU and a static MIG device of another GPU. *)
EXTENDS GpuHealth

CONSTANTS full, mig1, gpu0, gpu1
MCParentOf == [d \in {full, mig1} |-> IF d = full THEN gpu0 ELSE gpu1]
=============================================================================
