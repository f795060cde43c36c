---------------------------- MODULE MCGpuPlugin ----------------------------
(* Nodes with dynamic MIG, passthrough or MPS, most with two claims that   *)
(* compete: for a MIG device, for slices, for the full GPU, or that share  *)
(* it because one has admin access.                                        *)
EXTENDS GpuPlugin, TLC

CONSTANTS two, one, large, full, mps, vm, adm, m1, m2, m3, i1, i2

MCClaims == {two, one, large, full, mps, vm, adm}
MCMigs == {m1, m2, m3}
MCIds == {i1, i2}
MCSymmetry == Permutations(MCIds)
MCSlicesOf == [d \in MCMigs |-> CASE d = m1 -> {1} [] d = m2 -> {2} [] OTHER -> {1, 2}]
MCDevicesOf == [c \in MCClaims |->
    CASE c = two -> {m1, m2} [] c = one -> {m2} [] c = large -> {m3}
      [] c \in {full, mps, adm} -> {"gpu"} [] OTHER -> {"vfio"}]
MCSharingOf == [c \in MCClaims |->
    CASE c = mps -> "Mps" [] c = full -> "Long" [] OTHER -> "Default"]
MCAdmin == {adm}
MCProfiles ==
    {[gates |-> {"DynamicMIG"}, toggle |-> FALSE, faults |-> 1, claims |-> {two, one}],
     [gates |-> {"DynamicMIG"}, toggle |-> FALSE, faults |-> 0, claims |-> {large, one}],
     [gates |-> {"DynamicMIG"}, toggle |-> FALSE, faults |-> 1, claims |-> {large}],
     [gates |-> {"DynamicMIG"}, toggle |-> TRUE, faults |-> 1, claims |-> {one}],
     [gates |-> {"PassthroughSupport", "TimeSlicingSettings"}, toggle |-> TRUE,
      faults |-> 1, claims |-> {full, vm}],
     [gates |-> {"MPSSupport", "TimeSlicingSettings"}, toggle |-> TRUE,
      faults |-> 1, claims |-> {full, mps}],
     [gates |-> {"TimeSlicingSettings"}, toggle |-> TRUE, faults |-> 1,
      claims |-> {full, adm}]}
=============================================================================
