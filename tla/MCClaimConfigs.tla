--------------------------- MODULE MCClaimConfigs ---------------------------
(* All single configs, and pairs of those that differ in what matters for  *)
(* the selection.                                                          *)
EXTENDS ClaimConfigs

(* No config of the ComputeDomain plugin depends on a gate. *)
MCGateSets == [p \in {"gpu", "cd"} |->
    IF p = "cd" THEN {{}}
    ELSE {{}, {"TimeSlicingSettings"}, {"TimeSlicingSettings", "MPSSupport"},
          {"TimeSlicingSettings", "DynamicMIG"},
          {"PassthroughSupport", "MPSSupport", "DeviceMetadata"}}]

GpuSharings == {NoSharing} \cup
    {Sharing(s, t, m) : s \in {"TimeSlicing", "MPS", "unknown"},
                        t \in {"nil", "empty", "invalid", "Long"},
                        m \in {"nil", "invalid", "valid"}}
MigSharings == {s \in GpuSharings : s.ts = "nil"}

Params ==
    {Config("Gpu", s) : s \in GpuSharings}
        \cup {Config("Mig", s) : s \in MigSharings}
        \cup {Config("Vfio", [policy |-> p]) :
                 p \in {"nil", "invalid", "PreferIommuFD"}}
        \cup {Config(k, [domain |-> d]) : k \in {"Channel", "Daemon"},
                                          d \in {"", "d"}}

Newer(c) == [c EXCEPT !.extra = TRUE]

(* What pairs are made of. *)
FewParams(p) ==
    IF p = "gpu"
    THEN {Config("Gpu", Sharing("TimeSlicing", "Long", "nil")),
          Config("Gpu", Sharing("MPS", "nil", "nil")),
          Config("Mig", Sharing("MPS", "nil", "valid")),
          Newer(Config("Gpu", NoSharing))}
    ELSE {Config("Channel", [domain |-> "d"]), Config("Channel", [domain |-> "e"]),
          Config("Daemon", [domain |-> "d"]),
          Newer(Config("Channel", [domain |-> "d"])),
          Config("garbage", [domain |-> ""])}

Entries(p, requests, params) ==
    [source : {"class", "claim"}, driver : {p}, for : requests, config : params]

OtherDriver(p) ==
    [source |-> "claim", driver |-> IF p = "gpu" THEN "cd" ELSE "gpu",
     for |-> "all", config |-> Config("garbage", [domain |-> ""])]

Few(p) ==
    Entries(p, {"this", "all"}, FewParams(p))
        \cup Entries(p, {"other"}, {Newer(Config("Gpu", NoSharing))})
        \cup {OtherDriver(p)}

Lists(p) ==
    {<<>>}
        \cup {<<e>> : e \in Entries(p, {"this", "all"}, Params)}
        \cup {<<e, f>> : e, f \in Few(p)}

MCConfigLists == [p \in {"gpu", "cd"} |-> Lists(p)]

=============================================================================
