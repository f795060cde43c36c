----------------------------- MODULE MCRequests -----------------------------
(* A workload pod with an IMEX channel, and the daemon pod it waits for.   *)
EXTENDS Requests

MCPods == {"workload", "daemon"}
MCClaims == {"channel", "daemon", "other"}
MCEnding == {"workload"}
MCClaimsOf == [workload |-> {"channel", "other"}, daemon |-> {"daemon"}]
MCRequires == [channel |-> {"daemon"}, daemon |-> {}, other |-> {}]

=============================================================================
