----------------------------- MODULE MCBaseline -----------------------------
(* Instances of Baseline for model checking.  A tick is 10 microseconds: the *)
(* shortest time is saved as 0.0.                                            *)
EXTENDS Baseline

Times == {4, 1000, 12000, 20000}
Routers == {"router", "target"}

(* A silent router, one that answers, and a destination whose times lie      *)
(* between and beyond the thresholds, and differ by more than those of a     *)
(* change.                                                                   *)
SixResults ==
  {r \in TraceResult :
     \/ r.status = "TIMEOUT"
     \/ r.status = "HOP" /\ r.remote_ip = "router" /\ r.rtt_ms = 1000
     \/ r.status = "DESTINATION" /\ r.remote_ip = "target"}
=============================================================================
