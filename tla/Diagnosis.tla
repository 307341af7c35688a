----------------------------- MODULE Diagnosis ------------------------------
(***************************************************************************)
(* What the diagnosis of baseline.c relies on, stated over a measurement:  *)
(* that the destination and the number of cycles it reads from the         *)
(* statistics are those of the run.                                        *)
(***************************************************************************)
EXTENDS Mtr, MtrQuality

Measured == pc \in {"table", "done"}

(* The number of cycles a diagnosis is based on, which decides how far it is *)
(* trusted, is the number of cycles that were run (baseline.c:281-291).      *)
ObservedCyclesIsCount == Measured => observed_cycles(stats, MaxHop) = Count

(* When the diagnosis says that the destination was not reached, it was not: *)
(* no probe of the run was answered by the destination (README.md:82,        *)
(* baseline.c:270-278, 413).                                                 *)
DestinationReachedIsFound ==
  Measured /\ find_destination_hop(stats, MaxHop) = 0 =>
    \A h \in Hops : \A i \in DOMAIN history[h] : ~destination_reached(history[h][i])
=============================================================================
