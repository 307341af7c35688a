------------------------------- MODULE MCPing -------------------------------
(* Instances of Ping for model checking. *)
EXTENDS Ping

ThreeTimes == {20, 50, 170}
OneRemote == {"target"}

(* Up to three probes: every sequence of outcomes.  Twenty: the rank of the  *)
(* 95th percentile leaves the maximum, and one loss is just 5%.              *)
ShortAndLong == {1, 2, 3, 20}
=============================================================================
