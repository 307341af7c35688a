---------------------------- MODULE ProbeService ----------------------------
(***************************************************************************)
(* What a mode (ping.c, trace.c, mtr.c) expects of one call sequence       *)
(* send_icmp_echo; receive_ping_response / receive_trace_response:         *)
(* probes are handled one at a time, a probe ends exactly once, and when   *)
(* it ends with an answer, the answer is an answer to that very probe.     *)
(* Nothing of sockets, timers or foreign traffic is visible here.          *)
(***************************************************************************)
EXTENDS Naturals

CONSTANTS
  Modes,     \* which receive functions are in use, a subset of {"ping", "trace"}
  MaxProbe   \* bound: number of probes of a session

VARIABLES
  mode,      \* "ping" or "trace", fixed for a session
  probe,     \* number of the latest probe, 0 before the first
  waiting,   \* TRUE from a successful send to the end of the receive call
  result     \* how the latest probe ended

vars == <<mode, probe, waiting, result>>

(* A result is a status, the probe whose answer it is (0: none) and the kind  *)
(* of packet that was the answer.                                            *)
Without(s) == [status |-> s, origin |-> 0, by |-> "NOTHING"]

Success(q) == [status |-> "SUCCESS", origin |-> q, by |-> "ECHOREPLY"]
Hop(q) == [status |-> "HOP", origin |-> q, by |-> "TIME_EXCEEDED"]
Destination(q) == [status |-> "DESTINATION", origin |-> q, by |-> "ECHOREPLY"]

(* The answers probe q can end with in mode m. *)
Answers(q, m) == IF m = "ping" THEN {Success(q)} ELSE {Hop(q), Destination(q)}

Init ==
  /\ mode \in Modes
  /\ probe = 0
  /\ waiting = FALSE
  /\ result = Without("PENDING")

(* A new probe leaves for the network. *)
Begin ==
  /\ ~waiting
  /\ probe < MaxProbe
  /\ probe' = probe + 1
  /\ waiting' = TRUE
  /\ result' = Without("PENDING")
  /\ UNCHANGED mode

(* A new probe cannot be sent: it is over at once. *)
FailToBegin ==
  /\ ~waiting
  /\ probe < MaxProbe
  /\ probe' = probe + 1
  /\ result' = Without("ERROR")
  /\ UNCHANGED <<mode, waiting>>

(* The probe in flight ends, with an answer of its own or without one. *)
Finish ==
  /\ waiting
  /\ waiting' = FALSE
  /\ result' \in {Without("TIMEOUT"), Without("ERROR")} \cup Answers(probe, mode)
  /\ UNCHANGED <<mode, probe>>

Next == Begin \/ FailToBegin \/ Finish

Spec == Init /\ [][Next]_vars
=============================================================================
