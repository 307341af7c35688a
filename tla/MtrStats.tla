------------------------------ MODULE MtrStats ------------------------------
(***************************************************************************)
(* MtrHopStats and the operations mtr.c has on it: the statistics of one   *)
(* hop, brought up to date result by result.  An average is kept as the    *)
(* pair <<total, number>> that the code divides; a percentage likewise.    *)
(***************************************************************************)
EXTENDS Integers

CONSTANTS
  Rtts,      \* round trip times of answers
  Remotes    \* addresses of the routers and hosts that answer

ASSUME RttsAssumption == Rtts \subseteq Nat

(* A TraceResult.  destination_reached is set with status DESTINATION and     *)
(* only then (icmp.c:350-351).                                               *)
AnsweredResult ==
  [status : {"HOP", "DESTINATION"}, rtt_ms : Rtts, remote_ip : Remotes, error : {""}]

UnansweredResult ==
  {[status |-> s, rtt_ms |-> 0, remote_ip |-> "", error |-> s] : s \in {"TIMEOUT", "ERROR"}}

TraceResult == AnsweredResult \cup UnansweredResult

destination_reached(r) == r.status = "DESTINATION"

trace_result_has_rtt(r) == r.status \in {"HOP", "DESTINATION"}

mtr_hop_stats_init(hop) ==
  [hop |-> hop, sent |-> 0, received |-> 0, last_ms |-> 0, best_ms |-> 0,
   worst_ms |-> 0, total_ms |-> 0, avg_ms |-> <<0, 1>>, previous_ms |-> 0,
   jitter_total_ms |-> 0, jitter_ms |-> <<0, 1>>, no_reply |-> <<0, 1>>,
   has_rtt |-> FALSE, has_previous_ms |-> FALSE, has_jitter |-> FALSE,
   status |-> "UNKNOWN", remote_ip |-> "", error |-> ""]

AbsDiff(a, b) == IF a < b THEN b - a ELSE a - b

(* Mutant: the first answer is compared with the 0 of the empty statistics. *)
BestFromZero(s, rtt) == IF rtt < s.best_ms THEN rtt ELSE s.best_ms

BestOf(s, rtt) == IF ~s.has_rtt \/ rtt < s.best_ms THEN rtt ELSE s.best_ms

WorstOf(s, rtt) == IF ~s.has_rtt \/ rtt > s.worst_ms THEN rtt ELSE s.worst_ms

(* Mutant: the mean is taken over the answers, not over the gaps. *)
JitterOverAnswers(s, rtt) ==
  IF s.has_previous_ms
  THEN LET total == s.jitter_total_ms + AbsDiff(rtt, s.previous_ms)
       IN [s EXCEPT !.jitter_total_ms = total, !.has_jitter = TRUE,
             !.jitter_ms = <<total, s.received>>]
  ELSE s

(* The part of record_success_rtt that follows the answers' distances; the    *)
(* answer has been counted in s.received.                                     *)
WithJitter(s, rtt) ==
  IF s.has_previous_ms
  THEN LET total == s.jitter_total_ms + AbsDiff(rtt, s.previous_ms)
       IN [s EXCEPT !.jitter_total_ms = total, !.has_jitter = TRUE,
             !.jitter_ms = <<total, s.received - 1>>]
  ELSE s

record_success_rtt(s, rtt) ==
  LET counted ==
        [s EXCEPT !.received = s.received + 1, !.last_ms = rtt,
           !.total_ms = s.total_ms + rtt, !.avg_ms = <<s.total_ms + rtt, s.received + 1>>,
           !.best_ms = BestOf(s, rtt), !.worst_ms = WorstOf(s, rtt)]
  IN [WithJitter(counted, rtt) EXCEPT
        !.previous_ms = rtt, !.has_previous_ms = TRUE, !.has_rtt = TRUE]

(* Mutant: a result without an answer overwrites the status of the hop. *)
LatestStatus(s, r) == r.status

(* The status of a hop: that of its latest answer; before any answer, that of *)
(* its latest result.                                                         *)
StatusAfter(s, r) ==
  CASE r.status = "DESTINATION" -> "DESTINATION"
    [] r.status = "HOP" -> "HOP"
    [] OTHER -> IF ~s.has_rtt /\ s.status # "DESTINATION" THEN r.status ELSE s.status

mtr_hop_stats_record(s, r) ==
  LET answered == trace_result_has_rtt(r)
      t == IF answered THEN record_success_rtt(s, r.rtt_ms) ELSE s
  IN [t EXCEPT
        !.sent = s.sent + 1,
        !.error = r.error,
        !.remote_ip = IF answered THEN r.remote_ip ELSE s.remote_ip,
        !.status = StatusAfter(s, r),
        !.no_reply = <<s.sent + 1 - t.received, s.sent + 1>>]

-----------------------------------------------------------------------------
(* Properties of the statistics of one hop. *)

HopStats ==
  [hop : Nat, sent : Nat, received : Nat, last_ms : Nat, best_ms : Nat, worst_ms : Nat,
   total_ms : Nat, avg_ms : Nat \X Nat, previous_ms : Nat, jitter_total_ms : Nat,
   jitter_ms : Nat \X Nat, no_reply : Nat \X Nat,
   has_rtt : BOOLEAN, has_previous_ms : BOOLEAN, has_jitter : BOOLEAN,
   status : {"UNKNOWN", "TIMEOUT", "ERROR", "HOP", "DESTINATION"},
   remote_ip : Remotes \cup {""}, error : {"", "TIMEOUT", "ERROR"}]

(* Flags, status and counters tell the same story. *)
FlagsAgree(s) ==
  /\ s.has_rtt <=> s.received > 0
  /\ s.has_rtt <=> s.status \in {"HOP", "DESTINATION"}
  /\ s.has_previous_ms <=> s.has_rtt
  /\ s.has_jitter <=> s.received > 1
  /\ s.sent = 0 <=> s.status = "UNKNOWN"
  /\ s.received <= s.sent

(* Mean and jitter lie within the spread of the times. *)
Bounded(s) ==
  s.has_rtt =>
    /\ s.best_ms <= s.last_ms /\ s.last_ms <= s.worst_ms
    /\ s.previous_ms = s.last_ms
    /\ s.best_ms * s.received <= s.total_ms
    /\ s.total_ms <= s.worst_ms * s.received
    /\ s.jitter_total_ms <= (s.worst_ms - s.best_ms) * (s.received - 1)
    /\ s.avg_ms = <<s.total_ms, s.received>>
    /\ s.has_jitter => s.jitter_ms = <<s.jitter_total_ms, s.received - 1>>
=============================================================================
