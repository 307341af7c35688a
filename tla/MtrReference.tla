---------------------------- MODULE MtrReference ----------------------------
(***************************************************************************)
(* What the statistics of mtr.c mean: the same numbers computed from all   *)
(* the results of a hop at once.  The program never keeps them; its        *)
(* incremental updates must come to the same.                              *)
(***************************************************************************)
EXTENDS MtrStats, Folding

TakeTime ==
  [p \in Seq(Nat) \X TraceResult |->
     IF trace_result_has_rtt(p[2]) THEN Append(p[1], p[2].rtt_ms) ELSE p[1]]

(* The times of the answers, in order. *)
Times(results) == Fold(TakeTime, <<>>, results)

Gaps(t) == [i \in 1..(Len(t) - 1) |-> AbsDiff(t[i], t[i + 1])]

IsLatestAnswer(i, results) ==
  /\ trace_result_has_rtt(results[i])
  /\ \A j \in DOMAIN results : j > i => ~trace_result_has_rtt(results[j])

(* The statistics of a hop are those of its results: counts, extremes, mean, *)
(* mean distance of consecutive answers, and the address and status of the   *)
(* latest answer.                                                            *)
MatchesHistory(s, results) ==
  LET m == Len(results)  t == Times(results)  n == Len(t) IN
  /\ s.sent = m /\ s.received = n
  /\ m > 0 =>
       /\ s.no_reply = <<CountIn(results, UnansweredResult), m>>
       /\ s.error = results[m].error
  /\ m > 0 /\ n = 0 => s.status = results[m].status
  /\ n > 0 =>
       /\ s.avg_ms = <<SumOf(t), n>>
       /\ s.last_ms = t[n]
       /\ \A i \in 1..n : s.best_ms <= t[i] /\ t[i] <= s.worst_ms
       /\ \E i \in 1..n : s.best_ms = t[i]
       /\ \E i \in 1..n : s.worst_ms = t[i]
       /\ \E i \in 1..m :
            /\ IsLatestAnswer(i, results)
            /\ s.status = results[i].status /\ s.remote_ip = results[i].remote_ip
  /\ n > 1 => s.jitter_ms = <<SumOf(Gaps(t)), n - 1>>
=============================================================================
