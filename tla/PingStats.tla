----------------------------- MODULE PingStats ------------------------------
(***************************************************************************)
(* compute_ping_stats (stats.c): the summary of a ping session, computed   *)
(* at its end from the array of results.  Times are whole milliseconds; a  *)
(* quotient is kept as the pair <<dividend, divisor>> of the division the  *)
(* code makes, the standard deviation as its square.                       *)
(***************************************************************************)
EXTENDS Folding

IsSuccess(r) == r.status = "SUCCESS"

(* Mutant: a probe without an answer counts as a time of 0. *)
RttsWithZeros(results) == [i \in DOMAIN results |-> results[i].rtt_ms]

AnyResult == [status : {"SUCCESS", "TIMEOUT", "ERROR"}, rtt_ms : Nat]

TakeRtt ==
  [p \in Seq(Nat) \X AnyResult |-> IF IsSuccess(p[2]) THEN Append(p[1], p[2].rtt_ms) ELSE p[1]]

(* The times of the answers, in order; timeouts and errors leave no gap. *)
rtts(results) == Fold(TakeRtt, <<>>, results)

Least == [p \in Nat \X Nat |-> IF p[2] < p[1] THEN p[2] ELSE p[1]]
Greatest == [p \in Nat \X Nat |-> IF p[2] > p[1] THEN p[2] ELSE p[1]]

Larger(x, y) == IF x > y THEN x ELSE y

(* The squared distances from the mean, n times too far each: with            *)
(* n * t - total in place of t - avg no quotient is rounded.                  *)
Variance(t) ==
  LET n == Len(t)  total == SumOf(t)
  IN <<SumOf([i \in 1..n |-> (n * t[i] - total) * (n * t[i] - total)]), n * n * n>>

Distance(x, y) == IF x < y THEN y - x ELSE x - y

Jitter(t) ==
  <<SumOf([i \in 1..(Len(t) - 1) |-> Distance(t[i], t[i + 1])]), Len(t) - 1>>

(* x takes its place among the elements of u, which are in order. *)
Inserted(u, x) ==
  LET k == CountIn(u, 0..x) IN SubSeq(u, 1, k) \o <<x>> \o SubSeq(u, k + 1, Len(u))

Insert == [p \in Seq(Nat) \X Nat |-> Inserted(p[1], p[2])]

(* qsort with compare_double; numbers can be put in order in one way only. *)
sorted(t) == Fold(Insert, <<>>, t)

(* Mutant: the rank is rounded down. *)
RankRoundedDown(n) == Larger(1, (95 * n) \div 100)

(* ceil(0.95 * n), at least 1.  The double nearest to 0.95 is below it by     *)
(* less than half a unit in the last place of any product with n, so the      *)
(* product is exact where n is a multiple of 20, and nowhere else does the    *)
(* rounding reach an integer.                                                 *)
rank(n) == Larger(1, (95 * n + 99) \div 100)

p95(t) == sorted(t)[rank(Len(t))]

NoStats(count) ==
  [transmitted |-> count, received |-> 0, loss_percent |-> <<0, 1>>,
   min_ms |-> 0, avg_ms |-> <<0, 1>>, max_ms |-> 0, variance |-> <<0, 1>>,
   jitter_ms |-> <<0, 1>>, p95_ms |-> 0, has_rtt |-> FALSE, has_jitter |-> FALSE]

(* The summary of results, given whether calloc found room for the times. *)
compute_ping_stats(results, allocated) ==
  LET count == Len(results)
      t == rtts(results)
      received == Len(t)
      counted == [NoStats(count) EXCEPT
                    !.received = received,
                    !.loss_percent = <<100 * (count - received), count>>]
      timed == [counted EXCEPT
                  !.has_rtt = TRUE,
                  !.min_ms = Fold(Least, t[1], t),
                  !.max_ms = Fold(Greatest, t[1], t),
                  !.avg_ms = <<SumOf(t), received>>,
                  !.variance = Variance(t),
                  !.p95_ms = p95(t)]
      gaps == [timed EXCEPT !.has_jitter = TRUE, !.jitter_ms = Jitter(t)]
  IN IF ~allocated THEN NoStats(count)
     ELSE IF received = 0 THEN counted
     ELSE IF received = 1 THEN timed ELSE gaps
=============================================================================
