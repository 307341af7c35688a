------------------------------ MODULE Quality -------------------------------
(***************************************************************************)
(* evaluate_quality (quality.c): the grade of a ping session, the worst of *)
(* the grades of loss, mean time and jitter.  A quotient is a pair         *)
(* <<dividend, divisor>> with a positive divisor, as in PingStats.         *)
(***************************************************************************)
EXTENDS Integers

QUALITY_GOOD == 0
QUALITY_NORMAL == 1
QUALITY_POOR == 2

AtMost(quotient, bound) == quotient[1] <= bound * quotient[2]

Grade(quotient, good, normal) ==
  IF AtMost(quotient, good) THEN QUALITY_GOOD
  ELSE IF AtMost(quotient, normal) THEN QUALITY_NORMAL ELSE QUALITY_POOR

(* Mutant: the better of two grades. *)
BetterQuality(a, b) == IF a < b THEN a ELSE b

max_quality(a, b) == IF a > b THEN a ELSE b

evaluate_quality(s) ==
  LET loss == Grade(s.loss_percent, 0, 5)
      avg == Grade(s.avg_ms, 50, 150)
      jitter == IF s.has_jitter THEN Grade(s.jitter_ms, 10, 30) ELSE QUALITY_GOOD
  IN IF ~s.has_rtt THEN QUALITY_POOR
     ELSE max_quality(max_quality(max_quality(QUALITY_GOOD, loss), avg), jitter)
=============================================================================
