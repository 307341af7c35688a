----------------------------- MODULE MtrQuality -----------------------------
(***************************************************************************)
(* How baseline.c judges a finished measurement: which hop is the          *)
(* destination, over how many cycles, the score and the level of the       *)
(* diagnosis, and what has changed against a baseline.  Statistics are     *)
(* MtrHopStats as in MtrStats, times in ticks; a pointer into an array is  *)
(* its index, NULL is 0.                                                   *)
(***************************************************************************)
EXTENDS Integers, Sequences

Seqs == INSTANCE SequencesExt

CONSTANT Ms   \* ticks per millisecond

ASSUME MsAssumption == Ms \in Nat \ {0}

(* The baseline of a run that reads none. *)
NoBaseline == [hop_count |-> 0, hops |-> <<>>]

FirstOf(found) == IF found = {} THEN 0 ELSE CHOOSE h \in found : \A g \in found : h <= g

(* Mutant: a hop that was not probed in this run is found as well. *)
FindUnprobedToo(current, count, hop) ==
  FirstOf({i \in 1..count : current[i].hop = hop})

find_current_hop(current, count, hop) ==
  FirstOf({i \in 1..count : current[i].hop = hop /\ current[i].sent > 0})

find_destination_hop(stats, count) ==
  FirstOf({i \in 1..count : stats[i].sent > 0 /\ stats[i].status = "DESTINATION"})

(* Mutant: the last hop is taken for the one that was probed in every cycle. *)
CyclesOfLastHop(stats, count) == stats[count].sent

(* The largest number of probes any hop was sent. *)
observed_cycles(stats, count) ==
  CHOOSE n \in {0} \cup {stats[i].sent : i \in 1..count} :
    \A i \in 1..count : stats[i].sent <= n

diagnosis_level_from_score(score, destination_missing) ==
  CASE destination_missing \/ score >= 5 -> "POOR"
    [] ~destination_missing /\ score \in 2..4 -> "CAUTION"
    [] OTHER -> "NORMAL"

-----------------------------------------------------------------------------
(* Scores.  An average is the pair <<total, number>> of the division.         *)

Minus(q, r) == <<q[1] * r[2] - r[1] * q[2], q[2] * r[2]>>
Over(q, bound) == q[1] > bound * q[2]
AtLeast(q, bound) == q[1] >= bound * q[2]

NoReplyScore(d) ==
  LET percent == <<100 * d.no_reply[1], d.no_reply[2]>>
  IN IF Over(percent, 5) THEN 4 ELSE IF Over(percent, 1) THEN 2 ELSE 0

RttScore(d) ==
  IF ~d.has_rtt THEN 4
  ELSE IF Over(d.avg_ms, 180 * Ms) THEN 3 ELSE IF Over(d.avg_ms, 80 * Ms) THEN 1 ELSE 0

JitterScore(d) ==
  IF ~d.has_jitter THEN 0
  ELSE IF Over(d.jitter_ms, 30 * Ms) THEN 3 ELSE IF Over(d.jitter_ms, 10 * Ms) THEN 1 ELSE 0

(* The mean has grown by at least ms milliseconds and percent per cent; from *)
(* a mean of 0 it grows by 0 per cent.                                       *)
GrownBy(base, d, ms, percent) ==
  LET delta == Minus(d.avg_ms, base.avg_ms) IN
  /\ AtLeast(delta, ms * Ms)
  /\ base.avg_ms[1] > 0
  /\ 100 * delta[1] * base.avg_ms[2] >= percent * base.avg_ms[1] * delta[2]

RttDeltaScore(base, d) ==
  IF ~base.has_rtt \/ ~d.has_rtt THEN 0
  ELSE IF GrownBy(base, d, 80, 100) THEN 3 ELSE IF GrownBy(base, d, 30, 50) THEN 1 ELSE 0

JitterDeltaScore(base, d) ==
  LET delta == Minus(d.jitter_ms, base.jitter_ms) IN
  IF ~base.has_jitter \/ ~d.has_jitter THEN 0
  ELSE IF AtLeast(delta, 40 * Ms) /\ Over(d.jitter_ms, 30 * Ms) THEN 3
  ELSE IF AtLeast(delta, 20 * Ms) THEN 1 ELSE 0

(* Mutant: what is scored is an improvement. *)
DeltaScoreSwapped(base, d) == RttDeltaScore(d, base) + JitterDeltaScore(d, base)

DeltaScore(base, d) == RttDeltaScore(base, d) + JitterDeltaScore(base, d)

evaluate_mtr_quality(baseline, current, count) ==
  LET destination == find_destination_hop(current, count)
      base == find_destination_hop(baseline.hops, baseline.hop_count)
      missing == destination = 0
      d == current[destination]
      score == IF missing THEN 4
               ELSE NoReplyScore(d) + RttScore(d) + JitterScore(d)
                      + (IF base = 0 THEN 0 ELSE DeltaScore(baseline.hops[base], d))
  IN [level |-> diagnosis_level_from_score(score, missing), score |-> score,
      cycles |-> observed_cycles(current, count),
      destination |-> destination, baseline_destination |-> base]

-----------------------------------------------------------------------------
(* What has changed: a list of [hop, what]. *)

Change(hop, what, holds) == IF holds THEN <<[hop |-> hop, what |-> what]>> ELSE <<>>

print_hop_change(old, new) ==
  Change(old.hop, "address",
       old.remote_ip # "" /\ new.remote_ip # "" /\ old.remote_ip # new.remote_ip)
    \o
  Change(old.hop, "no_reply",
       LET delta == Minus(new.no_reply, old.no_reply) IN 100 * delta[1] >= 5 * delta[2])
    \o
  Change(old.hop, "rtt",
       old.has_rtt /\ new.has_rtt /\ AtLeast(Minus(new.avg_ms, old.avg_ms), 20 * Ms))

(* The lines about a hop of the baseline, and about one it may not have. *)
OfBaselineHop(old, current, count, hop) ==
  LET found == find_current_hop(current, count, hop) IN
  CASE old.sent = 0 -> <<>>
    [] old.sent # 0 /\ found = 0 -> Change(hop, "missing", TRUE)
    [] old.sent # 0 /\ found > 0 -> print_hop_change(old, current[found])

OfCurrentHop(baseline, new) ==
  Change(new.hop, "new",
       /\ new.sent > 0
       /\ new.hop > baseline.hop_count \/ baseline.hops[new.hop].sent = 0)

print_baseline_change_list(baseline, current, count) ==
  Seqs!FlattenSeq([hop \in 1..baseline.hop_count |->
                OfBaselineHop(baseline.hops[hop], current, count, hop)])
    \o
  Seqs!FlattenSeq([i \in 1..count |-> OfCurrentHop(baseline, current[i])])
=============================================================================
