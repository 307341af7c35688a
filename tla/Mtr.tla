-------------------------------- MODULE Mtr ---------------------------------
(***************************************************************************)
(* The measurement of run_mtr_mode (mtr.c): cycles of a sweep over the     *)
(* hops, one probe per hop, cut short when the destination answers.  A     *)
(* probe is one step here: any outcome that Icmp lets it have, whatever    *)
(* the outcome of earlier probes, since routes change and routers answer   *)
(* or not as they please.  What follows the measurement (CSV, baseline,    *)
(* report) reads "stats" and changes it no more.                           *)
(***************************************************************************)
EXTENDS MtrReference

CONSTANTS
  MaxHop,    \* config->max_hop
  Count      \* config->count, the number of cycles

ASSUME MaxHopAssumption == MaxHop \in Nat \ {0}
ASSUME CountAssumption == Count \in Nat \ {0}

VARIABLES
  pc,        \* "probe" in a sweep, "sleep" between cycles, "table", "done"
  cycle,     \* loop variable of the outer loop
  hop,       \* loop variable over the hops, of the sweep and of the table
  seq,       \* number of the next probe, not yet cut to 16 bits
  stats,     \* hop -> MtrHopStats
  table,     \* the hops printed, in order
  history    \* ghost: hop -> results of its probes, in order

vars == <<pc, cycle, hop, seq, stats, table, history>>

Hops == 1..MaxHop

Init ==
  /\ pc = "probe"
  /\ cycle = 1
  /\ hop = 1
  /\ seq = 1
  /\ stats = [h \in Hops |-> mtr_hop_stats_init(h)]
  /\ table = <<>>
  /\ history = [h \in Hops |-> <<>>]

(* seq++ for the probe, and its result enters the statistics of the hop. *)
Record(r) ==
  /\ seq' = seq + 1
  /\ stats' = [stats EXCEPT ![hop] = mtr_hop_stats_record(@, r)]
  /\ history' = [history EXCEPT ![hop] = Append(@, r)]

(* Mutants: the loop runs one hop too far; a failure ends the sweep as well. *)
SweepOneTooFar(r) == destination_reached(r) \/ hop = MaxHop + 1
SweepStopsOnError(r) == destination_reached(r) \/ r.status = "ERROR" \/ hop = MaxHop

(* The sweep ends with the destination, or after the last hop. *)
SweepEnds(r) == destination_reached(r) \/ hop = MaxHop

(* Both loops that can follow start again from the first hop. *)
EndOfSweep ==
  /\ pc' = IF cycle < Count THEN "sleep" ELSE "table"
  /\ hop' = 1

(* probe_mtr_hop and mtr_hop_stats_record for the current hop, and the loop   *)
(* control behind them.                                                       *)
ProbeHop(r) ==
  /\ pc = "probe"
  /\ Record(r)
  /\ \/ SweepEnds(r) /\ EndOfSweep
     \/ ~SweepEnds(r) /\ hop' = hop + 1 /\ UNCHANGED pc
  /\ UNCHANGED <<cycle, table>>

(* sleep_ms between two cycles, and the next cycle. *)
NextCycle ==
  /\ pc = "sleep"
  /\ pc' = "probe"
  /\ cycle' = cycle + 1
  /\ UNCHANGED <<hop, seq, stats, table, history>>

(* Mutant: hops that never answered have no row. *)
PrintAnsweredRow ==
  /\ pc = "table"
  /\ table' = IF stats[hop].received = 0 THEN table ELSE Append(table, hop)
  /\ \/ hop < MaxHop /\ hop' = hop + 1 /\ UNCHANGED pc
     \/ hop = MaxHop /\ pc' = "done" /\ UNCHANGED hop
  /\ UNCHANGED <<cycle, seq, stats, history>>

(* A table row for the hop, unless it was never probed. *)
PrintRow ==
  /\ pc = "table"
  /\ table' = IF stats[hop].sent = 0 THEN table ELSE Append(table, hop)
  /\ \/ hop < MaxHop /\ hop' = hop + 1 /\ UNCHANGED pc
     \/ hop = MaxHop /\ pc' = "done" /\ UNCHANGED hop
  /\ UNCHANGED <<cycle, seq, stats, history>>

Finished == pc = "done" /\ UNCHANGED vars

Next ==
  \/ \E r \in TraceResult : ProbeHop(r)
  \/ NextCycle
  \/ PrintRow
  \/ Finished

Spec == Init /\ [][Next]_vars

-----------------------------------------------------------------------------
(* Properties. *)

(* Types of the variables of run_mtr_mode and of the statistics it keeps. *)
TypeOK ==
  /\ pc \in {"probe", "sleep", "table", "done"}
  /\ cycle \in 1..Count
  /\ hop \in Hops
  /\ seq \in Nat
  /\ stats \in [Hops -> HopStats]
  /\ table \in Seq(Hops)
  /\ history \in [Hops -> Seq(TraceResult)]

(* The flags and the status of every hop tell the same story as its counters, *)
(* whatever order answers, timeouts and errors came in (mtr.c:37-80).        *)
StatusReflectsAnswers == \A h \in Hops : FlagsAgree(stats[h])

(* The averages lie where averages must: the mean between the best and the   *)
(* worst time, the jitter within their distance (mtr.c:37-63).               *)
AveragesBounded == \A h \in Hops : Bounded(stats[h])

(* What the updates, result by result, have made of the statistics of a hop  *)
(* is what all its results together come to (mtr.c:37-80).                   *)
StatsMatchHistory ==
  \A h \in Hops : stats[h].hop = h /\ MatchesHistory(stats[h], history[h])

(* Every hop was probed in exactly those cycles in which the hop before it   *)
(* was probed and did not turn out to be the destination; the first one in   *)
(* every cycle (mtr.c:140-159).  Percentages of different hops are therefore *)
(* over different numbers of probes.                                         *)
Stops(s) == CountIn(s, {r \in TraceResult : destination_reached(r)})

Pending(h) == IF pc = "probe" /\ hop = h THEN 1 ELSE 0

SweepAccounting ==
  /\ stats[1].sent + Pending(1) = cycle
  /\ \A h \in Hops \ {1} :
       stats[h].sent + Pending(h) = stats[h - 1].sent - Stops(history[h - 1])

(* The table has one row for each hop from the first to the deepest one that *)
(* was ever probed, without a gap (mtr.c:163-168).                           *)
TableIsTheSweep ==
  pc = "done" =>
    /\ table = [i \in 1..Len(table) |-> i]
    /\ \A h \in Hops : h > Len(table) <=> stats[h].sent = 0
=============================================================================
