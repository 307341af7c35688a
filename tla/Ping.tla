-------------------------------- MODULE Ping --------------------------------
(***************************************************************************)
(* run_ping_mode (ping.c): probes one after the other, a row for each, and *)
(* the summary at the end.  A probe is one step, with any outcome Icmp     *)
(* lets it have.  The runtime is open and the array of results allocated   *)
(* when the model starts; Session models how they get there.               *)
(***************************************************************************)
EXTENDS PingStats, Quality, MtrReference

CONSTANTS
  Target,       \* address of the target, one of Remotes
  Counts,       \* values of config->count
  MaxChanges    \* bound: how often the outcome changes from probe to probe

ASSUME TargetAssumption == Target \in Remotes
ASSUME CountsAssumption == Counts \subseteq Nat \ {0}
ASSUME MaxChangesAssumption == MaxChanges \in Nat

VARIABLES
  count,      \* config->count
  csv,        \* a CSV stream is open
  pc,         \* "probe", "print", "csv", "sleep", "summary", "closed"
  results,    \* the array of PingResult, as far as it is filled
  rows,       \* rows printed: [seq, status]
  csvAccepted,    \* rows the CSV stream took without an error: [seq, status]
  stats,      \* the PingStats printed, NoStats(0) before that
  quality,    \* the grade printed
  allocated,  \* ghost: calloc in compute_ping_stats succeeded
  exit        \* exit code, "RUNNING" before the end

config == <<count, csv>>
summary == <<stats, quality, allocated>>
vars == <<config, pc, results, rows, csvAccepted, summary, exit>>

PingResult ==
  [status : {"SUCCESS"}, rtt_ms : Rtts]
    \cup [status : {"TIMEOUT", "ERROR"}, rtt_ms : {0}]

Init ==
  /\ count \in Counts
  /\ csv \in BOOLEAN
  /\ pc = "probe"
  /\ results = <<>>
  /\ rows = <<>>
  /\ csvAccepted = <<>>
  /\ stats = NoStats(0)
  /\ quality = QUALITY_GOOD
  /\ allocated = FALSE
  /\ exit = "RUNNING"

Changes == Cardinality({i \in 2..Len(results) : results[i] # results[i - 1]})

Changed(r) == IF results = <<>> \/ r = results[Len(results)] THEN 0 ELSE 1

RowOf(i) == [seq |-> i, status |-> results[i].status]

-----------------------------------------------------------------------------
(* send_icmp_echo and receive_ping_response for one element of the array. *)
Probe(r) ==
  /\ pc = "probe"
  /\ Changes + Changed(r) <= MaxChanges
  /\ results' = Append(results, r)
  /\ pc' = "print"
  /\ UNCHANGED <<config, rows, csvAccepted, summary, exit>>

PrintResult ==
  /\ pc = "print"
  /\ rows' = Append(rows, RowOf(Len(results)))
  /\ pc' = IF csv THEN "csv" ELSE "sleep"
  /\ UNCHANGED <<config, results, csvAccepted, summary, exit>>

(* The row is handed to the CSV stream, and ferror is still clear behind it.  *)
(* The stream is buffered: what is in the file, and when, is not said here.   *)
WriteCsvRow ==
  /\ pc = "csv"
  /\ csvAccepted' = Append(csvAccepted, RowOf(Len(results)))
  /\ pc' = "sleep"
  /\ UNCHANGED <<config, results, rows, summary, exit>>

(* Mutant: the error is reported, and the session goes on. *)
CsvErrorIgnored ==
  /\ pc = "csv"
  /\ pc' = "sleep"
  /\ UNCHANGED <<config, results, rows, csvAccepted, summary, exit>>

(* ferror is set behind the row, which ends the run without a summary.  The   *)
(* error may be that of a write that held earlier rows as well.               *)
CsvFails ==
  /\ pc = "csv"
  /\ pc' = "closed"
  /\ exit' = "ERR_IO"
  /\ UNCHANGED <<config, results, rows, csvAccepted, summary>>

(* Mutant: one probe too many. *)
LoopOnceMore ==
  /\ pc = "sleep"
  /\ pc' = IF Len(results) <= count THEN "probe" ELSE "summary"
  /\ UNCHANGED <<config, results, rows, csvAccepted, summary, exit>>

(* sleep_ms between two probes, nothing after the last one. *)
SleepBetween ==
  /\ pc = "sleep"
  /\ pc' = IF Len(results) < count THEN "probe" ELSE "summary"
  /\ UNCHANGED <<config, results, rows, csvAccepted, summary, exit>>

(* The statistics and the grade are computed and printed; runtime_close. *)
Summarise(room) ==
  /\ pc = "summary"
  /\ stats' = compute_ping_stats(results, room)
  /\ quality' = evaluate_quality(compute_ping_stats(results, room))
  /\ allocated' = room
  /\ pc' = "closed"
  /\ exit' = "OK"
  /\ UNCHANGED <<config, results, rows, csvAccepted>>

Closed == pc = "closed" /\ UNCHANGED vars

Next ==
  \/ \E r \in PingResult : Probe(r)
  \/ PrintResult \/ WriteCsvRow \/ CsvFails \/ SleepBetween
  \/ \E room \in BOOLEAN : Summarise(room)
  \/ Closed

Spec == Init /\ [][Next]_vars

-----------------------------------------------------------------------------
(* Properties. *)

Row == [seq : Nat \ {0}, status : {"SUCCESS", "TIMEOUT", "ERROR"}]

(* Types of the variables of run_ping_mode; the array is never overrun.      *)
TypeOK ==
  /\ count \in Counts /\ csv \in BOOLEAN
  /\ pc \in {"probe", "print", "csv", "sleep", "summary", "closed"}
  /\ results \in Seq(PingResult) /\ Len(results) <= count
  /\ rows \in Seq(Row) /\ csvAccepted \in Seq(Row)
  /\ quality \in {QUALITY_GOOD, QUALITY_NORMAL, QUALITY_POOR}
  /\ allocated \in BOOLEAN
  /\ exit \in {"RUNNING", "OK", "ERR_IO"}

Summarised == exit = "OK"
Measured == Summarised /\ allocated
CountOf(s, status) == CountIn(s, [seq : Nat \ {0}, status : {status}])

(* What the user sees fits together: a run that ends well has printed every  *)
(* probe once, its CSV stream took the same rows without an error, and the   *)
(* summary counts them - unless calloc failed, where it counts no answer,    *)
(* shows no loss, and is still graded POOR (ping.c:41-67, stats.c:26-52).    *)
(* Whether the rows of the stream reach the file shows when it is closed,    *)
(* and nobody looks (runtime.c:66).                                          *)
SummaryMatchesRows ==
  Summarised =>
    /\ rows = [i \in 1..count |-> RowOf(i)]
    /\ csv => csvAccepted = rows
    /\ stats.transmitted = Len(rows)
    /\ allocated =>
         /\ stats.received = CountOf(rows, "SUCCESS")
         /\ stats.loss_percent[1] * count =
              100 * (CountOf(rows, "TIMEOUT") + CountOf(rows, "ERROR")) * stats.loss_percent[2]
    /\ ~allocated => stats.received = 0 /\ quality = QUALITY_POOR

(* How many answers took no longer than x. *)
Within(x) == CountIn(results, [status : {"SUCCESS"}, rtt_ms : 0..x])

(* The two measures of the distribution that nothing else in the program      *)
(* computes.  p95 is the smallest of the times within which at least 95 of   *)
(* 100 answers came, for one answer as for many; the standard deviation is   *)
(* at most half the distance of the extremes, and zero only if they meet     *)
(* (stats.c:61-84).                                                          *)
DistributionIsSound ==
  Measured /\ stats.has_rtt =>
    LET width == stats.max_ms - stats.min_ms IN
    /\ \E i \in 1..count : results[i] = [status |-> "SUCCESS", rtt_ms |-> stats.p95_ms]
    /\ 100 * Within(stats.p95_ms) >= 95 * stats.received
    /\ \A x \in Rtts : x < stats.p95_ms => 100 * Within(x) < 95 * stats.received
    /\ 4 * stats.variance[1] <= width * width * stats.variance[2]
    /\ stats.variance[1] = 0 <=> width = 0

(* The grade, seen from the results: GOOD is for a session without a lost    *)
(* probe whose times and steps are small, and more than one loss in twenty   *)
(* or no answer at all is POOR whatever the times are (quality.c:13-51).     *)
GradeFollowsResults ==
  Measured =>
    LET t == rtts(results)  n == Len(t)  lost == count - n
        steps == SumOf([i \in 1..(n - 1) |-> Distance(t[i], t[i + 1])])
    IN /\ quality = QUALITY_GOOD <=>
            lost = 0 /\ SumOf(t) <= 50 * n /\ steps <= 10 * (n - 1)
       /\ quality = QUALITY_POOR <=>
            n = 0 \/ 20 * lost > count \/ SumOf(t) > 150 * n \/ steps > 30 * Larger(n - 1, 0)

(* What MTR would have got for the same result, from a hop at the target. *)
AsTraceResult(r) ==
  IF IsSuccess(r)
  THEN [status |-> "DESTINATION", rtt_ms |-> r.rtt_ms, remote_ip |-> Target, error |-> ""]
  ELSE [status |-> r.status, rtt_ms |-> 0, remote_ip |-> "", error |-> r.status]

RecordAnother == [p \in HopStats \X PingResult |-> mtr_hop_stats_record(p[1], AsTraceResult(p[2]))]

(* The two implementations of the same statistics agree: what ping computes  *)
(* at the end from the array is what MTR's update by update comes to over    *)
(* the same results (stats.c:37-77, mtr.c:37-80).                            *)
AgreesWithMtr ==
  Measured =>
    LET s == Fold(RecordAnother, mtr_hop_stats_init(1), results)
    IN /\ stats.transmitted = s.sent /\ stats.received = s.received
       /\ stats.has_rtt = s.has_rtt /\ stats.has_jitter = s.has_jitter
       /\ stats.min_ms = s.best_ms /\ stats.max_ms = s.worst_ms
       /\ stats.avg_ms = s.avg_ms /\ stats.jitter_ms = s.jitter_ms
       /\ stats.loss_percent = <<100 * s.no_reply[1], s.no_reply[2]>>
=============================================================================
