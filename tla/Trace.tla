------------------------------- MODULE Trace --------------------------------
(***************************************************************************)
(* run_trace_mode (trace.c): one row per hop, each hop probed until it     *)
(* answers or its attempts are used up.  A probe is one step, with any     *)
(* outcome Icmp lets it have.  The runtime is open when the model starts.  *)
(***************************************************************************)
EXTENDS Integers, Sequences

CONSTANTS
  MaxHop,          \* config->max_hop
  TraceAttempts,   \* config->trace_attempts
  SeqMod           \* size of the sequence number space (65536 in the code)

ASSUME MaxHopAssumption == MaxHop \in Nat \ {0}
ASSUME AttemptsAssumption == TraceAttempts \in Nat \ {0}
ASSUME SeqAssumption == SeqMod \in Nat /\ MaxHop * TraceAttempts < SeqMod

VARIABLES
  show_timeouts,   \* config->show_timeouts
  csv,             \* a CSV stream is open
  pc,              \* "ttl", "attempt", "row", "csv", "next", "closed"
  hop,             \* loop variable over the hops
  attempt,         \* loop variable over the attempts of a hop
  ttl,             \* TTL set on the socket, 0 while it is the system's default
  result,          \* status of the TraceResult of the hop; cleared, it reads TIMEOUT
  rows,            \* rows printed on the terminal: [hop, status]
  csvAccepted,     \* rows the CSV stream took without an error
  exit,            \* exit code, "" while running
  probes           \* ghost: probes sent, [ttl, seq, status], in order

config == <<show_timeouts, csv>>
vars == <<config, pc, hop, attempt, ttl, result, rows, csvAccepted, exit, probes>>

Hops == 1..MaxHop

Outcomes == {"TIMEOUT", "ERROR", "HOP", "DESTINATION"}

(* Mutant: hops overlap when there is more than one attempt. *)
SeqWithoutStride(h, a) == (h - 1 + a) % SeqMod

Seq16(h, a) == ((h - 1) * TraceAttempts + a) % SeqMod

Init ==
  /\ show_timeouts \in BOOLEAN
  /\ csv \in BOOLEAN
  /\ pc = "ttl"
  /\ hop = 1
  /\ attempt = 1
  /\ ttl = 0
  /\ result = "TIMEOUT"
  /\ rows = <<>>
  /\ csvAccepted = <<>>
  /\ exit = ""
  /\ probes = <<>>

-----------------------------------------------------------------------------
SetTtl ==
  /\ pc = "ttl"
  /\ ttl' = hop
  /\ attempt' = 1
  /\ pc' = "attempt"
  /\ UNCHANGED <<config, hop, result, rows, csvAccepted, exit, probes>>

(* Mutant: the hop is probed all the same, with the TTL of the hop before.    *)
ProbeWithStaleTtl ==
  /\ pc = "ttl"
  /\ attempt' = 1
  /\ pc' = "attempt"
  /\ UNCHANGED <<config, hop, ttl, result, rows, csvAccepted, exit, probes>>

(* setsockopt fails: the hop is not probed, its row is an error. *)
SetTtlFails ==
  /\ pc = "ttl"
  /\ result' = "ERROR"
  /\ pc' = "row"
  /\ UNCHANGED <<config, hop, attempt, ttl, rows, csvAccepted, exit, probes>>

(* Mutants: one attempt is all a hop gets; a hop gets one attempt too many.   *)
NoRetry(s) == pc' = "row" /\ UNCHANGED attempt
RetryOnceTooOften(s) ==
  \/ s = "TIMEOUT" /\ attempt <= TraceAttempts /\ attempt' = attempt + 1 /\ UNCHANGED pc
  \/ s # "TIMEOUT" /\ pc' = "row" /\ UNCHANGED attempt
  \/ attempt > TraceAttempts /\ pc' = "row" /\ UNCHANGED attempt

(* After an attempt with outcome s: again only after a timeout, and only as   *)
(* often as configured.                                                       *)
AfterAttempt(s) ==
  \/ s = "TIMEOUT" /\ attempt < TraceAttempts /\ attempt' = attempt + 1 /\ UNCHANGED pc
  \/ s # "TIMEOUT" /\ pc' = "row" /\ UNCHANGED attempt
  \/ attempt = TraceAttempts /\ pc' = "row" /\ UNCHANGED attempt

Attempt(s) ==
  /\ pc = "attempt"
  /\ probes' = Append(probes, [ttl |-> ttl, seq |-> Seq16(hop, attempt), status |-> s])
  /\ result' = s
  /\ AfterAttempt(s)
  /\ UNCHANGED <<config, hop, ttl, rows, csvAccepted, exit>>

(* sendto fails: no further attempt. *)
SendFails ==
  /\ pc = "attempt"
  /\ result' = "ERROR"
  /\ pc' = "row"
  /\ UNCHANGED <<config, hop, attempt, ttl, rows, csvAccepted, exit, probes>>

(* A hop that timed out has no row, neither here nor in the CSV, unless       *)
(* timeouts are to be shown.                                                  *)
Hidden == result = "TIMEOUT" /\ ~show_timeouts

SkipRow ==
  /\ pc = "row"
  /\ Hidden
  /\ pc' = "next"
  /\ UNCHANGED <<config, hop, attempt, ttl, result, rows, csvAccepted, exit, probes>>

PrintRow ==
  /\ pc = "row"
  /\ ~Hidden
  /\ rows' = Append(rows, [hop |-> hop, status |-> result])
  /\ pc' = IF csv THEN "csv" ELSE "next"
  /\ UNCHANGED <<config, hop, attempt, ttl, result, csvAccepted, exit, probes>>

(* The row is handed to the CSV stream, and ferror is still clear behind it.  *)
(* The stream is buffered: what is in the file, and when, is not said here.   *)
WriteCsvRow ==
  /\ pc = "csv"
  /\ csvAccepted' = Append(csvAccepted, [hop |-> hop, status |-> result])
  /\ pc' = "next"
  /\ UNCHANGED <<config, hop, attempt, ttl, result, rows, exit, probes>>

(* Mutant: the error is reported, and the trace goes on. *)
CsvErrorIgnored ==
  /\ pc = "csv"
  /\ pc' = "next"
  /\ UNCHANGED <<config, hop, attempt, ttl, result, rows, csvAccepted, exit, probes>>

(* ferror is set behind the row, which ends the run.  The error may be that   *)
(* of a write that held earlier rows as well.                                 *)
CsvFails ==
  /\ pc = "csv"
  /\ pc' = "closed"
  /\ exit' = "ERR_IO"
  /\ UNCHANGED <<config, hop, attempt, ttl, result, rows, csvAccepted, probes>>

(* Mutant: the destination does not end the trace. *)
LastHopOnly == hop = MaxHop

Last == result = "DESTINATION" \/ hop = MaxHop

NextHop ==
  /\ pc = "next"
  /\ ~Last
  /\ hop' = hop + 1
  /\ pc' = "ttl"
  /\ result' = "TIMEOUT"
  /\ UNCHANGED <<config, attempt, ttl, rows, csvAccepted, exit, probes>>

(* The summary line, runtime_close and the exit code. *)
Close ==
  /\ pc = "next"
  /\ Last
  /\ pc' = "closed"
  /\ exit' = "OK"
  /\ UNCHANGED <<config, hop, attempt, ttl, result, rows, csvAccepted, probes>>

Closed == pc = "closed" /\ UNCHANGED vars

Next ==
  \/ SetTtl \/ SetTtlFails \/ (\E s \in Outcomes : Attempt(s)) \/ SendFails
  \/ SkipRow \/ PrintRow \/ WriteCsvRow \/ CsvFails \/ NextHop \/ Close
  \/ Closed

Spec == Init /\ [][Next]_vars

-----------------------------------------------------------------------------
(* Properties. *)

Row == [hop : Hops, status : Outcomes]

(* Types of the variables of run_trace_mode. *)
TypeOK ==
  /\ show_timeouts \in BOOLEAN /\ csv \in BOOLEAN
  /\ pc \in {"ttl", "attempt", "row", "csv", "next", "closed"}
  /\ hop \in Hops /\ attempt \in 1..TraceAttempts /\ ttl \in 0..MaxHop
  /\ result \in Outcomes
  /\ rows \in Seq(Row) /\ csvAccepted \in Seq(Row)
  /\ exit \in {"", "OK", "ERR_IO"}
  /\ probes \in Seq([ttl : Hops, seq : 0..(SeqMod - 1), status : Outcomes])

(* No sequence number is used for two probes of a trace, so an answer to an  *)
(* earlier attempt or hop can never pass for the current one (trace.c:45).   *)
SeqNeverReused ==
  \A i, j \in DOMAIN probes : probes[i].seq = probes[j].seq => i = j

(* Every probe left with the TTL of the hop it is counted for, also after a  *)
(* failed setsockopt (trace.c:38-53).                                        *)
TtlMatchesSeq ==
  \A i \in DOMAIN probes : \E a \in 1..TraceAttempts :
    probes[i].seq = Seq16(probes[i].ttl, a)

ProbesOf(h) == {i \in DOMAIN probes : probes[i].ttl = h}

Passed(h) == h < hop \/ (h = hop /\ pc \in {"next", "closed"})

TimedOutOrHidden(h) == \A i \in DOMAIN rows : rows[i].hop = h => rows[i].status = "TIMEOUT"

(* A hop that was passed without a row, or with a timeout row, was given     *)
(* every configured attempt and answered none of them (trace.c:42-64).       *)
OmittedHopsTimedOut ==
  \A h \in Hops : Passed(h) /\ TimedOutOrHidden(h) =>
    /\ \A i \in ProbesOf(h) : probes[i].status = "TIMEOUT"
    /\ {probes[i].seq : i \in ProbesOf(h)} = {Seq16(h, a) : a \in 1..TraceAttempts}

(* Rows are in the order of the hops, each hop at most once; a destination   *)
(* is the last row, nothing is probed behind it, and with show_timeouts no   *)
(* hop is missing (trace.c:33-77).                                           *)
RowsFollowRoute ==
  /\ \A i, j \in DOMAIN rows : i < j => rows[i].hop < rows[j].hop
  /\ \A i \in DOMAIN rows : rows[i].status = "DESTINATION" =>
       /\ i = Len(rows)
       /\ \A k \in DOMAIN probes : probes[k].ttl <= rows[i].hop
  /\ show_timeouts => \A i \in DOMAIN rows : rows[i].hop = i

(* The CSV stream was handed the rows of the terminal: while the run goes on *)
(* at most the row just printed is not yet, and when it succeeds all were    *)
(* taken without an error; a run whose stream reported an error at a row     *)
(* ends there, with nothing printed behind it and not as a success           *)
(* (trace.c:66-71).  This says nothing of the file: the stream is buffered,  *)
(* and nobody looks at what its fclose returns (runtime.c:66).               *)
CsvFollowsTerminal ==
  csv => /\ csvAccepted = SubSeq(rows, 1, Len(csvAccepted))
         /\ Len(rows) - Len(csvAccepted) \in IF pc = "csv" \/ exit = "ERR_IO" THEN {1} ELSE {0}
=============================================================================
