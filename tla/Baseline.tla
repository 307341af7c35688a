------------------------------ MODULE Baseline ------------------------------
(***************************************************************************)
(* A baseline between two runs (baseline.c): one run writes what it has    *)
(* measured line by line and may be cut short at any byte; somebody may    *)
(* edit the file; a later run reads it line by line and compares its own   *)
(* measurement with it.                                                    *)
(* Session models the same file from the outside: who opens it when, and   *)
(* what a failure leaves of it.                                            *)
(*                                                                         *)
(* A line is a record of its first field, the number of its fields and     *)
(* what they say.  The order of measuring and reading in the second run    *)
(* makes no difference, so its measurement is chosen when it is used.      *)
(***************************************************************************)
EXTENDS MtrStats, MtrQuality, Folding, SequencesExt

CONSTANTS
  MaxHop,     \* ROUTEPROBE_BASELINE_MAX_HOPS, and the largest config->max_hop
  Count,      \* bound: the largest config->count
  Results,    \* bound: the results a probe may have
  Blanks,     \* bound: the lines an empty line may be added behind
  Tenth       \* ticks per tenth of a millisecond

ASSUME MaxHopAssumption == MaxHop \in Nat \ {0}
ASSUME CountAssumption == Count \in Nat \ {0}
ASSUME ResultsAssumption == Results \subseteq TraceResult
ASSUME BlanksAssumption == Blanks \subseteq Nat
ASSUME TenthAssumption == Tenth \in Nat \ {0} /\ Ms = 10 * Tenth

VARIABLES
  old,          \* what the first run has measured: hop -> MtrHopStats
  file,         \* the lines of the baseline file
  torn,         \* ghost: the first run did not write all of it
  edited,       \* ghost: somebody changed it before the second run
  pc,           \* "write", "read", "refused", "accepted", "done"
  pos,          \* lines read
  reading_hops, \* the line of column names has been read
  baseline,     \* the MtrBaseline restored so far
  current,      \* what the second run has measured, <<>> before it is used
  changes,      \* the list of changes printed
  diagnosis     \* the diagnosis printed

reader == <<pos, reading_hops, baseline>>
comparison == <<current, changes, diagnosis>>
vars == <<old, file, torn, edited, pc, reader, comparison>>

-----------------------------------------------------------------------------
(* Measurements: the statistics after 1..Count sweeps over at most m hops,   *)
(* as Mtr leaves them.                                                       *)

Sweeps(m) ==
  {s \in UNION {[1..k -> Results] : k \in 1..m} :
     /\ \A i \in 1..(Len(s) - 1) : ~destination_reached(s[i])
     /\ Len(s) = m \/ destination_reached(Last(s))}

AfterSweep(stats, s) ==
  [h \in DOMAIN stats |->
     IF h \in DOMAIN s THEN mtr_hop_stats_record(stats[h], s[h]) ELSE stats[h]]

SweepOver == [p \in Seq(HopStats) \X Seq(TraceResult) |-> AfterSweep(p[1], p[2])]

MeasuredOver(m) ==
  {Fold(SweepOver, [h \in 1..m |-> mtr_hop_stats_init(h)], sweeps) :
     sweeps \in UNION {[1..n -> Sweeps(m)] : n \in 1..Count}}

Measurements == UNION {MeasuredOver(m) : m \in 1..MaxHop}

-----------------------------------------------------------------------------
(* The file. *)

(* "%.1f": the nearest tenth, either one half way between two, since that    *)
(* depends on the binary fraction the quotient has become.                   *)
Rounded(q, unit) ==
  LET low == q[1] \div (q[2] * unit)
  IN {t \in {low, low + 1} :
        /\ 2 * (q[1] - t * q[2] * unit) <= q[2] * unit
        /\ 2 * (t * q[2] * unit - q[1]) <= q[2] * unit}

trace_status_name(status) ==
  CASE status = "HOP" -> "hop"
    [] status = "DESTINATION" -> "destination"
    [] status = "TIMEOUT" -> "timeout"
    [] status = "ERROR" -> "error"
    [] OTHER -> "unknown"

parse_trace_status(text) ==
  CASE text = "hop" -> "HOP"
    [] text = "destination" -> "DESTINATION"
    [] text = "timeout" -> "TIMEOUT"
    [] text = "error" -> "ERROR"
    [] OTHER -> "UNKNOWN"

MetaLine(kind, value) == [kind |-> kind, fields |-> 2, value |-> value]

(* The rows fprintf may make of s; percentages in tenths of a percent. *)
HopLines(s) ==
  [kind : {"row"}, fields : {11},
   value :
     [hop : {s.hop}, remote_ip : {s.remote_ip}, sent : {s.sent}, received : {s.received},
      no_reply : Rounded(<<1000 * s.no_reply[1], s.no_reply[2]>>, 1),
      last_ms : Rounded(<<s.last_ms, 1>>, Tenth), avg_ms : Rounded(s.avg_ms, Tenth),
      best_ms : Rounded(<<s.best_ms, 1>>, Tenth), worst_ms : Rounded(<<s.worst_ms, 1>>, Tenth),
      jitter_ms : Rounded(s.jitter_ms, Tenth), status : {trace_status_name(s.status)}]]

(* Mutant: hops without an answer are left out. *)
TakeAnswered ==
  [p \in Seq(HopStats) \X HopStats |-> IF p[2].received > 0 THEN Append(p[1], p[2]) ELSE p[1]]

(* The hops that were probed. *)
TakeProbed ==
  [p \in Seq(HopStats) \X HopStats |-> IF p[2].sent > 0 THEN Append(p[1], p[2]) ELSE p[1]]

(* One row for each of them. *)
Rows(stats) ==
  LET probed == Fold(TakeProbed, <<>>, stats) IN [i \in DOMAIN probed |-> HopLines(probed[i])]

(* What write_mtr_baseline_stream writes: for every line the set of what it  *)
(* may be.                                                                   *)
Lines(stats) ==
  << {MetaLine("magic", "version 1")}, {MetaLine("target", "target")},
     {MetaLine("resolved_ip", "target_ip")}, {MetaLine("captured_at", "now")},
     {MetaLine("hop_count", Len(stats))}, {MetaLine("columns", "names")} >> \o Rows(stats)

(* What can be left of a line that is cut off before its newline and says    *)
(* less than it did: a key without a value or with part of one, a row with   *)
(* too few fields or with part of its last one.                              *)
Cut(line) ==
  CASE line.kind = "row" ->
         {[line EXCEPT !.fields = 10], [line EXCEPT !.value.status = "cut"]}
    [] line.kind \in {"target", "resolved_ip", "captured_at"} ->
         {[line EXCEPT !.fields = 1], [line EXCEPT !.value = "cut"]}
    [] line.kind = "hop_count" ->
         {[line EXCEPT !.fields = 1]} \cup
         {[line EXCEPT !.value = n] : n \in {line.value \div 10, line.value \div 100} \ {0}}
    [] line.kind \in {"magic", "columns"} -> {[line EXCEPT !.kind = "cut"]}

-----------------------------------------------------------------------------
(* The reader. *)

(* Mutant: only the lower bound of a hop number is tested. *)
PositiveHop(hop) == hop >= 1

valid_hop(hop) == hop \in 1..MaxHop

(* memset: zero bytes read as status TIMEOUT. *)
Cleared == [mtr_hop_stats_init(0) EXCEPT !.status = "TIMEOUT"]

EmptyBaseline ==
  [target |-> "", resolved_ip |-> "", captured_at |-> "", hop_count |-> 0,
   hops |-> [h \in 1..MaxHop |-> Cleared]]

(* parse_metadata_line returns -1: a number of hops out of range. *)
MetadataFails(line) ==
  line.kind = "hop_count" /\ ~(line.fields < 2) /\ line.value \notin 0..MaxHop

parse_metadata_line(line, b) ==
  IF line.fields < 2 THEN b
  ELSE CASE line.kind = "target" -> [b EXCEPT !.target = line.value]
         [] line.kind = "resolved_ip" -> [b EXCEPT !.resolved_ip = line.value]
         [] line.kind = "captured_at" -> [b EXCEPT !.captured_at = line.value]
         [] line.kind = "hop_count" -> [b EXCEPT !.hop_count = line.value]
         [] OTHER -> b

(* Mutant: fields are split with strtok, which skips an empty address. *)
StrtokFields(line) == IF line.value.remote_ip = "" THEN line.fields - 1 ELSE line.fields

split_tab_fields(line) == line.fields

(* parse_hop_line returns -1: too few fields, or no such hop. *)
HopLineFails(line) == split_tab_fields(line) < 11 \/ ~valid_hop(line.value.hop)

(* Mutant: every row makes the baseline one hop longer. *)
HopCountByRow(count, hop) == count + 1

HopCountAfter(count, hop) == IF count < hop THEN hop ELSE count

(* A row that does not fail.  What has not been saved stays cleared; the      *)
(* flags are rebuilt from the number of answers.                             *)
parse_hop_line(line, b) ==
  LET v == line.value IN
  [b EXCEPT
     !.hop_count = HopCountAfter(b.hop_count, v.hop),
     !.hops[v.hop] =
       [Cleared EXCEPT
          !.hop = v.hop, !.remote_ip = v.remote_ip, !.sent = v.sent, !.received = v.received,
          !.no_reply = <<v.no_reply, 1000>>, !.last_ms = v.last_ms * Tenth,
          !.avg_ms = <<v.avg_ms * Tenth, 1>>, !.best_ms = v.best_ms * Tenth,
          !.worst_ms = v.worst_ms * Tenth, !.jitter_ms = <<v.jitter_ms * Tenth, 1>>,
          !.status = parse_trace_status(v.status),
          !.has_rtt = v.received > 0, !.has_jitter = v.received > 1]]

Init ==
  /\ old \in Measurements
  /\ file = <<>>
  /\ torn = FALSE
  /\ edited = FALSE
  /\ pc = "write"
  /\ pos = 0
  /\ reading_hops = FALSE
  /\ baseline = EmptyBaseline
  /\ current = <<>>
  /\ changes = <<>>
  /\ diagnosis = evaluate_mtr_quality(NoBaseline, old, Len(old))

-----------------------------------------------------------------------------
NextLine == Lines(old)[Len(file) + 1]

WriteLine ==
  /\ pc = "write"
  /\ Len(file) < Len(Lines(old))
  /\ \E line \in NextLine : file' = Append(file, line)
  /\ UNCHANGED <<old, torn, edited, pc, reader, comparison>>

(* The first run writes no more: killed, out of space, or an fprintf failed.  *)
(* Its buffer has been passed on up to some byte.                            *)
Interrupted ==
  /\ pc = "write"
  /\ Len(file) < Len(Lines(old))
  /\ file' \in {file} \cup UNION {{Append(file, c) : c \in Cut(line)} : line \in NextLine}
  /\ torn' = TRUE
  /\ pc' = "read"
  /\ UNCHANGED <<old, edited, reader, comparison>>

Saved ==
  /\ pc = "write"
  /\ Len(file) = Len(Lines(old))
  /\ pc' = "read"
  /\ UNCHANGED <<old, file, torn, edited, reader, comparison>>

(* Somebody edits the file before the second run opens it: the number of     *)
(* hops or the hop of a row gets out of range, or an empty line is added.    *)
Blank == [kind |-> "blank", fields |-> 0, value |-> ""]

Edited ==
  /\ pc = "read" /\ pos = 0
  /\ ~edited
  /\ \/ \E i \in DOMAIN file, n \in {-1, MaxHop + 1} :
          file[i].kind = "hop_count" /\ file' = [file EXCEPT ![i].value = n]
     \/ \E i \in DOMAIN file, n \in {0, MaxHop + 1} :
          file[i].kind = "row" /\ file' = [file EXCEPT ![i].value.hop = n]
     \/ \E i \in DOMAIN file \cap Blanks : file' = InsertAt(file, i + 1, Blank)
  /\ edited' = TRUE
  /\ UNCHANGED <<old, torn, pc, reader, comparison>>

(* fgets has a line for the reader. *)
HasLine == pc = "read" /\ pos < Len(file)
Line == file[pos + 1]

ReadMagic ==
  /\ HasLine /\ pos = 0
  /\ Line.kind = "magic"
  /\ pos' = 1
  /\ UNCHANGED <<old, file, torn, edited, pc, reading_hops, baseline, comparison>>

ReadBlank ==
  /\ HasLine /\ pos > 0
  /\ Line.kind = "blank"
  /\ pos' = pos + 1
  /\ UNCHANGED <<old, file, torn, edited, pc, reading_hops, baseline, comparison>>

ReadColumns ==
  /\ HasLine /\ pos > 0
  /\ Line.kind = "columns"
  /\ reading_hops' = TRUE
  /\ pos' = pos + 1
  /\ UNCHANGED <<old, file, torn, edited, pc, baseline, comparison>>

(* A line of neither kind. *)
HasEntry == HasLine /\ pos > 0 /\ Line.kind \notin {"blank", "columns"}

ReadMetadata ==
  /\ HasEntry /\ ~reading_hops
  /\ ~MetadataFails(Line)
  /\ baseline' = parse_metadata_line(Line, baseline)
  /\ pos' = pos + 1
  /\ UNCHANGED <<old, file, torn, edited, pc, reading_hops, comparison>>

ReadHop ==
  /\ HasEntry /\ reading_hops
  /\ ~HopLineFails(Line)
  /\ baseline' = parse_hop_line(Line, baseline)
  /\ pos' = pos + 1
  /\ UNCHANGED <<old, file, torn, edited, pc, reading_hops, comparison>>

(* No first line, another first line, or a line that fails. *)
Refuse ==
  /\ pc = "read"
  /\ \/ pos = 0 /\ file = <<>>
     \/ HasLine /\ pos = 0 /\ Line.kind # "magic"
     \/ HasEntry /\ ~reading_hops /\ MetadataFails(Line)
     \/ HasEntry /\ reading_hops /\ HopLineFails(Line)
  /\ pc' = "refused"
  /\ UNCHANGED <<old, file, torn, edited, reader, comparison>>

(* End of file.  An error while reading is CompareReadFails of Session. *)
ReadAll ==
  /\ pc = "read"
  /\ pos > 0
  /\ pos = Len(file)
  /\ pc' = "accepted"
  /\ UNCHANGED <<old, file, torn, edited, reader, comparison>>

(* print_mtr_baseline_comparison with a measurement of the second run. *)
Compare(measured) ==
  /\ pc = "accepted"
  /\ current' = measured
  /\ changes' = print_baseline_change_list(baseline, measured, Len(measured))
  /\ diagnosis' = evaluate_mtr_quality(baseline, measured, Len(measured))
  /\ pc' = "done"
  /\ UNCHANGED <<old, file, torn, edited, reader>>

Finished == pc \in {"refused", "done"} /\ UNCHANGED vars

(* What the two runs do. *)
Steps ==
  \/ WriteLine \/ Interrupted \/ Saved
  \/ ReadMagic \/ ReadBlank \/ ReadColumns \/ ReadMetadata \/ ReadHop
  \/ Refuse \/ ReadAll
  \/ \E measured \in Measurements : Compare(measured)
  \/ Finished

Next == Steps \/ Edited

Spec == Init /\ [][Next]_vars

-----------------------------------------------------------------------------
(* Properties. *)

Level == {"NORMAL", "CAUTION", "POOR"}

(* Types of the file, of the MtrBaseline and of the diagnosis, for an edited *)
(* file as well: whatever its numbers are, no row is stored outside of the   *)
(* array and no hop outside of it is compared (baseline.c:161-163, 198-200,  *)
(* 444-496).                                                                 *)
TypeOK ==
  /\ pc \in {"write", "read", "refused", "accepted", "done"}
  /\ pos \in 0..Len(file) /\ Len(file) <= 6 + MaxHop + (IF edited THEN 1 ELSE 0)
  /\ torn \in BOOLEAN /\ edited \in BOOLEAN /\ reading_hops \in BOOLEAN
  /\ baseline.hop_count \in 0..MaxHop
  /\ DOMAIN baseline.hops = 1..MaxHop
  /\ \A h \in 1..MaxHop : baseline.hops[h].hop \in {0, h}
  /\ \A i \in DOMAIN changes :
       /\ changes[i].hop \in 1..MaxHop
       /\ changes[i].what \in {"missing", "new", "address", "no_reply", "rtt"}
  /\ diagnosis.level \in Level /\ diagnosis.score \in 0..17

Probed(stats) == {h \in DOMAIN stats : stats[h].sent > 0}
Restored == Probed(baseline.hops)

(* q is r, but for half a unit of rounding. *)
Near(q, r, unit) ==
  /\ 2 * (q[1] * r[2] - r[1] * q[2]) <= unit * q[2] * r[2]
  /\ 2 * (r[1] * q[2] - q[1] * r[2]) <= unit * q[2] * r[2]

RestoredHop(h) ==
  LET s == old[h]  r == baseline.hops[h] IN
  /\ r.hop = h /\ r.remote_ip = s.remote_ip
  /\ r.sent = s.sent /\ r.received = s.received
  /\ r.has_rtt = s.has_rtt /\ r.has_jitter = s.has_jitter
  /\ Near(<<1000 * r.no_reply[1], r.no_reply[2]>>, <<1000 * s.no_reply[1], s.no_reply[2]>>, 1)
  /\ Near(<<r.last_ms, 1>>, <<s.last_ms, 1>>, Tenth) /\ Near(r.avg_ms, s.avg_ms, Tenth)
  /\ Near(<<r.best_ms, 1>>, <<s.best_ms, 1>>, Tenth)
  /\ Near(<<r.worst_ms, 1>>, <<s.worst_ms, 1>>, Tenth)
  /\ Near(r.jitter_ms, s.jitter_ms, Tenth)
  /\ r.status = s.status \/ (torn /\ h + 6 = Len(file) /\ r.status = "UNKNOWN")

(* A baseline that nobody edits comes back as it was measured, up to the     *)
(* rounding to a tenth, hops without an answer included.  A torn file gives  *)
(* its first hops or is refused, and only a torn file is refused; the one    *)
(* hop that can come back changed is the last row, with an unknown status    *)
(* (baseline.c:108-256).                                                     *)
RestoredFaithfully ==
  /\ ~edited /\ pc \in {"accepted", "done"} =>
       /\ \E k \in 0..MaxHop : Restored = 1..k
       /\ Restored \subseteq Probed(old)
       /\ ~torn => Restored = Probed(old) /\ baseline.hop_count = Len(old)
       /\ \A h \in Restored : RestoredHop(h)
  /\ ~edited /\ pc = "refused" =>
       torn /\ (file = <<>> \/ Last(file).kind = "cut" \/ Last(file).fields = 10)

(* A run that is compared with its own measurement shows no change, and the  *)
(* rounding in the file does not alter its diagnosis (baseline.c:332-496).   *)
OwnBaselineIsQuiet ==
  pc = "done" /\ ~torn /\ ~edited /\ current = old =>
    /\ changes = <<>>
    /\ diagnosis.score = evaluate_mtr_quality(NoBaseline, old, Len(old)).score

Listed(what) == {changes[i].hop : i \in {i \in DOMAIN changes : changes[i].what = what}}

(* The list of changes is complete and says nothing twice: a hop of either   *)
(* run that the other does not have is missing or new; a hop of both is      *)
(* listed when its address has changed, when 5 per cent more of its probes   *)
(* went unanswered or its mean has grown by 20 ms, and for nothing else, up  *)
(* to the tenth the baseline is rounded to.  A hop is called new though the  *)
(* baseline had it only when the file was torn (baseline.c:444-496).         *)
ChangesComplete ==
  pc = "done" /\ ~edited =>
    LET both == Restored \cap Probed(current) IN
    /\ IsInjective(changes)
    /\ Listed("missing") = Restored \ Probed(current)
    /\ Listed("new") = Probed(current) \ Restored
    /\ Listed("missing") = {} \/ Listed("new") = {}
    /\ ~torn => Listed("new") \cap Probed(old) = {}
    /\ Listed("address") \cup Listed("no_reply") \cup Listed("rtt") \subseteq both
    /\ \A h \in both :
         LET s == old[h]  t == current[h]
             grown == Minus(t.avg_ms, s.avg_ms)
             lost == Minus(t.no_reply, s.no_reply)
             tenths == <<1000 * lost[1], lost[2]>>
         IN
         /\ h \in Listed("address") <=>
              "" \notin {s.remote_ip, t.remote_ip} /\ s.remote_ip # t.remote_ip
         /\ h \in Listed("no_reply") => AtLeast(tenths, 50 - 1)
         /\ AtLeast(tenths, 50 + 1) => h \in Listed("no_reply")
         /\ h \in Listed("rtt") =>
              s.has_rtt /\ t.has_rtt /\ AtLeast(grown, 20 * Ms - Tenth)
         /\ s.has_rtt /\ t.has_rtt /\ AtLeast(grown, 20 * Ms + Tenth) => h \in Listed("rtt")

(* The diagnosis says NORMAL only of a path whose destination answers,       *)
(* nearly always, in time and evenly.  A baseline can only make it worse,    *)
(* and a mean that has grown by more than 80 ms and to more than twice what  *)
(* it was shows, unless the baseline's was so small that it was saved as 0.0 *)
(* (baseline.c:332-399, README.md:75-84).                                    *)
DiagnosisIsSound ==
  pc = "done" /\ ~edited =>
    LET d == current[diagnosis.destination]
        base == old[diagnosis.baseline_destination]
        grown == Minus(d.avg_ms, base.avg_ms)
    IN /\ diagnosis.cycles = current[1].sent
       /\ diagnosis.score >= evaluate_mtr_quality(NoBaseline, current, Len(current)).score
       /\ diagnosis.destination = 0 => diagnosis.level = "POOR"
       /\ diagnosis.level = "NORMAL" =>
            /\ \E i \in 1..Len(current) : current[i].status = "DESTINATION"
            /\ 100 * (d.sent - d.received) <= d.sent
            /\ ~Over(d.avg_ms, 180 * Ms)
            /\ ~Over(d.jitter_ms, 30 * Ms)
       /\ /\ diagnosis.destination > 0 /\ diagnosis.baseline_destination > 0
          /\ AtLeast(grown, 80 * Ms + Tenth)
          /\ AtLeast(Minus(grown, base.avg_ms), 2 * Tenth)
          /\ ~Near(base.avg_ms, <<0, 1>>, Tenth)
          => diagnosis.level # "NORMAL"
=============================================================================
