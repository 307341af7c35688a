--------------------------- MODULE BaselineProofs ---------------------------
(***************************************************************************)
(* Proofs about Baseline, for every number of hops and cycles and every    *)
(* set of results: what a measurement is, what of it is in the file and    *)
(* what comes back.                                                        *)
(***************************************************************************)
EXTENDS Baseline, StatsProofs

(* The quotients of a hop, with the numbers they are made of. *)
Quotients(s) ==
  /\ s.no_reply = IF s.sent = 0 THEN <<0, 1>> ELSE <<s.sent - s.received, s.sent>>
  /\ s.avg_ms = IF s.received = 0 THEN <<0, 1>> ELSE <<s.total_ms, s.received>>
  /\ s.jitter_ms = IF s.received <= 1 THEN <<0, 1>> ELSE <<s.jitter_total_ms, s.received - 1>>

LEMMA EmptyQuotients == \A h \in Nat : Quotients(mtr_hop_stats_init(h))
  BY DEF Quotients, mtr_hop_stats_init

LEMMA QuotientsStep ==
  ASSUME NEW s \in HopStats, NEW r \in TraceResult, FlagsAgree(s), Quotients(s)
  PROVE  LET t == mtr_hop_stats_record(s, r) IN
         Quotients(t) /\ t.hop = s.hop /\ t.sent = s.sent + 1
<1> DEFINE t == mtr_hop_stats_record(s, r)
<1>1. s.received \in Nat /\ s.sent \in Nat /\ s.received <= s.sent
  BY Fields DEF FlagsAgree
<1>2. CASE trace_result_has_rtt(r)
  <2>1. Recorded(t, s, r)
    BY <1>1, <1>2, RecordedFields
  <2> HIDE DEF t
  <2>2. s.has_previous_ms <=> s.received > 0
    BY DEF FlagsAgree
  <2>3. /\ t.sent = s.sent + 1 /\ t.received = s.received + 1
        /\ t.no_reply = <<s.sent + 1 - t.received, s.sent + 1>>
        /\ t.avg_ms = <<t.total_ms, t.received>>
        /\ s.has_previous_ms => t.jitter_ms = <<t.jitter_total_ms, t.received - 1>>
        /\ ~s.has_previous_ms => t.jitter_ms = s.jitter_ms
        /\ t.hop = s.hop
    BY <2>1 DEF Recorded
  <2>4. s.received = 0 => s.jitter_ms = <<0, 1>>
    BY DEF Quotients
  <2>5. (t.received <= 1 <=> s.received = 0) /\ t.sent # 0 /\ t.received # 0
    BY <1>1, <2>3
  <2>6. t.jitter_ms = IF t.received <= 1 THEN <<0, 1>> ELSE <<t.jitter_total_ms, t.received - 1>>
    BY <1>1, <2>2, <2>3, <2>4, <2>5
  <2>7. t.no_reply = <<t.sent - t.received, t.sent>>
    BY <1>1, <2>3
  <2>8. Quotients(t)
    BY <2>3, <2>5, <2>6, <2>7 DEF Quotients
  <2> QED BY <2>3, <2>8 DEF t
<1>3. CASE ~trace_result_has_rtt(r)
  <2>1. Unrecorded(t, s, r)
    BY <1>1, <1>3, UnrecordedFields
  <2> HIDE DEF t
  <2>2. /\ t.sent = s.sent + 1 /\ t.received = s.received
        /\ t.no_reply = <<s.sent + 1 - t.received, s.sent + 1>>
        /\ t.avg_ms = s.avg_ms /\ t.jitter_ms = s.jitter_ms
        /\ t.total_ms = s.total_ms /\ t.jitter_total_ms = s.jitter_total_ms
        /\ t.hop = s.hop
    BY <2>1 DEF Unrecorded
  <2>3. t.sent # 0 /\ t.no_reply = <<t.sent - t.received, t.sent>>
    BY <1>1, <2>2
  <2>4. Quotients(t)
    BY <2>2, <2>3 DEF Quotients
  <2> QED BY <2>2, <2>4 DEF t
<1> QED BY <1>2, <1>3

-----------------------------------------------------------------------------
(* Measurements. *)

(* Statistics over m hops, no hop probed more often than one before it. *)
SweptTable(m) ==
  {x \in [1..m -> HopStats] :
     /\ \A h \in 1..m : x[h].hop = h /\ FlagsAgree(x[h]) /\ Quotients(x[h])
     /\ \A g, h \in 1..m : g <= h => x[h].sent <= x[g].sent}

LEMMA EmptyTable == \A m \in Nat : [h \in 1..m |-> mtr_hop_stats_init(h)] \in SweptTable(m)
<1> SUFFICES ASSUME NEW m \in Nat PROVE [h \in 1..m |-> mtr_hop_stats_init(h)] \in SweptTable(m)
  OBVIOUS
<1>1. ASSUME NEW h \in 1..m
      PROVE  LET s == mtr_hop_stats_init(h) IN
             s \in HopStats /\ s.hop = h /\ s.sent = 0 /\ FlagsAgree(s) /\ Quotients(s)
  <2>1. h \in Nat
    OBVIOUS
  <2>2. mtr_hop_stats_init(h).hop = h /\ mtr_hop_stats_init(h).sent = 0
    BY DEF mtr_hop_stats_init
  <2> QED BY <2>1, <2>2, EmptyStats, EmptyQuotients
<1> QED BY <1>1 DEF SweptTable

LEMMA SweepType ==
  ASSUME NEW m \in Nat, NEW s \in Sweeps(m)
  PROVE  /\ s \in Seq(TraceResult) /\ Len(s) \in 1..m
         /\ DOMAIN s = 1..Len(s) /\ \A h \in DOMAIN s : s[h] \in TraceResult
<1>1. PICK k \in 1..m : s \in [1..k -> Results]
  BY DEF Sweeps
<1>2. k \in Nat /\ Results \subseteq TraceResult
  BY ResultsAssumption
<1>3. s \in Seq(TraceResult) /\ Len(s) = k
  BY <1>1, <1>2
<1> QED BY <1>1, <1>3

LEMMA SweepStep ==
  ASSUME NEW m \in Nat, NEW x \in SweptTable(m), NEW s \in Sweeps(m)
  PROVE  /\ Stepped(SweepOver, x, s) \in SweptTable(m)
         /\ m > 0 => Stepped(SweepOver, x, s)[1].sent > 0
<1> DEFINE y == [h \in 1..m |-> IF h \in DOMAIN s THEN mtr_hop_stats_record(x[h], s[h]) ELSE x[h]]
           n == Len(s)
<1>1. /\ s \in Seq(TraceResult) /\ n \in 1..m
      /\ DOMAIN s = 1..n /\ \A h \in DOMAIN s : s[h] \in TraceResult
  BY SweepType
<1>2. /\ x \in [1..m -> HopStats]
      /\ \A h \in 1..m : x[h].hop = h /\ FlagsAgree(x[h]) /\ Quotients(x[h])
      /\ \A g, h \in 1..m : g <= h => x[h].sent <= x[g].sent
  BY DEF SweptTable
<1>3. Stepped(SweepOver, x, s) = y
  <2>1. x \in Seq(HopStats) /\ DOMAIN x = 1..m
    BY <1>2
  <2> QED BY <1>1, <2>1 DEF Stepped, SweepOver, AfterSweep
<1>4. ASSUME NEW h \in 1..m
      PROVE  /\ y[h] \in HopStats /\ y[h].hop = h /\ FlagsAgree(y[h]) /\ Quotients(y[h])
             /\ x[h].sent \in Nat
             /\ y[h].sent = IF h <= n THEN x[h].sent + 1 ELSE x[h].sent
  <2>1. x[h] \in HopStats /\ x[h].hop = h /\ FlagsAgree(x[h]) /\ Quotients(x[h])
    BY <1>2
  <2>2. x[h].sent \in Nat
    BY <2>1, Fields
  <2>3. CASE h <= n
    <3>1. h \in DOMAIN s /\ s[h] \in TraceResult
      BY <1>1, <2>3
    <3>2. y[h] = mtr_hop_stats_record(x[h], s[h])
      BY <3>1
    <3> QED BY <2>1, <2>2, <2>3, <3>1, <3>2, FlagsStep, QuotientsStep
  <2>4. CASE ~(h <= n)
    <3>1. y[h] = x[h]
      BY <1>1, <2>4
    <3> QED BY <2>1, <2>2, <2>4, <3>1
  <2> QED BY <2>3, <2>4
<1>5. y = [h \in 1..m |-> y[h]]
  OBVIOUS
<1> HIDE DEF y
<1>6. ASSUME NEW g \in 1..m, NEW h \in 1..m, g <= h PROVE y[h].sent <= y[g].sent
  <2>1. x[h].sent <= x[g].sent
    BY <1>2, <1>6
  <2> QED BY <1>1, <1>4, <1>6, <2>1
<1>7. y \in SweptTable(m)
  BY <1>4, <1>5, <1>6 DEF SweptTable
<1>8. m > 0 => y[1].sent > 0
  <2>1. m > 0 => 1 \in 1..m /\ 1 <= n
    BY <1>1
  <2> QED BY <1>4, <2>1
<1> QED BY <1>3, <1>7, <1>8

(* What a measurement is: the first hop at least has been probed. *)
IsMeasurement(x) ==
  \E m \in 1..MaxHop : x \in SweptTable(m) /\ x[1].sent > 0

LEMMA MeasurementsSound == \A x \in Measurements : IsMeasurement(x)
<1> SUFFICES ASSUME NEW x \in Measurements PROVE IsMeasurement(x)
  OBVIOUS
<1>1. PICK m \in 1..MaxHop : x \in MeasuredOver(m)
  BY DEF Measurements
<1>2. m \in Nat /\ m > 0
  BY MaxHopAssumption
<1> DEFINE empty == [h \in 1..m |-> mtr_hop_stats_init(h)]
           E == Sweeps(m)
<1>3. PICK n \in 1..Count : \E sweeps \in [1..n -> E] : x = Fold(SweepOver, empty, sweeps)
  BY <1>1 DEF MeasuredOver
<1>4. PICK sweeps \in [1..n -> E] : x = Fold(SweepOver, empty, sweeps)
  BY <1>3
<1>5. empty \in SweptTable(m)
  BY <1>2, EmptyTable
<1>6. \A d \in SweptTable(m) : \A s \in E :
        Stepped(SweepOver, d, s) \in SweptTable(m) /\ Stepped(SweepOver, d, s)[1].sent > 0
  BY <1>2, SweepStep
<1>7. n \in Nat /\ n > 0
  BY CountAssumption
<1> HIDE DEF E, empty
<1> DEFINE front == SubSeq(sweeps, 1, n - 1)
<1>8. /\ sweeps \in Seq(E) /\ Len(sweeps) = n
      /\ front \in Seq(E) /\ sweeps[n] \in E
  BY <1>7
<1>9. sweeps = Append(front, sweeps[n])
  <2>1. /\ Append(front, sweeps[n]) \in Seq(E) /\ Len(Append(front, sweeps[n])) = n
        /\ \A i \in 1..n : Append(front, sweeps[n])[i] = sweeps[i]
    BY <1>7, <1>8
  <2> QED BY <1>8, <2>1
<1> DEFINE last == sweeps[n]
           before == Fold(SweepOver, empty, front)
<1>a. front \in Seq(E) /\ last \in E /\ x = Fold(SweepOver, empty, Append(front, last))
  BY <1>4, <1>8, <1>9
<1> HIDE DEF front, last
<1>10. x = Stepped(SweepOver, before, last)
  BY <1>a, FoldAppend
<1>11. \A s \in Seq(E) : Fold(SweepOver, empty, s) \in SweptTable(m)
  BY <1>5, <1>6, FoldType
<1>12. x \in SweptTable(m) /\ x[1].sent > 0
  BY <1>6, <1>a, <1>10, <1>11
<1> QED BY <1>12 DEF IsMeasurement

-----------------------------------------------------------------------------
(* The lines of a file. *)

(* The hops that were probed are the first k. *)
Deep(s, k) == k \in 0..Len(s) /\ \A h \in 1..Len(s) : s[h].sent > 0 <=> h <= k

SentLess(s) == \A g, h \in 1..Len(s) : g <= h => s[h].sent <= s[g].sent

ProbedFirst(s, p) == Deep(s, Len(p)) /\ \A i \in 1..Len(p) : p[i] = s[i]

LEMMA TakeProbedStep ==
  ASSUME NEW p \in Seq(HopStats), NEW x \in HopStats
  PROVE  Stepped(TakeProbed, p, x) = IF x.sent > 0 THEN Append(p, x) ELSE p
  BY DEF Stepped, TakeProbed

LEMMA ProbedType == \A s \in Seq(HopStats) : Fold(TakeProbed, <<>>, s) \in Seq(HopStats)
<1>1. \A p \in Seq(HopStats) : \A x \in HopStats : Stepped(TakeProbed, p, x) \in Seq(HopStats)
  BY TakeProbedStep
<1>2. <<>> \in Seq(HopStats)
  OBVIOUS
<1> QED BY <1>1, <1>2, FoldType

LEMMA ProbedAreFirst ==
  \A s \in Seq(HopStats) : SentLess(s) => ProbedFirst(s, Fold(TakeProbed, <<>>, s))
<1> DEFINE Good(s) == SentLess(s) => ProbedFirst(s, Fold(TakeProbed, <<>>, s))
           S == {s \in Seq(HopStats) : Good(s)}
<1>1. <<>> \in S
  <2>1. <<>> \in Seq(HopStats) /\ Len(<<>>) = 0 /\ Fold(TakeProbed, <<>>, <<>>) = <<>>
    BY FoldEmpty
  <2> QED BY <2>1 DEF ProbedFirst, Deep
<1>2. ASSUME NEW s \in Seq(HopStats), Good(s), NEW x \in HopStats PROVE Good(Append(s, x))
  <2> DEFINE u == Append(s, x)
             p == Fold(TakeProbed, <<>>, s)
             q == Fold(TakeProbed, <<>>, u)
             n == Len(s)
  <2>1. u \in Seq(HopStats) /\ Len(u) = n + 1 /\ n \in Nat /\ u[n + 1] = x /\ \A i \in 1..n : u[i] = s[i]
    BY Appended
  <2>2. p \in Seq(HopStats) /\ Len(p) \in Nat
    BY ProbedType
  <2>3. q = IF x.sent > 0 THEN Append(p, x) ELSE p
    BY <2>2, FoldAppend, TakeProbedStep
  <2>g. SentLess(s) => ProbedFirst(s, p)
    BY <1>2
  <2>a. \A i \in 1..n : s[i].sent \in Nat
    <3>1. \A i \in 1..n : s[i] \in HopStats
      OBVIOUS
    <3> QED BY <3>1, Fields
  <2>b. x.sent \in Nat
    BY Fields
  <2> HIDE DEF p, q, u
  <2> SUFFICES ASSUME SentLess(u) PROVE ProbedFirst(u, q)
    BY DEF p, q, u
  <2>4. SentLess(s)
    <3> SUFFICES ASSUME NEW g \in 1..n, NEW h \in 1..n, g <= h PROVE s[h].sent <= s[g].sent
      BY DEF SentLess
    <3>1. g \in 1..Len(u) /\ h \in 1..Len(u) /\ u[g] = s[g] /\ u[h] = s[h]
      BY <2>1
    <3> QED BY <3>1 DEF SentLess
  <2>5. /\ Len(p) \in 0..n
        /\ \A h \in 1..n : s[h].sent > 0 <=> h <= Len(p)
        /\ \A i \in 1..Len(p) : p[i] = s[i]
    BY <2>4, <2>g DEF ProbedFirst, Deep
  <2>6. CASE x.sent > 0
    <3>1. \A h \in 1..n : s[h].sent > 0
      <4> SUFFICES ASSUME NEW h \in 1..n PROVE s[h].sent > 0
        OBVIOUS
      <4>1. h \in 1..Len(u) /\ n + 1 \in 1..Len(u) /\ h <= n + 1
        BY <2>1
      <4>2. u[n + 1].sent <= u[h].sent
        BY <4>1 DEF SentLess
      <4> QED BY <2>1, <2>6, <2>a, <2>b, <4>2
    <3>2. Len(p) = n
      <4>1. n = 0 \/ n \in 1..n
        BY <2>1
      <4> QED BY <2>1, <2>5, <3>1, <4>1
    <3>3. /\ Len(q) = n + 1 /\ q[n + 1] = x
          /\ \A i \in 1..n : q[i] = p[i]
      BY <2>2, <2>3, <2>6, <3>2, Appended
    <3>4. ASSUME NEW i \in 1..(n + 1) PROVE q[i] = u[i] /\ u[i].sent > 0
      <4>1. i \in 1..n \/ i = n + 1
        BY <2>1
      <4>2. CASE i \in 1..n
        BY <2>1, <2>5, <3>1, <3>2, <3>3, <4>2
      <4>3. CASE i = n + 1
        BY <2>1, <2>6, <3>3, <4>3
      <4> QED BY <4>1, <4>2, <4>3
    <3> QED BY <2>1, <3>3, <3>4 DEF ProbedFirst, Deep
  <2>7. CASE ~(x.sent > 0)
    <3>1. q = p
      BY <2>3, <2>7
    <3>2. ASSUME NEW h \in 1..Len(u) PROVE u[h].sent > 0 <=> h <= Len(p)
      <4>1. h \in 1..n \/ h = n + 1
        BY <2>1
      <4>2. CASE h \in 1..n
        BY <2>1, <2>5, <4>2
      <4>3. CASE h = n + 1
        BY <2>1, <2>2, <2>5, <2>7, <4>3
      <4> QED BY <4>1, <4>2, <4>3
    <3>3. \A i \in 1..Len(p) : p[i] = u[i]
      BY <2>1, <2>5
    <3>4. Len(p) \in 0..Len(u)
      BY <2>1, <2>5
    <3> QED BY <3>1, <3>2, <3>3, <3>4 DEF ProbedFirst, Deep
  <2> QED BY <2>6, <2>7
<1> HIDE DEF Good
<1>3. ASSUME NEW s \in Seq(HopStats), s \in S PROVE \A x \in HopStats : Append(s, x) \in S
  BY <1>2, <1>3, Appended
<1> HIDE DEF S
<1>4. Seq(HopStats) \subseteq S
  BY <1>1, <1>3, SequenceInduction
<1> QED BY <1>4 DEF S, Good

LEMMA TableShape ==
  ASSUME NEW x, IsMeasurement(x)
  PROVE  /\ x \in Seq(HopStats) /\ Len(x) \in 1..MaxHop /\ DOMAIN x = 1..Len(x)
         /\ \A h \in 1..Len(x) :
              x[h] \in HopStats /\ x[h].hop = h /\ FlagsAgree(x[h]) /\ Quotients(x[h])
         /\ SentLess(x) /\ x[1].sent > 0
<1>1. PICK m \in 1..MaxHop : x \in SweptTable(m) /\ x[1].sent > 0
  BY DEF IsMeasurement
<1>2. m \in Nat
  BY MaxHopAssumption
<1>3. x \in [1..m -> HopStats]
  BY <1>1 DEF SweptTable
<1>4. x \in Seq(HopStats) /\ Len(x) = m /\ DOMAIN x = 1..m
  BY <1>2, <1>3
<1> QED BY <1>1, <1>3, <1>4 DEF SweptTable, SentLess

LEMMA RowsShape ==
  ASSUME NEW x, IsMeasurement(x)
  PROVE  \E k \in 1..Len(x) : Deep(x, k) /\ Rows(x) = [i \in 1..k |-> HopLines(x[i])]
<1> DEFINE p == Fold(TakeProbed, <<>>, x)
           k == Len(p)
<1>1. x \in Seq(HopStats) /\ Len(x) \in 1..MaxHop /\ SentLess(x) /\ x[1].sent > 0
  BY TableShape
<1>2. ProbedFirst(x, p) /\ p \in Seq(HopStats)
  BY <1>1, ProbedAreFirst, ProbedType
<1>0. Rows(x) = [i \in DOMAIN p |-> HopLines(p[i])]
  BY DEF Rows
<1> HIDE DEF p
<1>3. Deep(x, k) /\ \A i \in 1..k : p[i] = x[i]
  BY <1>2 DEF ProbedFirst
<1>4. k \in 1..Len(x)
  <2>1. 1 \in 1..Len(x) /\ k \in 0..Len(x) /\ Len(x) \in Nat
    BY <1>1, <1>3, MaxHopAssumption DEF Deep
  <2> QED BY <1>1, <1>3, <2>1 DEF Deep
<1>5. DOMAIN p = 1..k
  BY <1>2
<1>6. Rows(x) = [i \in 1..k |-> HopLines(x[i])]
  BY <1>0, <1>3, <1>5
<1> QED BY <1>3, <1>4, <1>6

LEMMA FunctionIsSequence ==
  ASSUME NEW U, NEW n \in Nat, NEW f \in [1..n -> U]
  PROVE  f \in Seq(U) /\ Len(f) = n
  OBVIOUS

LEMMA JoinedParts ==
  ASSUME NEW U, NEW a \in Seq(U), NEW b \in Seq(U)
  PROVE  /\ Joined(a, b) \in Seq(U) /\ Len(Joined(a, b)) = Len(a) + Len(b)
         /\ \A i \in 1..Len(a) : Joined(a, b)[i] = a[i]
         /\ \A i \in 1..Len(b) : Joined(a, b)[Len(a) + i] = b[i]
  BY DEF Joined

(* A line of the file of x that is not a row, and a row. *)
LinesInPlace(x, k) ==
  /\ Len(Lines(x)) = 6 + k
  /\ Lines(x)[1] = {MetaLine("magic", "version 1")}
  /\ Lines(x)[2] = {MetaLine("target", "target")}
  /\ Lines(x)[3] = {MetaLine("resolved_ip", "target_ip")}
  /\ Lines(x)[4] = {MetaLine("captured_at", "now")}
  /\ Lines(x)[5] = {MetaLine("hop_count", Len(x))}
  /\ Lines(x)[6] = {MetaLine("columns", "names")}
  /\ \A i \in 1..k : Lines(x)[6 + i] = HopLines(x[i])

LEMMA LinesShape ==
  ASSUME NEW x, IsMeasurement(x)
  PROVE  \E k \in 1..Len(x) : Deep(x, k) /\ LinesInPlace(x, k)
<1>0. Len(x) \in Nat
  BY TableShape, MaxHopAssumption
<1>1. PICK k \in Nat : k \in 1..Len(x) /\ Deep(x, k) /\ Rows(x) = [i \in 1..k |-> HopLines(x[i])]
  BY <1>0, RowsShape
<1>2. k \in Nat
  BY <1>1
<1> DEFINE head == << {MetaLine("magic", "version 1")}, {MetaLine("target", "target")},
                      {MetaLine("resolved_ip", "target_ip")}, {MetaLine("captured_at", "now")},
                      {MetaLine("hop_count", Len(x))}, {MetaLine("columns", "names")} >>
           rows == [i \in 1..k |-> HopLines(x[i])]
           U == {head[i] : i \in 1..6} \cup {rows[i] : i \in 1..k}
<1>3. Lines(x) = Joined(head, rows)
  BY <1>1 DEF Lines, Joined
<1>4. Len(head) = 6 /\ head \in [1..6 -> U]
  OBVIOUS
<1>5. rows \in [1..k -> U] /\ \A i \in 1..k : rows[i] = HopLines(x[i])
  OBVIOUS
<1>6. /\ head[1] = {MetaLine("magic", "version 1")} /\ head[2] = {MetaLine("target", "target")}
      /\ head[3] = {MetaLine("resolved_ip", "target_ip")} /\ head[4] = {MetaLine("captured_at", "now")}
      /\ head[5] = {MetaLine("hop_count", Len(x))} /\ head[6] = {MetaLine("columns", "names")}
  OBVIOUS
<1> HIDE DEF head, rows, U
<1>7. head \in Seq(U) /\ rows \in Seq(U) /\ Len(head) = 6 /\ Len(rows) = k
  BY <1>2, <1>4, <1>5, FunctionIsSequence
<1>a. head \in Seq(U) /\ rows \in Seq(U)
  BY <1>7
<1>b. /\ Len(Joined(head, rows)) = Len(head) + Len(rows)
      /\ \A i \in 1..Len(head) : Joined(head, rows)[i] = head[i]
      /\ \A i \in 1..Len(rows) : Joined(head, rows)[Len(head) + i] = rows[i]
  <2>1. Len(Joined(head, rows)) = Len(head) + Len(rows)
    BY <1>a, JoinedParts
  <2>2. \A i \in 1..Len(head) : Joined(head, rows)[i] = head[i]
    BY <1>a, JoinedParts
  <2>3. \A i \in 1..Len(rows) : Joined(head, rows)[Len(head) + i] = rows[i]
    BY <1>a, JoinedParts
  <2> QED BY <2>1, <2>2, <2>3
<1> DEFINE all == Lines(x)
<1> HIDE DEF all
<1>8. /\ Len(all) = 6 + k
      /\ \A i \in 1..6 : all[i] = head[i]
      /\ \A i \in 1..k : all[6 + i] = rows[i]
  BY <1>3, <1>7, <1>b, Zenon DEF all
<1>9. /\ all[1] = head[1] /\ all[2] = head[2] /\ all[3] = head[3]
      /\ all[4] = head[4] /\ all[5] = head[5] /\ all[6] = head[6]
  BY <1>8
<1>10. \A i \in 1..k : all[6 + i] = HopLines(x[i])
  BY <1>5, <1>8
<1>11. LinesInPlace(x, k)
  BY <1>6, <1>8, <1>9, <1>10, Zenon DEF LinesInPlace, all
<1> QED BY <1>1, <1>11

-----------------------------------------------------------------------------
(* What a reader may rely on in line i of the file of x: whole, or cut.      *)

SamplesOf(v, s) ==
  /\ v.last_ms \in Rounded(<<s.last_ms, 1>>, Tenth)
  /\ v.best_ms \in Rounded(<<s.best_ms, 1>>, Tenth)
  /\ v.worst_ms \in Rounded(<<s.worst_ms, 1>>, Tenth)

RowOf(v, s) ==
  /\ v.hop = s.hop /\ v.remote_ip = s.remote_ip /\ v.sent = s.sent /\ v.received = s.received
  /\ v.no_reply \in Rounded(<<1000 * s.no_reply[1], s.no_reply[2]>>, 1)
  /\ v.avg_ms \in Rounded(s.avg_ms, Tenth)
  /\ v.jitter_ms \in Rounded(s.jitter_ms, Tenth)
  /\ SamplesOf(v, s)

Whole(i, line, x) ==
  /\ i = 1 => line.kind = "magic"
  /\ i \in 2..4 => line.kind \in {"target", "resolved_ip", "captured_at"}
  /\ i = 5 => line.kind = "hop_count" /\ line.fields = 2 /\ line.value = Len(x)
  /\ i = 6 => line.kind = "columns"
  /\ i > 6 => /\ line.kind = "row" /\ line.fields = 11 /\ RowOf(line.value, x[i - 6])
              /\ line.value.status = trace_status_name(x[i - 6].status)

Partial(i, line, x) ==
  /\ i = 1 => line.kind = "cut"
  /\ i \in 2..4 => line.kind \in {"target", "resolved_ip", "captured_at"}
  /\ i = 5 => line.kind = "hop_count" /\ (line.fields < 2 \/ line.value \in 0..Len(x))
  /\ i = 6 => line.kind = "cut"
  /\ i > 6 => /\ line.kind = "row" /\ RowOf(line.value, x[i - 6])
              /\ \/ line.fields = 10
                 \/ line.fields = 11 /\ line.value.status = "cut"

LEMMA MetaFields ==
  /\ MetaLine("magic", "version 1").kind = "magic"
  /\ MetaLine("target", "target").kind = "target"
  /\ MetaLine("resolved_ip", "target_ip").kind = "resolved_ip"
  /\ MetaLine("captured_at", "now").kind = "captured_at"
  /\ MetaLine("columns", "names").kind = "columns"
  BY DEF MetaLine

LEMMA CutMark ==
  ASSUME NEW kind \in {"magic", "columns"}, NEW value, NEW c \in Cut(MetaLine(kind, value))
  PROVE  c.kind = "cut"
  BY DEF MetaLine, Cut

LEMMA CutName ==
  ASSUME NEW kind \in {"target", "resolved_ip", "captured_at"}, NEW value,
         NEW c \in Cut(MetaLine(kind, value))
  PROVE  c.kind = kind
  BY DEF MetaLine, Cut

LEMMA CutCount ==
  ASSUME NEW value, NEW c \in Cut(MetaLine("hop_count", value))
  PROVE  c.kind = "hop_count" /\ (c.fields = 1 \/ c.value \in {value \div 10, value \div 100})
  BY DEF MetaLine, Cut

LEMMA WholeLine ==
  ASSUME NEW x, IsMeasurement(x), NEW i \in 1..Len(Lines(x)), NEW line \in Lines(x)[i]
  PROVE  Whole(i, line, x)
<1>1. PICK k \in 1..Len(x) : LinesInPlace(x, k)
  BY LinesShape
<1>2. Len(x) \in Nat
  BY TableShape, MaxHopAssumption
<1>a. Len(Lines(x)) = 6 + k
  BY <1>1 DEF LinesInPlace
<1>3. i \in 1..(6 + k) /\ k \in Nat
  BY <1>2, <1>a
<1>4. CASE i > 6
  <2>1. i - 6 \in 1..k /\ i = 6 + (i - 6)
    BY <1>3, <1>4
  <2>2. line \in HopLines(x[i - 6])
    BY <1>1, <2>1 DEF LinesInPlace
  <2>3. /\ line.kind = "row" /\ line.fields = 11 /\ RowOf(line.value, x[i - 6])
        /\ line.value.status = trace_status_name(x[i - 6].status)
    BY <2>2 DEF HopLines, RowOf, SamplesOf
  <2> QED BY <1>4, <2>3 DEF Whole
<1>5. CASE ~(i > 6)
  <2>1. i \in {1, 2, 3, 4, 5, 6}
    BY <1>3, <1>5
  <2>2. /\ i = 1 => line = MetaLine("magic", "version 1")
        /\ i = 2 => line = MetaLine("target", "target")
        /\ i = 3 => line = MetaLine("resolved_ip", "target_ip")
        /\ i = 4 => line = MetaLine("captured_at", "now")
        /\ i = 5 => line = MetaLine("hop_count", Len(x))
        /\ i = 6 => line = MetaLine("columns", "names")
    BY <1>1 DEF LinesInPlace
  <2>3. CASE i = 1
    <3>1. line.kind = "magic"
      BY <2>2, <2>3, MetaFields
    <3> QED BY <2>3, <3>1 DEF Whole
  <2>4. CASE i = 2 \/ i = 3 \/ i = 4
    <3>1. line.kind \in {"target", "resolved_ip", "captured_at"}
      BY <2>2, <2>4, MetaFields
    <3> QED BY <2>4, <3>1 DEF Whole
  <2>5. CASE i = 5
    <3>1. line.kind = "hop_count" /\ line.fields = 2 /\ line.value = Len(x)
      BY <2>2, <2>5 DEF MetaLine
    <3> QED BY <2>5, <3>1 DEF Whole
  <2>6. CASE i = 6
    <3>1. line.kind = "columns"
      BY <2>2, <2>6, MetaFields
    <3> QED BY <2>6, <3>1 DEF Whole
  <2> QED BY <2>1, <2>3, <2>4, <2>5, <2>6
<1> QED BY <1>4, <1>5

LEMMA CutLine ==
  ASSUME NEW x, IsMeasurement(x), NEW i \in 1..Len(Lines(x)), NEW line \in Lines(x)[i],
         NEW c \in Cut(line)
  PROVE  Partial(i, c, x)
<1>1. PICK k \in 1..Len(x) : LinesInPlace(x, k)
  BY LinesShape
<1>2. Len(x) \in Nat
  BY TableShape, MaxHopAssumption
<1>a. Len(Lines(x)) = 6 + k
  BY <1>1 DEF LinesInPlace
<1>3. i \in 1..(6 + k) /\ k \in Nat
  BY <1>2, <1>a
<1>4. CASE i > 6
  <2>1. i - 6 \in 1..k /\ i = 6 + (i - 6)
    BY <1>3, <1>4
  <2> DEFINE s == x[i - 6]
  <2>2. line \in HopLines(s)
    BY <1>1, <2>1 DEF LinesInPlace
  <2> HIDE DEF s
  <2>3. /\ line.kind = "row" /\ line.fields = 11 /\ RowOf(line.value, s)
    BY <2>2 DEF HopLines, RowOf, SamplesOf
  <2>4. c \in {[line EXCEPT !.fields = 10], [line EXCEPT !.value.status = "cut"]}
    BY <2>3 DEF Cut
  <2>5. CASE c = [line EXCEPT !.fields = 10]
    <3>1. c.kind = "row" /\ c.fields = 10 /\ c.value = line.value
      BY <2>2, <2>3, <2>5 DEF HopLines
    <3> QED BY <1>4, <2>3, <3>1 DEF Partial, s
  <2>6. CASE c = [line EXCEPT !.value.status = "cut"]
    <3>1. /\ c.kind = "row" /\ c.fields = 11 
          /\ c.value = [line.value EXCEPT !.status = "cut"]
      BY <2>2, <2>3, <2>6 DEF HopLines
    <3>2. /\ c.value.status = "cut" /\ c.value.hop = line.value.hop
          /\ c.value.remote_ip = line.value.remote_ip /\ c.value.sent = line.value.sent
          /\ c.value.received = line.value.received /\ c.value.no_reply = line.value.no_reply
          /\ c.value.avg_ms = line.value.avg_ms /\ c.value.jitter_ms = line.value.jitter_ms
          /\ c.value.last_ms = line.value.last_ms
          /\ c.value.best_ms = line.value.best_ms
          /\ c.value.worst_ms = line.value.worst_ms
      BY <2>2, <3>1 DEF HopLines
    <3>3. RowOf(c.value, s)
      BY <2>3, <3>2 DEF RowOf, SamplesOf
    <3> QED BY <1>4, <3>1, <3>2, <3>3 DEF Partial, s
  <2> QED BY <2>4, <2>5, <2>6
<1>5. CASE ~(i > 6)
  <2>1. i \in {1, 2, 3, 4, 5, 6}
    BY <1>3, <1>5
  <2>2. /\ i = 1 => line = MetaLine("magic", "version 1")
        /\ i = 2 => line = MetaLine("target", "target")
        /\ i = 3 => line = MetaLine("resolved_ip", "target_ip")
        /\ i = 4 => line = MetaLine("captured_at", "now")
        /\ i = 5 => line = MetaLine("hop_count", Len(x))
        /\ i = 6 => line = MetaLine("columns", "names")
    BY <1>1 DEF LinesInPlace
  <2>3. CASE i = 1 \/ i = 6
    <3>1. c.kind = "cut"
      BY <2>2, <2>3, CutMark
    <3> QED BY <2>3, <3>1 DEF Partial
  <2>4. CASE i \in 2..4
    <3>1. c.kind \in {"target", "resolved_ip", "captured_at"}
      <4>1. i = 2 => c \in Cut(MetaLine("target", "target"))
        BY <2>2
      <4>2. i = 3 => c \in Cut(MetaLine("resolved_ip", "target_ip"))
        BY <2>2
      <4>3. i = 4 => c \in Cut(MetaLine("captured_at", "now"))
        BY <2>2
      <4>4. i = 2 \/ i = 3 \/ i = 4
        BY <2>1, <2>4
      <4>5. /\ i = 2 => c.kind = "target"
            /\ i = 3 => c.kind = "resolved_ip"
            /\ i = 4 => c.kind = "captured_at"
        BY <4>1, <4>2, <4>3, CutName
      <4> QED BY <4>4, <4>5
    <3> QED BY <2>4, <3>1 DEF Partial
  <2>5. CASE i = 5
    <3>1. /\ c.kind = "hop_count" 
          /\ c.fields = 1 \/ c.value \in {Len(x) \div 10, Len(x) \div 100}
      BY <2>2, <2>5, CutCount
    <3>2. Len(x) \div 10 \in 0..Len(x) /\ Len(x) \div 100 \in 0..Len(x)
      BY <1>2
    <3> QED BY <2>5, <3>1, <3>2 DEF Partial
  <2> QED BY <2>1, <2>3, <2>4, <2>5
<1> QED BY <1>4, <1>5

-----------------------------------------------------------------------------
(* The inductive invariant, in parts.                                        *)

Text(x) ==
  UNION {Lines(x)[i] \cup UNION {Cut(line) : line \in Lines(x)[i]} : i \in 1..Len(Lines(x))}

(* Every line of the file is whole, but for the last one of a torn file.     *)
FileInPlace ==
  /\ IsMeasurement(old)
  /\ file \in Seq(Text(old)) /\ Len(file) <= Len(Lines(old))
  /\ torn \in BOOLEAN
  /\ \A i \in 1..Len(file) :
       \/ Whole(i, file[i], old)
       \/ torn /\ i = Len(file) /\ Partial(i, file[i], old)
  /\ pc = "write" => ~torn
  /\ pc # "write" /\ ~torn => Len(file) = Len(Lines(old))

(* Where the reader is. *)
ReaderInPlace ==
  /\ pc \in {"write", "read", "refused", "accepted", "done"}
  /\ pos \in 0..Len(file)
  /\ pc = "write" => pos = 0
  /\ reading_hops \in BOOLEAN
  /\ reading_hops <=> pos >= 6 /\ file[6].kind = "columns"
  /\ pc \in {"accepted", "done"} => pos > 0 /\ pos = Len(file)
  /\ pc = "refused" =>
       torn /\ (file = <<>> \/ Last(file).kind = "cut" \/ Last(file).fields = 10)

(* The statistics a row is read back as. *)
Reread(v) ==
  [Cleared EXCEPT
     !.hop = v.hop, !.remote_ip = v.remote_ip, !.sent = v.sent, !.received = v.received,
     !.no_reply = <<v.no_reply, 1000>>, !.last_ms = v.last_ms * Tenth,
     !.avg_ms = <<v.avg_ms * Tenth, 1>>, !.best_ms = v.best_ms * Tenth,
     !.worst_ms = v.worst_ms * Tenth, !.jitter_ms = <<v.jitter_ms * Tenth, 1>>,
     !.status = parse_trace_status(v.status),
     !.has_rtt = v.received > 0, !.has_jitter = v.received > 1]

(* What it has restored: a hop for every row it has read. *)
BaselineInPlace ==
  /\ baseline = [target |-> baseline.target, resolved_ip |-> baseline.resolved_ip,
                 captured_at |-> baseline.captured_at, hop_count |-> baseline.hop_count,
                 hops |-> [h \in 1..MaxHop |-> baseline.hops[h]]]
  /\ baseline.hop_count \in 0..Len(old)
  /\ pos >= 5 /\ Whole(5, file[5], old) => baseline.hop_count = Len(old)
  /\ \A h \in 1..MaxHop :
       baseline.hops[h] = IF h + 6 <= pos THEN Reread(file[h + 6].value) ELSE Cleared
  /\ \A h \in 1..MaxHop : h + 6 <= pos => file[h + 6].fields >= 11

ComparisonInPlace ==
  /\ pc # "done" =>
       changes = <<>> /\ diagnosis = evaluate_mtr_quality(NoBaseline, old, Len(old))
  /\ pc = "done" =>
       /\ IsMeasurement(current)
       /\ changes = print_baseline_change_list(baseline, current, Len(current))
       /\ diagnosis = evaluate_mtr_quality(baseline, current, Len(current))

IInv == FileInPlace /\ ReaderInPlace /\ BaselineInPlace /\ ComparisonInPlace

LEMMA LinesAtLeast ==
  ASSUME NEW x, IsMeasurement(x)
  PROVE  Len(Lines(x)) \in Nat /\ Len(Lines(x)) > 6
<1>1. PICK k \in 1..Len(x) : LinesInPlace(x, k)
  BY LinesShape
<1>2. Len(Lines(x)) = 6 + k
  BY <1>1 DEF LinesInPlace
<1>3. Len(x) \in Nat
  BY TableShape, MaxHopAssumption
<1> QED BY <1>2, <1>3

LEMMA TextHolds ==
  ASSUME NEW x, NEW i \in 1..Len(Lines(x)), NEW line \in Lines(x)[i]
  PROVE  line \in Text(x) /\ \A c \in Cut(line) : c \in Text(x)
  BY DEF Text

(* What an action of the reader leaves alone. *)
LEMMA FileKept ==
  ASSUME Steps, ~WriteLine, ~Interrupted, ~Saved
  PROVE  UNCHANGED <<old, file, torn>> /\ (pc = "write" <=> pc' = "write")
<1>1. CASE \E measured \in Measurements : Compare(measured)
  BY <1>1 DEF Compare
<1>2. CASE Finished
  BY <1>2 DEF Finished, vars
<1>3. CASE ReadMagic \/ ReadBlank \/ ReadColumns \/ ReadMetadata \/ ReadHop
  BY <1>3 DEF ReadMagic, ReadBlank, ReadColumns, ReadMetadata, ReadHop
<1>4. CASE Refuse \/ ReadAll
  BY <1>4 DEF Refuse, ReadAll
<1> QED BY <1>1, <1>2, <1>3, <1>4 DEF Steps

LEMMA FileInit == Init => FileInPlace
<1> SUFFICES ASSUME Init PROVE FileInPlace
  OBVIOUS
<1>1. IsMeasurement(old)
  BY MeasurementsSound DEF Init
<1>2. Len(Lines(old)) \in Nat
  BY <1>1, LinesAtLeast
<1>3. file = <<>> /\ torn = FALSE /\ pc = "write"
  BY DEF Init
<1>4. <<>> \in Seq(Text(old)) /\ Len(<<>>) = 0
  OBVIOUS
<1>5. file \in Seq(Text(old)) /\ Len(file) <= Len(Lines(old))
  BY <1>2, <1>3, <1>4
<1>6. \A i \in 1..Len(file) : Whole(i, file[i], old)
  BY <1>3, <1>4
<1> QED BY <1>1, <1>3, <1>5, <1>6 DEF FileInPlace

LEMMA FileStep == FileInPlace /\ [Steps]_vars => FileInPlace'
<1> SUFFICES ASSUME FileInPlace, [Steps]_vars PROVE FileInPlace'
  OBVIOUS
<1> DEFINE full == Len(Lines(old))
           n == Len(file)
<1>1. /\ IsMeasurement(old) /\ file \in Seq(Text(old)) /\ n <= full /\ torn \in BOOLEAN
      /\ \A i \in 1..n : Whole(i, file[i], old) \/ (torn /\ i = n /\ Partial(i, file[i], old))
      /\ pc = "write" => ~torn
      /\ pc # "write" /\ ~torn => n = full
  BY DEF FileInPlace
<1>2. full \in Nat /\ n \in Nat
  BY <1>1, LinesAtLeast
<1>3. CASE UNCHANGED vars
  BY <1>1, <1>3 DEF FileInPlace, vars
<1>4. CASE Steps /\ ~WriteLine /\ ~Interrupted /\ ~Saved
  <2>1. UNCHANGED <<old, file, torn>> /\ (pc = "write" <=> pc' = "write")
    BY <1>4, FileKept
  <2> QED BY <1>1, <2>1 DEF FileInPlace
<1>5. CASE Saved
  BY <1>1, <1>5 DEF FileInPlace, Saved
<1>6. ASSUME pc = "write", n < full, NEW line \in Lines(old)[n + 1], NEW last,
             last = line \/ last \in Cut(line), file' = Append(file, last)
      PROVE  /\ file' \in Seq(Text(old)) /\ Len(file') = n + 1
             /\ \A i \in 1..n : Whole(i, file'[i], old)
             /\ last = line => Whole(n + 1, file'[n + 1], old)
             /\ last \in Cut(line) => Partial(n + 1, file'[n + 1], old)
  <2>1. n + 1 \in 1..full
    BY <1>2, <1>6
  <2>2. last \in Text(old)
    BY <1>6, <2>1, TextHolds
  <2>3. /\ file' \in Seq(Text(old)) /\ Len(file') = n + 1 /\ file'[n + 1] = last
        /\ \A i \in 1..n : file'[i] = file[i]
    BY <1>1, <1>6, <2>2, Appended
  <2>4. \A i \in 1..n : Whole(i, file'[i], old)
    BY <1>1, <1>6, <2>3
  <2>5. last = line => Whole(n + 1, last, old)
    BY <1>1, <2>1, WholeLine
  <2>6. last \in Cut(line) => Partial(n + 1, last, old)
    BY <1>1, <2>1, CutLine
  <2> QED BY <2>3, <2>4, <2>5, <2>6
<1>7. CASE WriteLine
  <2>1. /\ pc = "write" /\ n < full /\ \E line \in Lines(old)[n + 1] : file' = Append(file, line)
        /\ UNCHANGED <<old, torn, pc>>
    BY <1>7 DEF WriteLine, NextLine
  <2>2. PICK line \in Lines(old)[n + 1] : file' = Append(file, line)
    BY <2>1
  <2>3. /\ file' \in Seq(Text(old)) /\ Len(file') = n + 1
        /\ \A i \in 1..n : Whole(i, file'[i], old)
        /\ Whole(n + 1, file'[n + 1], old)
    BY <1>6, <2>1, <2>2
  <2>4. \A i \in 1..Len(file') : Whole(i, file'[i], old)
    BY <1>2, <2>3
  <2>5. Len(file') <= full
    BY <1>2, <2>1, <2>3
  <2> QED BY <1>1, <2>1, <2>3, <2>4, <2>5 DEF FileInPlace
<1>8. CASE Interrupted
  <2>1. /\ pc = "write" /\ n < full /\ torn' = TRUE /\ pc' = "read" /\ old' = old
        /\ \/ file' = file
           \/ \E line \in Lines(old)[n + 1] : \E c \in Cut(line) : file' = Append(file, c)
    BY <1>8 DEF Interrupted, NextLine
  <2>2. CASE file' = file
    <3>1. \A i \in 1..Len(file') : Whole(i, file'[i], old)
      BY <1>1, <2>1, <2>2
    <3>2. pc' # "write"
      BY <2>1
    <3> QED BY <1>1, <2>1, <2>2, <3>1, <3>2 DEF FileInPlace
  <2>3. CASE \E line \in Lines(old)[n + 1] : \E c \in Cut(line) : file' = Append(file, c)
    <3>1. PICK line \in Lines(old)[n + 1] : \E c \in Cut(line) : file' = Append(file, c)
      BY <2>3
    <3>2. PICK c \in Cut(line) : file' = Append(file, c)
      BY <3>1
    <3>3. /\ file' \in Seq(Text(old)) /\ Len(file') = n + 1
          /\ \A i \in 1..n : Whole(i, file'[i], old)
          /\ Partial(n + 1, file'[n + 1], old)
      BY <1>6, <2>1, <3>2
    <3>4. \A i \in 1..Len(file') :
            Whole(i, file'[i], old) \/ (i = Len(file') /\ Partial(i, file'[i], old))
      BY <1>2, <3>3
    <3>5. Len(file') <= full
      BY <1>2, <2>1, <3>3
    <3> QED BY <1>1, <2>1, <3>3, <3>4, <3>5 DEF FileInPlace
  <2> QED BY <2>1, <2>2, <2>3
<1> QED BY <1>3, <1>4, <1>5, <1>7, <1>8

(* The line the reader is about to read, by its number. *)
LEMMA NextLineRead ==
  ASSUME FileInPlace, ReaderInPlace, HasLine
  PROVE  /\ pos + 1 \in 1..Len(file) /\ pos \in Nat
         /\ pos = 0 => Line.kind \in {"magic", "cut"}
         /\ pos > 0 => Line.kind # "cut" \/ pos = 5
         /\ Line.kind = "columns" <=> pos = 5 /\ Line.kind # "cut"
         /\ Line.kind = "hop_count" <=> pos = 4
         /\ Line.kind = "row" <=> pos >= 6
         /\ Line.kind \in {"magic", "target", "resolved_ip", "captured_at", "hop_count",
                          "columns", "row", "cut"}
         /\ Line.kind # "blank"
         /\ reading_hops <=> pos >= 6
<1>1. /\ file \in Seq(Text(old)) /\ pos \in 0..Len(file) /\ pos < Len(file)
      /\ \A i \in 1..Len(file) :
           Whole(i, file[i], old) \/ (torn /\ i = Len(file) /\ Partial(i, file[i], old))
  BY DEF FileInPlace, ReaderInPlace, HasLine
<1>2. Len(file) \in Nat /\ pos \in Nat /\ pos + 1 \in 1..Len(file)
  BY <1>1
<1>3. Whole(pos + 1, Line, old) \/ Partial(pos + 1, Line, old)
  BY <1>1, <1>2 DEF Line
<1>4. /\ pos = 0 => Line.kind \in {"magic", "cut"}
      /\ pos \in 1..3 => Line.kind \in {"target", "resolved_ip", "captured_at"}
      /\ pos = 4 => Line.kind = "hop_count"
      /\ pos = 5 => Line.kind \in {"columns", "cut"}
      /\ pos > 5 => Line.kind = "row"
  <2>1. /\ pos = 0 <=> pos + 1 = 1
        /\ pos \in 1..3 <=> pos + 1 \in 2..4
        /\ pos = 4 <=> pos + 1 = 5
        /\ pos = 5 <=> pos + 1 = 6
        /\ pos > 5 <=> pos + 1 > 6
    BY <1>2
  <2>2. CASE Whole(pos + 1, Line, old)
    <3> DEFINE k == pos + 1
    <3>1. Whole(k, Line, old)
      BY <2>2
    <3>2. /\ k = 1 => Line.kind = "magic"
          /\ k \in 2..4 => Line.kind \in {"target", "resolved_ip", "captured_at"}
          /\ k = 5 => Line.kind = "hop_count"
          /\ k = 6 => Line.kind = "columns"
          /\ k > 6 => Line.kind = "row"
      <4> HIDE DEF k
      <4> QED BY <3>1 DEF Whole
    <3> QED BY <2>1, <3>2
  <2>3. CASE Partial(pos + 1, Line, old)
    <3> DEFINE k == pos + 1
    <3>1. Partial(k, Line, old)
      BY <2>3
    <3>2. /\ k = 1 => Line.kind = "cut"
          /\ k \in 2..4 => Line.kind \in {"target", "resolved_ip", "captured_at"}
          /\ k = 5 => Line.kind = "hop_count"
          /\ k = 6 => Line.kind = "cut"
          /\ k > 6 => Line.kind = "row"
      <4> HIDE DEF k
      <4> QED BY <3>1 DEF Partial
    <3> QED BY <2>1, <3>2
  <2> QED BY <1>3, <2>2, <2>3
<1>5. pos >= 6 => file[6].kind = "columns"
  <2> SUFFICES ASSUME pos >= 6 PROVE file[6].kind = "columns"
    OBVIOUS
  <2>1. 6 \in 1..Len(file) /\ 6 # Len(file)
    BY <1>1, <1>2
  <2>2. Whole(6, file[6], old)
    BY <1>1, <2>1
  <2> QED BY <2>2 DEF Whole
<1>6. reading_hops <=> pos >= 6
  BY <1>5 DEF ReaderInPlace
<1>7. pos = 0 \/ pos \in 1..3 \/ pos = 4 \/ pos = 5 \/ pos > 5
  BY <1>2
<1> QED BY <1>2, <1>4, <1>6, <1>7

(* A row that is read is about the next hop. *)
LEMMA NextRow ==
  ASSUME FileInPlace, ReaderInPlace, HasLine, pos >= 6
  PROVE  /\ pos - 5 \in 1..Len(old) /\ pos - 5 \in 1..MaxHop
         /\ RowOf(Line.value, old[pos - 5]) /\ Line.value.hop = pos - 5
         /\ Line.fields = 10 \/ Line.fields = 11
         /\ Whole(5, file[5], old)
<1>1. /\ IsMeasurement(old) /\ file \in Seq(Text(old)) /\ Len(file) <= Len(Lines(old))
      /\ \A i \in 1..Len(file) :
           Whole(i, file[i], old) \/ (torn /\ i = Len(file) /\ Partial(i, file[i], old))
  BY DEF FileInPlace
<1>2. Len(file) \in Nat /\ pos + 1 \in 1..Len(file) /\ pos \in Nat
  BY <1>1, NextLineRead
<1>3. PICK k \in 1..Len(old) : LinesInPlace(old, k)
  BY <1>1, LinesShape
<1>4. Len(Lines(old)) = 6 + k
  BY <1>3 DEF LinesInPlace
<1>5. Len(old) \in 1..MaxHop /\ \A h \in 1..Len(old) : old[h].hop = h
  BY <1>1, TableShape
<1>6. pos - 5 \in 1..Len(old) /\ pos - 5 \in 1..MaxHop
  BY <1>1, <1>2, <1>4, <1>5, MaxHopAssumption
<1>7. RowOf(Line.value, old[pos - 5]) /\ (Line.fields = 10 \/ Line.fields = 11)
  <2>1. Whole(pos + 1, Line, old) \/ Partial(pos + 1, Line, old)
    BY <1>1, <1>2 DEF Line
  <2> DEFINE i == pos + 1
  <2>2. Whole(i, Line, old) \/ Partial(i, Line, old)
    BY <2>1
  <2>3. i > 6 /\ i - 6 = pos - 5
    BY <1>2
  <2> HIDE DEF i
  <2>4. RowOf(Line.value, old[i - 6]) /\ (Line.fields = 10 \/ Line.fields = 11)
    BY <2>2, <2>3 DEF Whole, Partial
  <2> QED BY <2>3, <2>4
<1>8. Line.value.hop = pos - 5
  BY <1>5, <1>6, <1>7 DEF RowOf
<1>9. Whole(5, file[5], old)
  <2>1. Len(file) > 6
    <3>1. pos + 1 <= Len(file) /\ pos + 1 > 6
      BY <1>2
    <3> QED BY <1>2, <3>1
  <2>2. 5 \in 1..Len(file) /\ 5 # Len(file)
    <3>1. \A n \in Nat : n > 6 => 5 \in 1..n /\ 5 # n
      OBVIOUS
    <3> QED BY <1>2, <2>1, <3>1, Zenon
  <2> QED BY <1>1, <2>2
<1> QED BY <1>6, <1>7, <1>8, <1>9

(* Only a torn file is refused, and where it was torn. *)
LEMMA RefusedTorn ==
  ASSUME FileInPlace, ReaderInPlace, Refuse
  PROVE  torn /\ (file = <<>> \/ Last(file).kind = "cut" \/ Last(file).fields = 10)
<1>1. /\ IsMeasurement(old) /\ file \in Seq(Text(old)) /\ torn \in BOOLEAN
      /\ \A i \in 1..Len(file) :
           Whole(i, file[i], old) \/ (torn /\ i = Len(file) /\ Partial(i, file[i], old))
      /\ pc # "write" /\ ~torn => Len(file) = Len(Lines(old))
  BY DEF FileInPlace
<1>2. Len(Lines(old)) > 6
  BY <1>1, LinesAtLeast
<1>3. pc = "read"
  BY DEF Refuse
<1>4. CASE pos = 0 /\ file = <<>>
  <2>1. Len(file) = 0
    BY <1>4
  <2>2. torn
    BY <1>1, <1>2, <1>3, <2>1
  <2> QED BY <1>4, <2>2
<1>5. ASSUME HasLine, ~Whole(pos + 1, Line, old)
      PROVE  torn /\ Partial(pos + 1, Last(file), old)
  <2>1. pos + 1 \in 1..Len(file)
    BY <1>5, NextLineRead
  <2>2. torn /\ pos + 1 = Len(file) /\ Partial(pos + 1, file[pos + 1], old)
    BY <1>1, <1>5, <2>1 DEF Line
  <2> QED BY <2>2 DEF Last
<1>6. CASE HasLine /\ pos = 0 /\ Line.kind # "magic"
  <2>1. pos + 1 = 1
    BY <1>6
  <2>2. ~Whole(1, Line, old)
    BY <1>6 DEF Whole
  <2>3. torn /\ Partial(1, Last(file), old)
    BY <1>5, <1>6, <2>1, <2>2
  <2> QED BY <2>3 DEF Partial
<1>7. CASE HasEntry /\ reading_hops /\ HopLineFails(Line)
  <2>1. HasLine /\ pos \in Nat /\ pos >= 6
    BY <1>7, NextLineRead DEF HasEntry
  <2>2. Line.value.hop = pos - 5 /\ pos - 5 \in 1..MaxHop
    BY <2>1, NextRow
  <2>3. Line.fields < 11
    BY <1>7, <2>2 DEF HopLineFails, valid_hop, split_tab_fields
  <2> DEFINE k == pos + 1
  <2>4. k > 6
    BY <2>1
  <2>5. ~Whole(k, Line, old)
    <3> HIDE DEF k
    <3> SUFFICES ASSUME Line.fields = 11 PROVE FALSE
      BY <2>4 DEF Whole
    <3> QED BY <2>3
  <2>6. torn /\ Partial(k, Last(file), old)
    BY <1>5, <2>1, <2>5
  <2>7. Line = Last(file)
    <3>1. pos + 1 \in 1..Len(file)
      BY <2>1, NextLineRead
    <3>2. pos + 1 = Len(file)
      BY <1>1, <2>5, <3>1 DEF Line
    <3> QED BY <3>2 DEF Line, Last
  <2>8. Last(file).fields = 10
    <3> HIDE DEF k
    <3>1. Last(file).fields = 10 \/ Last(file).fields = 11
      BY <2>4, <2>6 DEF Partial
    <3> QED BY <2>3, <2>7, <3>1
  <2> QED BY <2>6, <2>8
<1>8. ~(HasEntry /\ ~reading_hops /\ MetadataFails(Line))
  <2> SUFFICES ASSUME HasEntry, MetadataFails(Line) PROVE FALSE
    OBVIOUS
  <2>1. HasLine /\ Line.kind = "hop_count" /\ ~(Line.fields < 2) /\ Line.value \notin 0..MaxHop
    BY DEF HasEntry, MetadataFails
  <2>2. pos = 4 /\ pos + 1 \in 1..Len(file)
    BY <2>1, NextLineRead
  <2>3. Whole(5, Line, old) \/ Partial(5, Line, old)
    BY <1>1, <2>2 DEF Line
  <2>4. Len(old) \in 1..MaxHop /\ MaxHop \in Nat
    BY <1>1, TableShape, MaxHopAssumption
  <2>5. Whole(5, Line, old) => Line.fields = 2 /\ Line.value = Len(old)
    BY DEF Whole
  <2>6. Partial(5, Line, old) => Line.fields < 2 \/ Line.value \in 0..Len(old)
    BY DEF Partial
  <2>7. Whole(5, Line, old) => Line.value \in 0..Len(old)
    BY <2>4, <2>5
  <2>8. Line.value \in 0..Len(old) \/ Line.fields < 2
    BY <2>3, <2>6, <2>7
  <2> QED BY <2>1, <2>4, <2>8
<1> QED BY <1>4, <1>6, <1>7, <1>8 DEF Refuse

LEMMA ReaderInit == Init => ReaderInPlace
<1> SUFFICES ASSUME Init PROVE ReaderInPlace
  OBVIOUS
<1>1. file = <<>> /\ pc = "write" /\ pos = 0 /\ reading_hops = FALSE
  BY DEF Init
<1>2. Len(file) = 0
  BY <1>1
<1>3. pc = "write" /\ pos = 0 /\ reading_hops = FALSE
  BY <1>1
<1>4. pos \in 0..Len(file) /\ ~(pos >= 6)
  BY <1>2, <1>3
<1>5. /\ pc \in {"write", "read", "refused", "accepted", "done"}
      /\ pc \notin {"accepted", "done"} /\ pc # "refused"
  BY <1>3
<1>6. reading_hops \in BOOLEAN /\ ~reading_hops
  BY <1>3
<1> QED BY <1>3, <1>4, <1>5, <1>6, Zenon DEF ReaderInPlace

LEMMA ReaderStep == FileInPlace /\ ReaderInPlace /\ [Steps]_vars => ReaderInPlace'
<1> SUFFICES ASSUME FileInPlace, ReaderInPlace, [Steps]_vars PROVE ReaderInPlace'
  OBVIOUS
<1>1. /\ pc \in {"write", "read", "refused", "accepted", "done"} /\ pos \in 0..Len(file)
      /\ pc = "write" => pos = 0
      /\ reading_hops \in BOOLEAN
      /\ reading_hops <=> pos >= 6 /\ file[6].kind = "columns"
      /\ pc \in {"accepted", "done"} => pos > 0 /\ pos = Len(file)
      /\ pc = "refused" =>
           torn /\ (file = <<>> \/ Last(file).kind = "cut" \/ Last(file).fields = 10)
  BY DEF ReaderInPlace
<1>2. Len(file) \in Nat
  BY DEF FileInPlace
<1>3. Len(file') \in Nat
  <2>1. file' \in Seq(Text(old'))
    BY FileStep DEF FileInPlace
  <2> QED BY <2>1
<1>4. CASE UNCHANGED vars
  BY <1>1, <1>4 DEF ReaderInPlace, vars, reader
<1>5. CASE WriteLine \/ Interrupted
  <2>1. pc = "write" /\ pc' \in {"write", "read"} /\ pos' = pos /\ reading_hops' = reading_hops
    BY <1>5 DEF WriteLine, Interrupted, reader
  <2>2. pos' = 0 /\ reading_hops' = FALSE
    BY <1>1, <2>1
  <2> QED BY <1>3, <2>1, <2>2 DEF ReaderInPlace
<1>6. CASE Saved
  BY <1>1, <1>6 DEF ReaderInPlace, Saved, reader
<1>7. CASE Refuse
  <2>1. torn /\ (file = <<>> \/ Last(file).kind = "cut" \/ Last(file).fields = 10)
    BY <1>7, RefusedTorn
  <2>2. UNCHANGED <<old, file, torn, pos, reading_hops>> /\ pc' = "refused"
    BY <1>7 DEF Refuse, reader
  <2>3. UNCHANGED Last(file)
    BY <2>2
  <2> QED BY <1>1, <2>1, <2>2, <2>3 DEF ReaderInPlace
<1>8. CASE ReadAll
  <2>1. UNCHANGED <<old, file, torn, pos, reading_hops>> /\ pc' = "accepted" /\ pos > 0 /\ pos = Len(file)
    BY <1>8 DEF ReadAll, reader
  <2> QED BY <1>1, <2>1 DEF ReaderInPlace
<1>9. CASE \E measured \in Measurements : Compare(measured)
  <2>1. UNCHANGED <<old, file, torn, pos, reading_hops>> /\ pc' = "done" /\ pc = "accepted"
    BY <1>9 DEF Compare, reader
  <2> QED BY <1>1, <2>1 DEF ReaderInPlace
<1>10. ASSUME HasLine, pos' = pos + 1, UNCHANGED <<file, pc>>,
              reading_hops' \in BOOLEAN /\ (reading_hops' <=> pos + 1 >= 6 /\ file[6].kind = "columns")
       PROVE  ReaderInPlace'
  <2>1. pos' \in 0..Len(file') /\ pc' = "read" /\ file' = file
    BY <1>1, <1>2, <1>10 DEF HasLine
  <2> QED BY <1>10, <2>1 DEF ReaderInPlace
<1>11. CASE ReadMagic \/ ReadColumns \/ ReadMetadata \/ ReadHop
  <2>1. HasLine /\ pos' = pos + 1 /\ UNCHANGED <<file, pc>>
    BY <1>11 DEF ReadMagic, ReadColumns, ReadMetadata, ReadHop, HasEntry
  <2>2. pos \in Nat /\ (reading_hops <=> pos >= 6)
    BY <2>1, NextLineRead
  <2>3. reading_hops' \in BOOLEAN /\ (reading_hops' <=> pos + 1 >= 6 /\ file[6].kind = "columns")
    <3>1. CASE ReadMagic
      BY <1>1, <2>2, <3>1 DEF ReadMagic
    <3>2. CASE ReadColumns
      <4>1. pos = 5 /\ Line.kind = "columns" /\ reading_hops' = TRUE
        BY <2>1, <3>2, NextLineRead DEF ReadColumns
      <4>2. pos + 1 = 6
        BY <4>1
      <4>3. file[6].kind = "columns"
        BY <4>1, <4>2 DEF Line
      <4> QED BY <4>1, <4>2, <4>3
    <3>3. CASE ReadMetadata
      <4>1. ~reading_hops /\ reading_hops' = reading_hops /\ Line.kind # "columns"
        BY <3>3 DEF ReadMetadata, HasEntry
      <4>2. pos < 6
        BY <2>2, <4>1
      <4>3. pos + 1 >= 6 => file[6].kind # "columns"
        <5>1. pos + 1 >= 6 => pos + 1 = 6
          BY <2>2, <4>2
        <5> QED BY <4>1, <5>1 DEF Line
      <4> QED BY <1>1, <4>1, <4>3
    <3>4. CASE ReadHop
      <4>1. reading_hops /\ reading_hops' = reading_hops
        BY <3>4 DEF ReadHop
      <4> QED BY <1>1, <2>2, <4>1
    <3> QED BY <1>11, <3>1, <3>2, <3>3, <3>4
  <2> QED BY <1>10, <2>1, <2>3
<1>12. CASE Finished
  BY <1>1, <1>12 DEF ReaderInPlace, Finished, vars, reader
<1>13. ~ReadBlank
  BY NextLineRead DEF ReadBlank
<1> QED BY <1>4, <1>5, <1>6, <1>7, <1>8, <1>9, <1>11, <1>12, <1>13 DEF Steps

(* The fields of what is read back from a row, and of the cleared memory.    *)
LEMMA RereadFields ==
  ASSUME NEW v
  PROVE  LET r == Reread(v) IN
         /\ r.hop = v.hop /\ r.remote_ip = v.remote_ip
         /\ r.sent = v.sent /\ r.received = v.received
         /\ r.no_reply = <<v.no_reply, 1000>>
         /\ r.avg_ms = <<v.avg_ms * Tenth, 1>> /\ r.jitter_ms = <<v.jitter_ms * Tenth, 1>>
         /\ r.status = parse_trace_status(v.status)
  BY DEF Reread, Cleared, mtr_hop_stats_init

LEMMA RereadSamples ==
  ASSUME NEW v
  PROVE  LET r == Reread(v) IN
         /\ r.last_ms = v.last_ms * Tenth /\ r.best_ms = v.best_ms * Tenth
         /\ r.worst_ms = v.worst_ms * Tenth
  BY DEF Reread, Cleared, mtr_hop_stats_init

LEMMA RereadFlags ==
  ASSUME NEW v
  PROVE  LET r == Reread(v) IN
         /\ r.has_rtt \in BOOLEAN /\ (r.has_rtt <=> v.received > 0)
         /\ r.has_jitter \in BOOLEAN /\ (r.has_jitter <=> v.received > 1)
<1> DEFINE r == Reread(v)
           p == v.received > 0
           q == v.received > 1
<1>1. p \in BOOLEAN /\ q \in BOOLEAN
  OBVIOUS
<1>2. r.has_rtt = p /\ r.has_jitter = q
  BY DEF Reread, Cleared, mtr_hop_stats_init
<1> HIDE DEF r
<1>3. r.has_rtt \in BOOLEAN /\ r.has_jitter \in BOOLEAN
  BY <1>1, <1>2
<1>4. (p => r.has_rtt) /\ (r.has_rtt => p)
  <2> HIDE DEF p
  <2> QED BY <1>1, <1>2, Zenon
<1>5. (q => r.has_jitter) /\ (r.has_jitter => q)
  <2> HIDE DEF q
  <2> QED BY <1>1, <1>2, Zenon
<1> QED BY <1>3, <1>4, <1>5 DEF r

LEMMA ClearedFields ==
  /\ Cleared.hop = 0 /\ Cleared.sent = 0 /\ Cleared.status = "TIMEOUT"
  BY DEF Cleared, mtr_hop_stats_init

LEMMA BaselineInit == Init => BaselineInPlace
<1> SUFFICES ASSUME Init PROVE BaselineInPlace
  OBVIOUS
<1>1. baseline = EmptyBaseline /\ pos = 0 /\ old \in Measurements
  BY DEF Init
<1>2. Len(old) \in Nat
  <2>1. IsMeasurement(old)
    BY <1>1, MeasurementsSound
  <2> QED BY <2>1, TableShape, MaxHopAssumption
<1> DEFINE hops == [h \in 1..MaxHop |-> Cleared]
<1>3. /\ baseline = [target |-> baseline.target, resolved_ip |-> baseline.resolved_ip,
                     captured_at |-> baseline.captured_at, hop_count |-> baseline.hop_count,
                     hops |-> hops]
      /\ baseline.hop_count = 0 /\ baseline.hops = hops
  BY <1>1 DEF EmptyBaseline
<1>4. \A h \in 1..MaxHop : hops[h] = Cleared
  OBVIOUS
<1>5. hops = [h \in 1..MaxHop |-> hops[h]]
  OBVIOUS
<1> HIDE DEF hops
<1>6. baseline = [target |-> baseline.target, resolved_ip |-> baseline.resolved_ip,
                  captured_at |-> baseline.captured_at, hop_count |-> baseline.hop_count,
                  hops |-> [h \in 1..MaxHop |-> baseline.hops[h]]]
  BY <1>3, <1>5
<1>7. \A h \in 1..MaxHop : ~(h + 6 <= pos) /\ baseline.hops[h] = Cleared
  BY <1>1, <1>3, <1>4, MaxHopAssumption
<1>8. baseline.hop_count \in 0..Len(old) /\ ~(pos >= 5)
  BY <1>1, <1>2, <1>3
<1> QED BY <1>6, <1>7, <1>8 DEF BaselineInPlace

(* A line about the whole path: only the number of hops matters here.        *)
LEMMA MetadataRead ==
  ASSUME NEW b, NEW line, line.kind \in {"target", "resolved_ip", "captured_at", "hop_count", "cut"},
         b = [target |-> b.target, resolved_ip |-> b.resolved_ip, captured_at |-> b.captured_at,
              hop_count |-> b.hop_count, hops |-> b.hops]
  PROVE  LET c == parse_metadata_line(line, b) IN
         /\ c = [target |-> c.target, resolved_ip |-> c.resolved_ip,
                 captured_at |-> c.captured_at, hop_count |-> c.hop_count, hops |-> c.hops]
         /\ c.hops = b.hops
         /\ c.hop_count = IF line.kind = "hop_count" /\ ~(line.fields < 2) THEN line.value
                          ELSE b.hop_count
<1> DEFINE c == parse_metadata_line(line, b)
<1>1. CASE line.fields < 2
  <2>1. c = b
    BY <1>1 DEF parse_metadata_line
  <2> QED BY <1>1, <2>1
<1>2. CASE ~(line.fields < 2)
  <2>1. CASE line.kind = "target"
    <3>1. c = [b EXCEPT !.target = line.value]
      BY <1>2, <2>1 DEF parse_metadata_line
    <3> HIDE DEF c
    <3> QED BY <2>1, <3>1 DEF c
  <2>2. CASE line.kind = "resolved_ip"
    <3>1. c = [b EXCEPT !.resolved_ip = line.value]
      BY <1>2, <2>2 DEF parse_metadata_line
    <3> HIDE DEF c
    <3> QED BY <2>2, <3>1 DEF c
  <2>3. CASE line.kind = "captured_at"
    <3>1. c = [b EXCEPT !.captured_at = line.value]
      BY <1>2, <2>3 DEF parse_metadata_line
    <3> HIDE DEF c
    <3> QED BY <2>3, <3>1 DEF c
  <2>4. CASE line.kind = "hop_count"
    <3>1. c = [b EXCEPT !.hop_count = line.value]
      BY <1>2, <2>4 DEF parse_metadata_line
    <3> HIDE DEF c
    <3> QED BY <1>2, <2>4, <3>1 DEF c
  <2>5. CASE line.kind = "cut"
    <3>1. c = b
      BY <1>2, <2>5 DEF parse_metadata_line
    <3> QED BY <2>5, <3>1
  <2> QED BY <2>1, <2>2, <2>3, <2>4, <2>5
<1> QED BY <1>1, <1>2

LEMMA RowRead ==
  ASSUME NEW b, NEW line, line.value.hop \in 1..MaxHop,
         b = [target |-> b.target, resolved_ip |-> b.resolved_ip, captured_at |-> b.captured_at,
              hop_count |-> b.hop_count, hops |-> [h \in 1..MaxHop |-> b.hops[h]]]
  PROVE  LET c == parse_hop_line(line, b) IN
         /\ c = [target |-> c.target, resolved_ip |-> c.resolved_ip,
                 captured_at |-> c.captured_at, hop_count |-> c.hop_count,
                 hops |-> [h \in 1..MaxHop |-> c.hops[h]]]
         /\ \A h \in 1..MaxHop :
              c.hops[h] = IF h = line.value.hop THEN Reread(line.value) ELSE b.hops[h]
         /\ c.hop_count = HopCountAfter(b.hop_count, line.value.hop)
<1> DEFINE c == parse_hop_line(line, b)
           n == HopCountAfter(b.hop_count, line.value.hop)
           r == Reread(line.value)
           hops == [b.hops EXCEPT ![line.value.hop] = r]
<1>1. c = [b EXCEPT !.hop_count = n, !.hops = hops]
  BY DEF parse_hop_line, Reread
<1> HIDE DEF n, r
<1>2. /\ hops = [h \in 1..MaxHop |-> hops[h]]
      /\ \A h \in 1..MaxHop : hops[h] = IF h = line.value.hop THEN r ELSE b.hops[h]
  <2> DEFINE f == [h \in 1..MaxHop |-> b.hops[h]]
  <2>1. b.hops = f
    OBVIOUS
  <2>2. hops = [f EXCEPT ![line.value.hop] = r]
    BY <2>1
  <2>3. \A h \in 1..MaxHop : f[h] = b.hops[h]
    OBVIOUS
  <2>4. /\ [f EXCEPT ![line.value.hop] = r] = [h \in 1..MaxHop |-> [f EXCEPT ![line.value.hop] = r][h]]
        /\ \A h \in 1..MaxHop :
             [f EXCEPT ![line.value.hop] = r][h] = IF h = line.value.hop THEN r ELSE f[h]
    OBVIOUS
  <2> HIDE DEF f
  <2> QED BY <2>2, <2>3, <2>4
<1> HIDE DEF hops
<1>3. c = [target |-> b.target, resolved_ip |-> b.resolved_ip, captured_at |-> b.captured_at,
           hop_count |-> n, hops |-> hops]
  BY <1>1
<1> HIDE DEF c
<1>4. /\ c.target = b.target /\ c.resolved_ip = b.resolved_ip /\ c.captured_at = b.captured_at
      /\ c.hop_count = n /\ c.hops = hops
  BY <1>3
<1>5. c = [target |-> c.target, resolved_ip |-> c.resolved_ip, captured_at |-> c.captured_at,
           hop_count |-> c.hop_count, hops |-> [h \in 1..MaxHop |-> c.hops[h]]]
  BY <1>2, <1>3, <1>4
<1> QED BY <1>2, <1>4, <1>5 DEF c, n, r

LEMMA BaselineStep == FileInPlace /\ ReaderInPlace /\ BaselineInPlace /\ [Steps]_vars => BaselineInPlace'
<1> SUFFICES ASSUME FileInPlace, ReaderInPlace, BaselineInPlace, [Steps]_vars PROVE BaselineInPlace'
  OBVIOUS
<1> DEFINE Shape(b) ==
             b = [target |-> b.target, resolved_ip |-> b.resolved_ip, captured_at |-> b.captured_at,
                  hop_count |-> b.hop_count, hops |-> [h \in 1..MaxHop |-> b.hops[h]]]
<1>1. /\ Shape(baseline)
      /\ baseline.hop_count \in 0..Len(old)
      /\ pos >= 5 /\ Whole(5, file[5], old) => baseline.hop_count = Len(old)
      /\ \A h \in 1..MaxHop :
           baseline.hops[h] = IF h + 6 <= pos THEN Reread(file[h + 6].value) ELSE Cleared
      /\ \A h \in 1..MaxHop : h + 6 <= pos => file[h + 6].fields >= 11
  BY DEF BaselineInPlace
<1>2. pos \in Nat /\ IsMeasurement(old) /\ Len(old) \in Nat
  BY TableShape, MaxHopAssumption DEF FileInPlace, ReaderInPlace
<1>3. MaxHop \in Nat
  BY MaxHopAssumption
<1>4. ASSUME Shape(baseline'), baseline'.hop_count \in 0..Len(old),
             pos' >= 5 /\ Whole(5, file'[5], old) => baseline'.hop_count = Len(old),
             \A h \in 1..MaxHop :
               baseline'.hops[h] = IF h + 6 <= pos' THEN Reread(file'[h + 6].value) ELSE Cleared,
             \A h \in 1..MaxHop : h + 6 <= pos' => file'[h + 6].fields >= 11,
             old' = old
      PROVE  BaselineInPlace'
  BY <1>4 DEF BaselineInPlace
<1> HIDE DEF Shape
<1>5. CASE UNCHANGED <<old, file, pos, baseline>>
  BY <1>1, <1>4, <1>5
<1>6. CASE WriteLine \/ Interrupted
  <2>1. pos = 0 /\ pos' = pos /\ old' = old /\ baseline' = baseline
    BY <1>6 DEF WriteLine, Interrupted, reader, ReaderInPlace
  <2>2. ~(pos' >= 5) /\ \A h \in 1..MaxHop : ~(h + 6 <= pos) /\ ~(h + 6 <= pos')
    BY <1>3, <2>1
  <2>3. \A h \in 1..MaxHop : baseline'.hops[h] = Cleared
    BY <1>1, <2>1, <2>2
  <2> QED BY <1>1, <1>4, <2>1, <2>2, <2>3
<1>7. ASSUME HasLine, pos' = pos + 1, UNCHANGED <<old, file, baseline>>, pos < 6,
             pos = 4 => ~Whole(5, file[5], old)
      PROVE  BaselineInPlace'
  <2>1. \A h \in 1..MaxHop : ~(h + 6 <= pos) /\ ~(h + 6 <= pos + 1)
    BY <1>2, <1>3, <1>7
  <2>2. pos + 1 >= 5 => pos >= 5 \/ pos = 4
    BY <1>2
  <2>3. \A h \in 1..MaxHop : baseline'.hops[h] = Cleared
    BY <1>1, <1>7, <2>1
  <2>4. pos' >= 5 /\ Whole(5, file'[5], old) => baseline'.hop_count = Len(old)
    BY <1>1, <1>7, <2>2
  <2> QED BY <1>1, <1>4, <1>7, <2>1, <2>3, <2>4
<1>8. CASE ReadMagic
  <2>1. HasLine /\ pos = 0 /\ pos' = 1 /\ UNCHANGED <<old, file, baseline>>
    BY <1>8 DEF ReadMagic
  <2> QED BY <1>7, <2>1
<1>9. CASE ReadColumns
  <2>1. HasLine /\ pos' = pos + 1 /\ UNCHANGED <<old, file, baseline>> /\ Line.kind = "columns"
    BY <1>9 DEF ReadColumns
  <2>2. pos = 5
    BY <2>1, NextLineRead
  <2> QED BY <1>7, <2>1, <2>2
<1>10. CASE ReadMetadata
  <2>1. /\ HasLine /\ pos > 0 /\ Line.kind # "columns" /\ ~reading_hops
        /\ baseline' = parse_metadata_line(Line, baseline) /\ pos' = pos + 1
        /\ UNCHANGED <<old, file>>
    BY <1>10 DEF ReadMetadata, HasEntry
  <2>2. pos < 6 /\ (Line.kind = "hop_count" <=> pos = 4)
    BY <1>2, <2>1, NextLineRead
  <2>3. Line.kind \in {"target", "resolved_ip", "captured_at", "hop_count", "cut"}
    <3>1. Line.kind # "row" /\ Line.kind # "columns"
      BY <1>2, <2>1, <2>2, NextLineRead
    <3>2. Line.kind # "magic"
      <4>1. pos + 1 \in 1..Len(file)
        BY <2>1, NextLineRead
      <4>2. Whole(pos + 1, Line, old) \/ Partial(pos + 1, Line, old)
        BY <4>1 DEF FileInPlace, Line
      <4> DEFINE i == pos + 1
      <4>3. i \in 2..4 \/ i = 5 \/ i = 6
        BY <1>2, <2>1, <2>2
      <4>4. Whole(i, Line, old) \/ Partial(i, Line, old)
        BY <4>2
      <4> HIDE DEF i
      <4> QED BY <4>3, <4>4 DEF Whole, Partial
    <3> QED BY <2>1, <3>1, <3>2, NextLineRead
  <2> DEFINE c == parse_metadata_line(Line, baseline)
  <2>4. /\ c = [target |-> c.target, resolved_ip |-> c.resolved_ip,
                captured_at |-> c.captured_at, hop_count |-> c.hop_count, hops |-> c.hops]
        /\ c.hops = baseline.hops
        /\ c.hop_count = IF Line.kind = "hop_count" /\ ~(Line.fields < 2) THEN Line.value
                         ELSE baseline.hop_count
    <3>1. baseline = [target |-> baseline.target, resolved_ip |-> baseline.resolved_ip,
                      captured_at |-> baseline.captured_at,
                      hop_count |-> baseline.hop_count, hops |-> baseline.hops]
      BY <1>1 DEF Shape
    <3> QED BY <2>3, <3>1, MetadataRead
  <2>5. baseline' = c
    BY <2>1
  <2> HIDE DEF c
  <2>6. baseline.hops = [h \in 1..MaxHop |-> baseline.hops[h]]
    BY <1>1 DEF Shape
  <2>7. Shape(baseline')
    BY <2>4, <2>5, <2>6 DEF Shape
  <2>8. pos = 4 =>
          /\ Whole(5, file[5], old) => ~(Line.fields < 2) /\ Line.value = Len(old)
          /\ ~(Line.fields < 2) => Line.value \in 0..Len(old)
    <3> SUFFICES ASSUME pos = 4
                 PROVE  /\ Whole(5, file[5], old) => ~(Line.fields < 2) /\ Line.value = Len(old)
                        /\ ~(Line.fields < 2) => Line.value \in 0..Len(old)
      OBVIOUS
    <3>1. pos + 1 = 5 /\ 5 \in 1..Len(file)
      BY <2>1, NextLineRead
    <3>2. Line = file[5]
      BY <3>1 DEF Line
    <3>3. Whole(5, Line, old) \/ Partial(5, Line, old)
      BY <3>1, <3>2 DEF FileInPlace
    <3>4. Whole(5, Line, old) => Line.fields = 2 /\ Line.value = Len(old)
      BY DEF Whole
    <3>5. Partial(5, Line, old) => Line.fields < 2 \/ Line.value \in 0..Len(old)
      BY DEF Partial
    <3> QED BY <1>2, <3>2, <3>3, <3>4, <3>5
  <2>9. baseline'.hop_count \in 0..Len(old)
    BY <1>1, <2>2, <2>4, <2>5, <2>8
  <2>10. pos' >= 5 /\ Whole(5, file'[5], old) => baseline'.hop_count = Len(old)
    <3>1. pos + 1 >= 5 => pos >= 5 \/ pos = 4
      BY <1>2
    <3> QED BY <1>1, <2>1, <2>2, <2>4, <2>5, <2>8, <3>1
  <2>11. \A h \in 1..MaxHop : ~(h + 6 <= pos) /\ ~(h + 6 <= pos')
    BY <1>2, <1>3, <2>1, <2>2
  <2>12. \A h \in 1..MaxHop : baseline'.hops[h] = Cleared
    BY <1>1, <2>4, <2>5, <2>11
  <2> QED BY <1>4, <2>1, <2>7, <2>9, <2>10, <2>11, <2>12
<1>11. CASE ReadHop
  <2>1. /\ HasLine /\ reading_hops /\ baseline' = parse_hop_line(Line, baseline)
        /\ pos' = pos + 1 /\ UNCHANGED <<old, file>>
    BY <1>11 DEF ReadHop, HasEntry
  <2>2. pos >= 6
    BY <2>1, NextLineRead
  <2>3. /\ pos - 5 \in 1..Len(old) /\ pos - 5 \in 1..MaxHop /\ Line.value.hop = pos - 5
        /\ Whole(5, file[5], old)
    BY <2>1, <2>2, NextRow
  <2>4. Line.value.hop \in 1..MaxHop
    BY <2>3
  <2> DEFINE c == parse_hop_line(Line, baseline)
  <2>5. /\ Shape(c)
        /\ \A h \in 1..MaxHop :
             c.hops[h] = IF h = Line.value.hop THEN Reread(Line.value) ELSE baseline.hops[h]
        /\ c.hop_count = HopCountAfter(baseline.hop_count, Line.value.hop)
    BY <1>1, <2>4, RowRead DEF Shape
  <2>6. baseline' = c
    BY <2>1
  <2> HIDE DEF c
  <2>7. baseline.hop_count = Len(old)
    <3>1. pos >= 5
      BY <1>2, <2>2
    <3> QED BY <1>1, <2>3, <3>1
  <2>8. c.hop_count = Len(old)
    BY <1>2, <2>3, <2>5, <2>7 DEF HopCountAfter
  <2>9. ASSUME NEW h \in 1..MaxHop
        PROVE  c.hops[h] = IF h + 6 <= pos + 1 THEN Reread(file[h + 6].value) ELSE Cleared
    <3>1. CASE h = pos - 5
      <4>1. h + 6 = pos + 1 /\ h + 6 <= pos + 1
        BY <1>2, <3>1
      <4>2. c.hops[h] = Reread(Line.value)
        BY <2>3, <2>5, <3>1
      <4>3. Line = file[h + 6]
        BY <4>1 DEF Line
      <4> QED BY <4>1, <4>2, <4>3
    <3>2. CASE h # pos - 5
      <4>1. h + 6 <= pos + 1 <=> h + 6 <= pos
        BY <1>2, <1>3, <3>2
      <4>2. c.hops[h] = baseline.hops[h]
        BY <2>3, <2>5, <3>2
      <4> QED BY <1>1, <4>1, <4>2
    <3> QED BY <3>1, <3>2
  <2>10. baseline'.hop_count = Len(old) /\ Len(old) \in 0..Len(old)
    BY <1>2, <2>6, <2>8
  <2>11. \A h \in 1..MaxHop :
           baseline'.hops[h] = IF h + 6 <= pos' THEN Reread(file'[h + 6].value) ELSE Cleared
    BY <2>1, <2>6, <2>9
  <2>12. Shape(baseline')
    BY <2>5, <2>6
  <2>13. ASSUME NEW h \in 1..MaxHop, h + 6 <= pos' PROVE file'[h + 6].fields >= 11
    <3>1. CASE h = pos - 5
      <4>1. h + 6 = pos + 1
        BY <1>2, <3>1
      <4>0. Line.fields = 10 \/ Line.fields = 11
        BY <2>1, <2>2, NextRow
      <4>2. Line.fields >= 11
        BY <1>11, <4>0 DEF ReadHop, HopLineFails, split_tab_fields
      <4> QED BY <2>1, <4>1, <4>2 DEF Line
    <3>2. CASE h # pos - 5
      <4>1. h + 6 <= pos
        BY <1>2, <1>3, <2>1, <2>13, <3>2
      <4> QED BY <1>1, <2>1, <4>1
    <3> QED BY <3>1, <3>2
  <2> QED BY <1>4, <2>1, <2>10, <2>11, <2>12, <2>13
<1>12. CASE Saved \/ Refuse \/ ReadAll
  <2>1. UNCHANGED <<old, file, pos, baseline>>
    BY <1>12 DEF Saved, Refuse, ReadAll, reader
  <2> QED BY <1>5, <2>1
<1>13. CASE \E measured \in Measurements : Compare(measured)
  <2>1. UNCHANGED <<old, file, pos, baseline>>
    BY <1>13 DEF Compare, reader
  <2> QED BY <1>5, <2>1
<1>14. CASE Finished \/ UNCHANGED vars
  <2>1. UNCHANGED <<old, file, pos, baseline>>
    BY <1>14 DEF Finished, vars, reader
  <2> QED BY <1>5, <2>1
<1>15. ~ReadBlank
  BY NextLineRead DEF ReadBlank
<1> QED BY <1>6, <1>8, <1>9, <1>10, <1>11, <1>12, <1>13, <1>14, <1>15 DEF Steps

LEMMA ComparisonInit == Init => ComparisonInPlace
  BY DEF Init, ComparisonInPlace

LEMMA ComparisonStep == ComparisonInPlace /\ [Next]_vars => ComparisonInPlace'
<1> SUFFICES ASSUME ComparisonInPlace, [Next]_vars PROVE ComparisonInPlace'
  OBVIOUS
<1>1. CASE \E measured \in Measurements : Compare(measured)
  <2>1. PICK measured \in Measurements : Compare(measured)
    BY <1>1
  <2>2. /\ pc' = "done" /\ current' = measured /\ baseline' = baseline
        /\ changes' = print_baseline_change_list(baseline, measured, Len(measured))
        /\ diagnosis' = evaluate_mtr_quality(baseline, measured, Len(measured))
    BY <2>1 DEF Compare, reader
  <2>3. IsMeasurement(measured)
    BY MeasurementsSound
  <2> QED BY <2>2, <2>3 DEF ComparisonInPlace
<1>2. CASE UNCHANGED vars \/ Finished
  <2>1. UNCHANGED <<old, pc, baseline, current, changes, diagnosis>>
    BY <1>2 DEF Finished, vars, reader, comparison
  <2> QED BY <2>1 DEF ComparisonInPlace
<1>3. ASSUME pc # "done", pc' # "done", UNCHANGED <<old, changes, diagnosis>>
      PROVE  ComparisonInPlace'
  BY <1>3 DEF ComparisonInPlace
<1>4. CASE WriteLine \/ Interrupted \/ Saved \/ Refuse \/ ReadAll
  <2>1. pc # "done" /\ pc' # "done" /\ UNCHANGED <<old, changes, diagnosis>>
    BY <1>4 DEF WriteLine, Interrupted, Saved, Refuse, ReadAll, comparison
  <2> QED BY <1>3, <2>1
<1>5. CASE ReadMagic \/ ReadBlank \/ ReadColumns \/ Edited
  <2>1. pc = "read" /\ pc' = pc /\ UNCHANGED <<old, changes, diagnosis>>
    BY <1>5 DEF ReadMagic, ReadBlank, ReadColumns, Edited, HasLine, comparison
  <2> QED BY <1>3, <2>1
<1>6. CASE ReadMetadata \/ ReadHop
  <2>1. pc = "read" /\ pc' = pc /\ UNCHANGED <<old, changes, diagnosis>>
    BY <1>6 DEF ReadMetadata, ReadHop, HasEntry, HasLine, comparison
  <2> QED BY <1>3, <2>1
<1> QED BY <1>1, <1>2, <1>4, <1>5, <1>6 DEF Steps, Next

-----------------------------------------------------------------------------
(* What holds of an edited file as well: it is the range checks of the       *)
(* reader that keep the rows within the array.                               *)

Shaped(b) ==
  b = [target |-> b.target, resolved_ip |-> b.resolved_ip, captured_at |-> b.captured_at,
       hop_count |-> b.hop_count, hops |-> [h \in 1..MaxHop |-> b.hops[h]]]

InRange(b) ==
  /\ Shaped(b) /\ b.hop_count \in 0..MaxHop
  /\ \A h \in 1..MaxHop :
       b.hops[h].hop \in {0, h} /\ (b.hops[h].sent # 0 => b.hops[h].hop = h)

EditedInPlace ==
  /\ edited \in BOOLEAN
  /\ edited =>
       /\ pc \in {"read", "refused", "accepted", "done"}
       /\ torn \in BOOLEAN /\ reading_hops \in BOOLEAN
       /\ Len(file) \in Nat /\ Len(file) <= 7 + MaxHop /\ pos \in 0..Len(file)

Invariant ==
  /\ edited \/ IInv
  /\ ComparisonInPlace /\ InRange(baseline) /\ EditedInPlace

LEMMA EmptyInRange == InRange(EmptyBaseline)
<1> DEFINE hops == [h \in 1..MaxHop |-> Cleared]
           b == EmptyBaseline
<1>1. b = [target |-> b.target, resolved_ip |-> b.resolved_ip, captured_at |-> b.captured_at,
           hop_count |-> b.hop_count, hops |-> hops]
  BY DEF EmptyBaseline
<1>2. b.hop_count = 0 /\ b.hops = hops
  BY DEF EmptyBaseline
<1>3. hops = [h \in 1..MaxHop |-> hops[h]] /\ \A h \in 1..MaxHop : hops[h] = Cleared
  OBVIOUS
<1> HIDE DEF hops, b
<1>4. Shaped(b)
  BY <1>1, <1>2, <1>3 DEF Shaped
<1> QED BY <1>2, <1>3, <1>4, ClearedFields, MaxHopAssumption DEF InRange, b

(* A line about the whole path that does not fail. *)
LEMMA MetadataInRange ==
  ASSUME NEW b, InRange(b), NEW line, ~MetadataFails(line)
  PROVE  InRange(parse_metadata_line(line, b))
<1> DEFINE c == parse_metadata_line(line, b)
           known == line.kind \in {"target", "resolved_ip", "captured_at", "hop_count", "cut"}
<1>1. CASE line.fields < 2 \/ ~known
  <2>1. c = b
    BY <1>1 DEF parse_metadata_line
  <2> QED BY <2>1
<1>2. CASE ~(line.fields < 2) /\ known
  <2>1. b = [target |-> b.target, resolved_ip |-> b.resolved_ip, captured_at |-> b.captured_at,
             hop_count |-> b.hop_count, hops |-> b.hops]
        /\ b.hops = [h \in 1..MaxHop |-> b.hops[h]]
    BY DEF InRange, Shaped
  <2>2. /\ c = [target |-> c.target, resolved_ip |-> c.resolved_ip,
                captured_at |-> c.captured_at, hop_count |-> c.hop_count, hops |-> c.hops]
        /\ c.hops = b.hops
        /\ c.hop_count = IF line.kind = "hop_count" /\ ~(line.fields < 2) THEN line.value
                         ELSE b.hop_count
    <3>1. line.kind \in {"target", "resolved_ip", "captured_at", "hop_count", "cut"}
      BY <1>2
    <3>2. b = [target |-> b.target, resolved_ip |-> b.resolved_ip, captured_at |-> b.captured_at,
               hop_count |-> b.hop_count, hops |-> b.hops]
      BY <2>1
    <3> HIDE DEF known
    <3> QED BY <3>1, <3>2, MetadataRead
  <2>3. line.kind = "hop_count" => line.value \in 0..MaxHop
    BY <1>2 DEF MetadataFails
  <2> HIDE DEF c
  <2>4. Shaped(c)
    BY <2>1, <2>2 DEF Shaped
  <2>5. c.hop_count \in 0..MaxHop
    BY <2>2, <2>3 DEF InRange
  <2>6. InRange(c)
    BY <2>2, <2>4, <2>5 DEF InRange
  <2> QED BY <2>6 DEF c
<1> QED BY <1>1, <1>2

LEMMA RowInRange ==
  ASSUME NEW b, InRange(b), NEW line, ~HopLineFails(line)
  PROVE  InRange(parse_hop_line(line, b))
<1> DEFINE c == parse_hop_line(line, b)
           v == line.value
<1>1. v.hop \in 1..MaxHop /\ MaxHop \in Nat
  BY MaxHopAssumption DEF HopLineFails, valid_hop
<1>2. /\ Shaped(c)
      /\ \A h \in 1..MaxHop : c.hops[h] = IF h = v.hop THEN Reread(v) ELSE b.hops[h]
      /\ c.hop_count = HopCountAfter(b.hop_count, v.hop)
  BY <1>1, RowRead DEF InRange, Shaped
<1>3. Reread(v).hop = v.hop
  BY RereadFields
<1> HIDE DEF c, v
<1>4. c.hop_count \in 0..MaxHop
  BY <1>1, <1>2 DEF InRange, HopCountAfter
<1>5. ASSUME NEW h \in 1..MaxHop
      PROVE  c.hops[h].hop \in {0, h} /\ (c.hops[h].sent # 0 => c.hops[h].hop = h)
  <2>1. CASE h = v.hop
    BY <1>2, <1>3, <2>1
  <2>2. CASE h # v.hop
    BY <1>2, <2>2 DEF InRange
  <2> QED BY <2>1, <2>2
<1>6. InRange(c)
  BY <1>2, <1>4, <1>5 DEF InRange
<1> QED BY <1>6 DEF c

LEMMA RangesStep == InRange(baseline) /\ [Next]_vars => InRange(baseline)'
<1> SUFFICES ASSUME InRange(baseline), [Next]_vars PROVE InRange(baseline')
  BY DEF InRange, Shaped
<1>1. CASE ReadMetadata
  BY <1>1, MetadataInRange DEF ReadMetadata
<1>2. CASE ReadHop
  BY <1>2, RowInRange DEF ReadHop
<1>3. CASE UNCHANGED baseline
  BY <1>3
<1>4. CASE WriteLine \/ Interrupted \/ Saved \/ Edited
  BY <1>3, <1>4 DEF WriteLine, Interrupted, Saved, Edited, reader
<1>5. CASE ReadMagic \/ ReadBlank \/ ReadColumns \/ Refuse \/ ReadAll
  BY <1>3, <1>5 DEF ReadMagic, ReadBlank, ReadColumns, Refuse, ReadAll, reader
<1>6. CASE \E measured \in Measurements : Compare(measured)
  BY <1>3, <1>6 DEF Compare, reader
<1>7. CASE Finished \/ UNCHANGED vars
  BY <1>3, <1>7 DEF Finished, vars, reader
<1> QED BY <1>1, <1>2, <1>4, <1>5, <1>6, <1>7 DEF Steps, Next

LEMMA StaysEdited ==
  ASSUME edited, [Next]_vars
  PROVE  edited'
<1>1. CASE WriteLine \/ Interrupted \/ Saved \/ Edited
  BY <1>1 DEF WriteLine, Interrupted, Saved, Edited
<1>2. CASE ReadMagic \/ ReadBlank \/ ReadColumns \/ Refuse \/ ReadAll
  BY <1>2 DEF ReadMagic, ReadBlank, ReadColumns, Refuse, ReadAll
<1>3. CASE ReadMetadata \/ ReadHop
  BY <1>3 DEF ReadMetadata, ReadHop
<1>4. CASE \E measured \in Measurements : Compare(measured)
  BY <1>4 DEF Compare
<1>5. CASE Finished \/ UNCHANGED vars
  BY <1>5 DEF Finished, vars
<1> QED BY <1>1, <1>2, <1>3, <1>4, <1>5 DEF Steps, Next

(* The file is not longer than the header and a row for every hop. *)
LEMMA FileLength ==
  ASSUME FileInPlace
  PROVE  file \in Seq(Text(old)) /\ Len(file) \in Nat /\ Len(file) <= 6 + MaxHop
<1>1. IsMeasurement(old) /\ file \in Seq(Text(old)) /\ Len(file) <= Len(Lines(old))
  BY DEF FileInPlace
<1>2. PICK k \in 1..Len(old) : LinesInPlace(old, k)
  BY <1>1, LinesShape
<1>3. Len(Lines(old)) = 6 + k
  BY <1>2 DEF LinesInPlace
<1>4. Len(old) \in 1..MaxHop /\ MaxHop \in Nat
  BY <1>1, TableShape, MaxHopAssumption
<1>5. Len(file) \in Nat
  BY <1>1
<1> QED BY <1>1, <1>2, <1>3, <1>4, <1>5

LEMMA InsertedLength ==
  ASSUME NEW S, NEW s \in Seq(S), NEW e, NEW i \in 1..Len(s)
  PROVE  Len(InsertAt(s, i + 1, e)) = Len(s) + 1
<1> DEFINE T == S \cup {e}
           a == SubSeq(s, 1, i)
           b == SubSeq(s, i + 1, Len(s))
<1>1. s \in Seq(T) /\ i \in Nat /\ Len(s) \in Nat /\ i + 1 - 1 = i
  OBVIOUS
<1>2. a \in Seq(T) /\ Len(a) = i
  BY <1>1
<1>3. b \in Seq(T) /\ Len(b) = Len(s) - i
  BY <1>1
<1>4. <<e>> \in Seq(T) /\ Len(<<e>>) = 1
  OBVIOUS
<1>5. InsertAt(s, i + 1, e) = (a \o <<e>>) \o b
  <2> DEFINE k == i + 1
             j == k - 1
  <2>1. InsertAt(s, k, e) = SubSeq(s, 1, k - 1) \o <<e>> \o SubSeq(s, k, Len(s))
    <3> HIDE DEF k
    <3> QED BY DEF InsertAt
  <2>2. j = i
    BY <1>1
  <2>3. SubSeq(s, 1, j) = SubSeq(s, 1, i)
    <3> HIDE DEF j
    <3> QED BY <2>2
  <2> QED BY <2>1, <2>3
<1> HIDE DEF a, b, T
<1>6. a \o <<e>> \in Seq(T) /\ Len(a \o <<e>>) = i + 1
  BY <1>1, <1>2, <1>4
<1>7. Len((a \o <<e>>) \o b) = i + 1 + (Len(s) - i)
  BY <1>1, <1>3, <1>6
<1> QED BY <1>1, <1>5, <1>7

LEMMA EditedStep ==
  ASSUME Invariant, [Next]_vars
  PROVE  EditedInPlace'
<1>0. MaxHop \in Nat
  BY MaxHopAssumption
<1>1. /\ edited \in BOOLEAN
      /\ edited => /\ pc \in {"read", "refused", "accepted", "done"}
                   /\ torn \in BOOLEAN /\ reading_hops \in BOOLEAN
                   /\ Len(file) \in Nat /\ Len(file) <= 7 + MaxHop /\ pos \in 0..Len(file)
  BY DEF Invariant, EditedInPlace
<1>2. CASE Edited
  <2>1. /\ pc = "read" /\ pos = 0 /\ ~edited /\ edited' = TRUE
        /\ UNCHANGED <<torn, pc, pos, reading_hops>>
    BY <1>2 DEF Edited, reader
  <2>2. FileInPlace /\ torn \in BOOLEAN /\ reading_hops \in BOOLEAN
    BY <2>1 DEF Invariant, IInv, FileInPlace, ReaderInPlace
  <2>3. file \in Seq(Text(old)) /\ Len(file) \in Nat /\ Len(file) <= 6 + MaxHop
    BY <2>2, FileLength
  <2>4. Len(file') = Len(file) \/ Len(file') = Len(file) + 1
    <3>1. ASSUME NEW i \in DOMAIN file, NEW n, file' = [file EXCEPT ![i].value = n]
          PROVE  Len(file') = Len(file)
      BY <2>3, <3>1
    <3>2. ASSUME NEW i \in DOMAIN file, NEW n, file' = [file EXCEPT ![i].value.hop = n]
          PROVE  Len(file') = Len(file)
      BY <2>3, <3>2
    <3>3. ASSUME NEW i \in DOMAIN file, file' = InsertAt(file, i + 1, Blank)
          PROVE  Len(file') = Len(file) + 1
      <4>1. i \in 1..Len(file)
        BY <2>3
      <4> QED BY <2>3, <3>3, <4>1, InsertedLength
    <3> QED BY <1>2, <3>1, <3>2, <3>3 DEF Edited
  <2>5. Len(file') \in Nat /\ Len(file') <= 7 + MaxHop /\ 0 \in 0..Len(file')
    BY <1>0, <2>3, <2>4
  <2> QED BY <2>1, <2>2, <2>5 DEF EditedInPlace
<1>3. CASE ~edited /\ edited' = edited
  BY <1>1, <1>3 DEF EditedInPlace
<1>4. ASSUME edited, edited' = edited, UNCHANGED <<file, torn>>,
             pos' = pos \/ (HasLine /\ pos' = pos + 1),
             pc' \in {"read", "refused", "accepted", "done"}, reading_hops' \in BOOLEAN
      PROVE  EditedInPlace'
  <2>1. pos' \in 0..Len(file)
    <3>1. pos \in 0..Len(file) /\ Len(file) \in Nat
      BY <1>1, <1>4
    <3>2. HasLine => pos + 1 \in 0..Len(file)
      BY <3>1 DEF HasLine
    <3> QED BY <1>4, <3>1, <3>2
  <2> QED BY <1>1, <1>4, <2>1 DEF EditedInPlace
<1>5. CASE WriteLine \/ Interrupted \/ Saved
  <2>1. pc = "write" /\ edited' = edited
    BY <1>5 DEF WriteLine, Interrupted, Saved
  <2> QED BY <1>1, <1>3, <2>1
<1>6. CASE ReadMagic \/ ReadBlank \/ ReadColumns
  <2>1. /\ HasLine /\ UNCHANGED <<file, torn, edited, pc>> /\ pc = "read"
        /\ (ReadMagic /\ pos = 0 /\ pos' = 1) \/ pos' = pos + 1
        /\ reading_hops' = reading_hops \/ reading_hops' = TRUE
    BY <1>6 DEF ReadMagic, ReadBlank, ReadColumns, HasLine
  <2>2. pos' = pos + 1
    BY <2>1
  <2> QED BY <1>1, <1>3, <1>4, <2>1, <2>2
<1>7. CASE ReadMetadata \/ ReadHop
  <2>1. /\ HasLine /\ UNCHANGED <<file, torn, edited, pc, reading_hops>> /\ pc = "read"
        /\ pos' = pos + 1
    BY <1>7 DEF ReadMetadata, ReadHop, HasEntry, HasLine
  <2> QED BY <1>1, <1>3, <1>4, <2>1
<1>8. CASE Refuse \/ ReadAll
  <2>1. UNCHANGED <<file, torn, edited, pos, reading_hops>> /\ pc' \in {"refused", "accepted"}
    BY <1>8 DEF Refuse, ReadAll, reader
  <2> QED BY <1>1, <1>3, <1>4, <2>1
<1>9. CASE \E measured \in Measurements : Compare(measured)
  <2>1. UNCHANGED <<file, torn, edited, pos, reading_hops>> /\ pc' = "done"
    BY <1>9 DEF Compare, reader
  <2> QED BY <1>1, <1>3, <1>4, <2>1
<1>10. CASE Finished \/ UNCHANGED vars
  <2>1. UNCHANGED <<file, torn, edited, pos, reading_hops, pc>>
    BY <1>10 DEF Finished, vars, reader
  <2> QED BY <1>1, <1>3, <1>4, <2>1
<1> QED BY <1>2, <1>5, <1>6, <1>7, <1>8, <1>9, <1>10 DEF Steps, Next

(* The invariant is inductive, and holds of every behaviour. *)
THEOREM BaselineInvariant == Spec => []Invariant
<1>1. Init => Invariant
  <2> SUFFICES ASSUME Init PROVE Invariant
    OBVIOUS
  <2>1. IInv
    BY FileInit, ReaderInit, BaselineInit, ComparisonInit DEF IInv
  <2>2. baseline = EmptyBaseline /\ edited = FALSE
    BY DEF Init
  <2>3. EditedInPlace
    BY <2>2 DEF EditedInPlace
  <2>4. InRange(baseline)
    BY <2>2, EmptyInRange
  <2> QED BY <2>1, <2>3, <2>4 DEF Invariant, IInv
<1>2. Invariant /\ [Next]_vars => Invariant'
  <2> SUFFICES ASSUME Invariant, [Next]_vars PROVE Invariant'
    OBVIOUS
  <2>1. ComparisonInPlace'
    BY ComparisonStep DEF Invariant
  <2>2. InRange(baseline)'
    BY RangesStep DEF Invariant
  <2>3. EditedInPlace'
    BY EditedStep DEF Invariant
  <2>4. edited' \/ IInv'
    <3>1. CASE edited
      BY <3>1, StaysEdited
    <3>2. CASE Edited
      BY <3>2 DEF Edited
    <3>3. CASE ~edited /\ [Steps]_vars
      BY <3>3, FileStep, ReaderStep, BaselineStep, ComparisonStep DEF IInv, Invariant, Next
    <3> QED BY <3>1, <3>2, <3>3 DEF Next
  <2> QED BY <2>1, <2>2, <2>3, <2>4 DEF Invariant
<1> QED BY <1>1, <1>2, PTL DEF Spec

-----------------------------------------------------------------------------
(* What is saved is what was measured, up to the rounding. *)

LEMMA RoundedNear ==
  ASSUME NEW n \in Nat, NEW d \in Nat, d > 0, NEW unit \in Nat, unit > 0,
         NEW t \in Rounded(<<n, d>>, unit)
  PROVE  /\ t \in Nat
         /\ 2 * (n - t * d * unit) <= d * unit
         /\ 2 * (t * d * unit - n) <= d * unit
<1> DEFINE m == d * unit
           low == n \div m
<1>1. m \in Nat /\ m > 0
  BY SMTT(30)
<1>2. /\ t \in {low, low + 1}
      /\ 2 * (n - t * d * unit) <= d * unit
      /\ 2 * (t * d * unit - n) <= d * unit
  BY DEF Rounded
<1>3. low \in Nat
  <2> HIDE DEF m
  <2> QED BY <1>1
<1> HIDE DEF low
<1> QED BY <1>2, <1>3

(* What a restored hop says, and what there was to restore.                  *)
SamplesSaved(r, s) ==
  /\ \E t \in Rounded(<<s.last_ms, 1>>, Tenth) : r.last_ms = t * Tenth
  /\ \E t \in Rounded(<<s.best_ms, 1>>, Tenth) : r.best_ms = t * Tenth
  /\ \E t \in Rounded(<<s.worst_ms, 1>>, Tenth) : r.worst_ms = t * Tenth

SavedFrom(r, s) ==
  /\ r.hop = s.hop /\ r.remote_ip = s.remote_ip
  /\ r.sent = s.sent /\ r.received = s.received
  /\ (r.has_rtt <=> s.has_rtt) /\ (r.has_jitter <=> s.has_jitter)
  /\ r.has_rtt \in BOOLEAN /\ r.has_jitter \in BOOLEAN
  /\ \E t \in Rounded(<<1000 * s.no_reply[1], s.no_reply[2]>>, 1) : r.no_reply = <<t, 1000>>
  /\ \E t \in Rounded(s.avg_ms, Tenth) : r.avg_ms = <<t * Tenth, 1>>
  /\ \E t \in Rounded(s.jitter_ms, Tenth) : r.jitter_ms = <<t * Tenth, 1>>
  /\ SamplesSaved(r, s)

LEMMA RowSaves ==
  ASSUME NEW s \in HopStats, FlagsAgree(s), NEW v, RowOf(v, s)
  PROVE  SavedFrom(Reread(v), s)
<1> DEFINE r == Reread(v)
<1>1. /\ r.hop = s.hop /\ r.remote_ip = s.remote_ip
      /\ r.sent = s.sent /\ r.received = s.received
      /\ r.no_reply = <<v.no_reply, 1000>>
      /\ r.avg_ms = <<v.avg_ms * Tenth, 1>> /\ r.jitter_ms = <<v.jitter_ms * Tenth, 1>>
  BY RereadFields DEF RowOf
<1>2. /\ r.has_rtt \in BOOLEAN /\ (r.has_rtt <=> v.received > 0)
      /\ r.has_jitter \in BOOLEAN /\ (r.has_jitter <=> v.received > 1)
  BY RereadFlags
<1>3. /\ v.no_reply \in Rounded(<<1000 * s.no_reply[1], s.no_reply[2]>>, 1)
      /\ v.avg_ms \in Rounded(s.avg_ms, Tenth) /\ v.jitter_ms \in Rounded(s.jitter_ms, Tenth)
      /\ v.received = s.received
  BY DEF RowOf
<1>4. (s.has_rtt <=> s.received > 0) /\ (s.has_jitter <=> s.received > 1)
  BY DEF FlagsAgree
<1> HIDE DEF r
<1>5. (r.has_rtt <=> s.has_rtt) /\ (r.has_jitter <=> s.has_jitter)
  BY <1>2, <1>3, <1>4
<1>6. \E t \in Rounded(<<1000 * s.no_reply[1], s.no_reply[2]>>, 1) : r.no_reply = <<t, 1000>>
  BY <1>1, <1>3
<1>7. \E t \in Rounded(s.avg_ms, Tenth) : r.avg_ms = <<t * Tenth, 1>>
  BY <1>1, <1>3
<1>8. \E t \in Rounded(s.jitter_ms, Tenth) : r.jitter_ms = <<t * Tenth, 1>>
  BY <1>1, <1>3
<1>9. SamplesSaved(r, s)
  <2>1. SamplesOf(v, s)
    BY DEF RowOf
  <2>2. r.last_ms = v.last_ms * Tenth /\ r.best_ms = v.best_ms * Tenth /\ r.worst_ms = v.worst_ms * Tenth
    BY RereadSamples DEF r
  <2> QED BY <2>1, <2>2 DEF SamplesSaved, SamplesOf
<1>10. SavedFrom(r, s)
  BY <1>1, <1>2, <1>5, <1>6, <1>7, <1>8, <1>9 DEF SavedFrom
<1> QED BY <1>10 DEF r

(* Quotients over a positive number. *)
Positive(q) == q[1] \in Nat /\ q[2] \in Nat /\ q[2] > 0 /\ q = <<q[1], q[2]>>

LEMMA QuotientsPositive ==
  ASSUME NEW s \in HopStats, Quotients(s), s.received <= s.sent
  PROVE  Positive(s.no_reply) /\ Positive(s.avg_ms) /\ Positive(s.jitter_ms)
<1>1. /\ s.sent \in Nat /\ s.received \in Nat /\ s.total_ms \in Nat /\ s.jitter_total_ms \in Nat
  BY Fields
<1>2. \A m, n \in Nat : n > 0 => Positive(<<m, n>>)
  BY DEF Positive
<1>3. Positive(s.no_reply)
  <2>1. CASE s.sent = 0
    BY <1>2, <2>1 DEF Quotients
  <2>2. CASE s.sent # 0
    <3>1. s.no_reply = <<s.sent - s.received, s.sent>>
      BY <2>2 DEF Quotients
    <3>2. s.sent - s.received \in Nat /\ s.sent > 0
      BY <1>1, <2>2
    <3> QED BY <1>1, <1>2, <3>1, <3>2
  <2> QED BY <2>1, <2>2
<1>4. Positive(s.avg_ms)
  <2>1. CASE s.received = 0
    BY <1>2, <2>1 DEF Quotients
  <2>2. CASE s.received # 0
    <3>1. s.avg_ms = <<s.total_ms, s.received>> /\ s.received > 0
      BY <1>1, <2>2 DEF Quotients
    <3> QED BY <1>1, <1>2, <3>1
  <2> QED BY <2>1, <2>2
<1>5. Positive(s.jitter_ms)
  <2>1. CASE s.received <= 1
    BY <1>2, <2>1 DEF Quotients
  <2>2. CASE ~(s.received <= 1)
    <3>1. s.jitter_ms = <<s.jitter_total_ms, s.received - 1>>
      BY <2>2 DEF Quotients
    <3>2. s.received - 1 \in Nat /\ s.received - 1 > 0
      BY <1>1, <2>2
    <3> QED BY <1>1, <1>2, <3>1, <3>2
  <2> QED BY <2>1, <2>2
<1> QED BY <1>3, <1>4, <1>5

(* A saved time and a saved percentage are near the measured ones. *)
LEMMA TimeNear ==
  ASSUME NEW q, Positive(q), NEW t \in Rounded(q, Tenth)
  PROVE  t \in Nat /\ Near(<<t * Tenth, 1>>, q, Tenth)
<1> DEFINE n == q[1]
           d == q[2]
<1>1. n \in Nat /\ d \in Nat /\ d > 0 /\ t \in Rounded(<<n, d>>, Tenth)
  BY DEF Positive
<1>2. Tenth \in Nat /\ Tenth > 0
  BY TenthAssumption
<1>3. /\ t \in Nat
      /\ 2 * (n - t * d * Tenth) <= d * Tenth
      /\ 2 * (t * d * Tenth - n) <= d * Tenth
  BY <1>1, <1>2, RoundedNear
<1> HIDE DEF n, d
<1>4. /\ 2 * ((t * Tenth) * d - n * 1) <= Tenth * 1 * d
      /\ 2 * (n * 1 - (t * Tenth) * d) <= Tenth * 1 * d
  BY <1>1, <1>2, <1>3
<1>5. Near(<<t * Tenth, 1>>, q, Tenth)
  BY <1>4 DEF Near, n, d
<1> QED BY <1>3, <1>5

LEMMA PercentNear ==
  ASSUME NEW q, Positive(q), NEW t \in Rounded(<<1000 * q[1], q[2]>>, 1)
  PROVE  /\ t \in Nat
         /\ Near(<<1000 * t, 1000>>, <<1000 * q[1], q[2]>>, 1)
<1> DEFINE n == q[1]
           d == q[2]
<1>1. n \in Nat /\ d \in Nat /\ d > 0 /\ 1000 * n \in Nat /\ t \in Rounded(<<1000 * n, d>>, 1)
  BY DEF Positive
<1>2. /\ t \in Nat
      /\ 2 * (1000 * n - t * d * 1) <= d * 1
      /\ 2 * (t * d * 1 - 1000 * n) <= d * 1
  BY <1>1, RoundedNear
<1> HIDE DEF n, d
<1>3. /\ 2 * ((1000 * t) * d - (1000 * n) * 1000) <= 1 * 1000 * d
      /\ 2 * ((1000 * n) * 1000 - (1000 * t) * d) <= 1 * 1000 * d
  BY <1>1, <1>2
<1>4. Near(<<1000 * t, 1000>>, <<1000 * n, d>>, 1)
  BY <1>3 DEF Near
<1> QED BY <1>2, <1>4 DEF n, d

LEMMA StatusRead ==
  /\ \A status \in {"UNKNOWN", "TIMEOUT", "ERROR", "HOP", "DESTINATION"} :
       parse_trace_status(trace_status_name(status)) = status
  /\ parse_trace_status("cut") = "UNKNOWN"
  BY DEF parse_trace_status, trace_status_name

(* The first n hops of the baseline are those of the first run, up to the    *)
(* rounding; the rest of it is cleared.                                      *)
Comeback(n) ==
  /\ n \in 0..Len(old)
  /\ \A h \in 1..n :
       /\ old[h].sent > 0 /\ SavedFrom(baseline.hops[h], old[h])
       /\ \/ baseline.hops[h].status = old[h].status
          \/ torn /\ h + 6 = Len(file) /\ baseline.hops[h].status = "UNKNOWN"
  /\ \A h \in 1..MaxHop : h > n => baseline.hops[h] = Cleared
  /\ baseline.hop_count \in 0..Len(old)
  /\ n > 0 => baseline.hop_count = Len(old)
  /\ ~torn => baseline.hop_count = Len(old) /\ Deep(old, n)

LEMMA WhatComesBack ==
  ASSUME IInv, pc \in {"accepted", "done"}
  PROVE  \E n \in Nat : Comeback(n)
<1>1. /\ IsMeasurement(old) /\ file \in Seq(Text(old)) /\ Len(file) <= Len(Lines(old))
      /\ \A i \in 1..Len(file) :
           Whole(i, file[i], old) \/ (torn /\ i = Len(file) /\ Partial(i, file[i], old))
      /\ ~torn => Len(file) = Len(Lines(old))
  BY DEF IInv, FileInPlace
<1>2. pos > 0 /\ pos = Len(file)
  BY DEF IInv, ReaderInPlace
<1>3. /\ baseline.hop_count \in 0..Len(old)
      /\ pos >= 5 /\ Whole(5, file[5], old) => baseline.hop_count = Len(old)
      /\ \A h \in 1..MaxHop :
           baseline.hops[h] = IF h + 6 <= pos THEN Reread(file[h + 6].value) ELSE Cleared
      /\ \A h \in 1..MaxHop : h + 6 <= pos => file[h + 6].fields >= 11
  BY DEF IInv, BaselineInPlace
<1>4. PICK k \in 1..Len(old) : Deep(old, k) /\ LinesInPlace(old, k)
  BY <1>1, LinesShape
<1>5. Len(Lines(old)) = 6 + k
  BY <1>4 DEF LinesInPlace
<1>6. /\ Len(old) \in 1..MaxHop
      /\ \A h \in 1..Len(old) : old[h] \in HopStats /\ FlagsAgree(old[h])
  BY <1>1, TableShape
<1>7. MaxHop \in Nat /\ Len(old) \in Nat /\ k \in Nat /\ k <= Len(old) /\ Len(old) <= MaxHop
  BY <1>4, <1>6, MaxHopAssumption
<1>8. Len(file) \in Nat /\ Len(file) <= 6 + k
  BY <1>1, <1>5
<1> DEFINE n == IF Len(file) >= 6 THEN Len(file) - 6 ELSE 0
<1>9. n \in 0..k /\ \A h \in Nat : h > 0 => (h <= n <=> h + 6 <= Len(file))
  BY <1>7, <1>8
<1>10. ~torn => n = k
  BY <1>1, <1>5, <1>7
<1>11. n > 0 => Len(file) > 6
  BY <1>8
<1> HIDE DEF n
<1>12. ASSUME NEW h \in 1..n
       PROVE  /\ old[h].sent > 0 /\ SavedFrom(baseline.hops[h], old[h])
              /\ \/ baseline.hops[h].status = old[h].status
                 \/ torn /\ h + 6 = Len(file) /\ baseline.hops[h].status = "UNKNOWN"
  <2>1. h \in 1..Len(old) /\ h \in 1..MaxHop /\ h <= k /\ h \in Nat /\ h > 0
    BY <1>7, <1>9
  <2>2. h + 6 <= Len(file) /\ h + 6 \in 1..Len(file)
    BY <1>8, <1>9, <2>1
  <2>3. baseline.hops[h] = Reread(file[h + 6].value) /\ file[h + 6].fields >= 11
    BY <1>2, <1>3, <2>1, <2>2
  <2>4. old[h].sent > 0
    BY <1>4, <2>1 DEF Deep
  <2> DEFINE i == h + 6
             line == file[i]
  <2>5. Whole(i, line, old) \/ (torn /\ i = Len(file) /\ Partial(i, line, old))
    BY <1>1, <2>2
  <2>6. i > 6 /\ i - 6 = h
    BY <2>1
  <2>7. line.fields >= 11 /\ baseline.hops[h] = Reread(line.value)
    BY <2>3
  <2> HIDE DEF i, line
  <2>8. RowOf(line.value, old[h])
    BY <2>5, <2>6 DEF Whole, Partial
  <2>9. old[h] \in HopStats /\ FlagsAgree(old[h])
    BY <1>6, <2>1
  <2>10. SavedFrom(Reread(line.value), old[h])
    BY <2>8, <2>9, RowSaves
  <2>11. old[h].status \in {"UNKNOWN", "TIMEOUT", "ERROR", "HOP", "DESTINATION"}
    BY <2>9 DEF HopStats
  <2>12. Reread(line.value).status = parse_trace_status(line.value.status)
    BY RereadFields
  <2>13. line.fields = 10 => ~(line.fields >= 11)
    OBVIOUS
  <2>14. \/ line.value.status = trace_status_name(old[h].status)
         \/ torn /\ i = Len(file) /\ line.value.status = "cut"
    BY <2>5, <2>6, <2>7, <2>13 DEF Whole, Partial
  <2>15. CASE line.value.status = trace_status_name(old[h].status)
    <3>1. parse_trace_status(line.value.status) = old[h].status
      BY <2>11, <2>15, StatusRead
    <3> QED BY <2>4, <2>7, <2>10, <2>12, <3>1
  <2>16. CASE torn /\ i = Len(file) /\ line.value.status = "cut"
    <3>1. parse_trace_status(line.value.status) = "UNKNOWN"
      BY <2>16, StatusRead
    <3> QED BY <2>4, <2>7, <2>10, <2>12, <2>16, <3>1 DEF i
  <2> QED BY <2>14, <2>15, <2>16
<1>13. \A h \in 1..MaxHop : h > n => baseline.hops[h] = Cleared
  <2> SUFFICES ASSUME NEW h \in 1..MaxHop, h > n PROVE baseline.hops[h] = Cleared
    OBVIOUS
  <2>1. ~(h <= n) /\ h \in Nat /\ h > 0
    BY <1>7, <1>9
  <2>2. ~(h + 6 <= pos)
    BY <1>2, <1>9, <2>1
  <2> QED BY <1>3, <2>2
<1>14. Len(file) > 6 => baseline.hop_count = Len(old)
  <2> SUFFICES ASSUME Len(file) > 6 PROVE baseline.hop_count = Len(old)
    OBVIOUS
  <2>1. \A m \in Nat : m > 6 => 5 \in 1..m /\ 5 # m /\ m >= 5
    OBVIOUS
  <2>2. 5 \in 1..Len(file) /\ 5 # Len(file) /\ Len(file) >= 5
    BY <1>8, <2>1
  <2>3. Whole(5, file[5], old)
    BY <1>1, <2>2
  <2> QED BY <1>2, <1>3, <2>2, <2>3
<1>15. ~torn => n > 0
  BY <1>4, <1>7, <1>10
<1>16. ~torn => Deep(old, n)
  BY <1>4, <1>10
<1>17. n \in 0..Len(old) /\ n \in Nat
  BY <1>7, <1>9
<1>18. Comeback(n)
  BY <1>3, <1>11, <1>12, <1>13, <1>14, <1>15, <1>16, <1>17 DEF Comeback
<1> QED BY <1>17, <1>18

(* The rows that came back, as sets of hops. *)
LEMMA RestoredHops ==
  ASSUME IInv, NEW n \in Nat, Comeback(n)
  PROVE  /\ DOMAIN baseline.hops = 1..MaxHop /\ n \in 0..MaxHop
         /\ Restored = 1..n /\ Restored \subseteq Probed(old)
         /\ ~torn => Probed(old) = 1..n
<1>1. DOMAIN baseline.hops = 1..MaxHop
  <2>1. baseline.hops = [h \in 1..MaxHop |-> baseline.hops[h]]
    BY DEF IInv, BaselineInPlace
  <2> QED BY <2>1
<1>2. IsMeasurement(old)
  BY DEF IInv, FileInPlace
<1>3. Len(old) \in 1..MaxHop /\ DOMAIN old = 1..Len(old) /\ MaxHop \in Nat
  BY <1>2, TableShape, MaxHopAssumption
<1>4. n \in 0..Len(old) /\ n \in 0..MaxHop
  BY <1>3 DEF Comeback
<1>5. ASSUME NEW h \in 1..MaxHop PROVE baseline.hops[h].sent > 0 <=> h <= n
  <2>1. CASE h <= n
    <3>1. h \in 1..n
      BY <1>4, <2>1
    <3>2. old[h].sent > 0 /\ SavedFrom(baseline.hops[h], old[h])
      BY <3>1 DEF Comeback
    <3> QED BY <2>1, <3>2 DEF SavedFrom
  <2>2. CASE h > n
    <3>1. baseline.hops[h] = Cleared
      BY <2>2 DEF Comeback
    <3>2. ~(h <= n)
      BY <1>3, <2>2
    <3> QED BY <3>1, <3>2, ClearedFields
  <2> QED BY <1>3, <2>1, <2>2
<1>6. Restored = 1..n
  <2>1. Restored = {h \in 1..MaxHop : h <= n}
    BY <1>1, <1>5 DEF Restored, Probed
  <2>2. {h \in 1..MaxHop : h <= n} = 1..n
    BY <1>3, <1>4
  <2> QED BY <2>1, <2>2
<1>7. Restored \subseteq Probed(old)
  <2> SUFFICES ASSUME NEW h \in 1..n PROVE h \in Probed(old)
    BY <1>6
  <2>1. old[h].sent > 0
    BY DEF Comeback
  <2>2. h \in 1..Len(old)
    BY <1>3, <1>4
  <2> QED BY <1>3, <2>1, <2>2 DEF Probed
<1>8. ASSUME ~torn PROVE Probed(old) = 1..n
  <2>1. \A h \in 1..Len(old) : old[h].sent > 0 <=> h <= n
    BY <1>8 DEF Comeback, Deep
  <2>2. Probed(old) = {h \in 1..Len(old) : h <= n}
    BY <1>3, <2>1 DEF Probed
  <2>3. {h \in 1..Len(old) : h <= n} = 1..n
    BY <1>3, <1>4
  <2> QED BY <2>2, <2>3
<1> QED BY <1>1, <1>4, <1>6, <1>7, <1>8

LEMMA HopComesBack ==
  ASSUME IInv, NEW n \in Nat, Comeback(n), NEW h \in 1..n
  PROVE  RestoredHop(h)
<1> DEFINE s == old[h]
           r == baseline.hops[h]
<1>1. s \in HopStats /\ FlagsAgree(s) /\ Quotients(s) /\ s.hop = h
  <2>1. IsMeasurement(old)
    BY DEF IInv, FileInPlace
  <2>2. Len(old) \in 1..MaxHop /\ MaxHop \in Nat
    BY <2>1, TableShape, MaxHopAssumption
  <2>3. h \in 1..Len(old)
    BY <2>2 DEF Comeback
  <2> QED BY <2>1, <2>3, TableShape
<1>2. SavedFrom(r, s) /\ (r.status = s.status \/ (torn /\ h + 6 = Len(file) /\ r.status = "UNKNOWN"))
  BY DEF Comeback
<1> HIDE DEF s, r
<1>3. s.received <= s.sent
  BY <1>1 DEF FlagsAgree
<1>4. Positive(s.no_reply) /\ Positive(s.avg_ms) /\ Positive(s.jitter_ms)
  BY <1>1, <1>3, QuotientsPositive
<1>5. r.has_rtt = s.has_rtt /\ r.has_jitter = s.has_jitter
  <2>1. s.has_rtt \in BOOLEAN /\ s.has_jitter \in BOOLEAN
    BY <1>1, Fields
  <2>2. /\ r.has_rtt \in BOOLEAN /\ r.has_jitter \in BOOLEAN
        /\ (r.has_rtt <=> s.has_rtt) /\ (r.has_jitter <=> s.has_jitter)
    BY <1>2 DEF SavedFrom
  <2> QED BY <2>1, <2>2
<1>6. Near(<<1000 * r.no_reply[1], r.no_reply[2]>>, <<1000 * s.no_reply[1], s.no_reply[2]>>, 1)
  <2>1. PICK t \in Rounded(<<1000 * s.no_reply[1], s.no_reply[2]>>, 1) : r.no_reply = <<t, 1000>>
    BY <1>2 DEF SavedFrom
  <2>2. Near(<<1000 * t, 1000>>, <<1000 * s.no_reply[1], s.no_reply[2]>>, 1)
    BY <1>4, PercentNear
  <2>3. r.no_reply[1] = t /\ r.no_reply[2] = 1000
    BY <2>1
  <2> QED BY <2>2, <2>3
<1>7. Near(r.avg_ms, s.avg_ms, Tenth)
  BY <1>2, <1>4, TimeNear DEF SavedFrom
<1>8. Near(r.jitter_ms, s.jitter_ms, Tenth)
  BY <1>2, <1>4, TimeNear DEF SavedFrom
<1>9. r.hop = h /\ r.remote_ip = s.remote_ip /\ r.sent = s.sent /\ r.received = s.received
  BY <1>1, <1>2 DEF SavedFrom
<1>10. ASSUME NEW x \in Nat, NEW y, \E t \in Rounded(<<x, 1>>, Tenth) : y = t * Tenth
       PROVE  Near(<<y, 1>>, <<x, 1>>, Tenth)
  <2> DEFINE q == <<x, 1>>
  <2>1. Positive(q)
    BY DEF Positive
  <2>2. PICK t \in Rounded(q, Tenth) : y = t * Tenth
    BY <1>10
  <2> HIDE DEF q
  <2>3. Near(<<y, 1>>, q, Tenth)
    BY <2>1, <2>2, TimeNear
  <2> QED BY <2>3 DEF q
<1>11. /\ Near(<<r.last_ms, 1>>, <<s.last_ms, 1>>, Tenth)
       /\ Near(<<r.best_ms, 1>>, <<s.best_ms, 1>>, Tenth)
       /\ Near(<<r.worst_ms, 1>>, <<s.worst_ms, 1>>, Tenth)
  <2>1. s.last_ms \in Nat /\ s.best_ms \in Nat /\ s.worst_ms \in Nat
    BY <1>1, Fields
  <2>2. SamplesSaved(r, s)
    BY <1>2 DEF SavedFrom
  <2>3. /\ \E t \in Rounded(<<s.last_ms, 1>>, Tenth) : r.last_ms = t * Tenth
        /\ \E t \in Rounded(<<s.best_ms, 1>>, Tenth) : r.best_ms = t * Tenth
        /\ \E t \in Rounded(<<s.worst_ms, 1>>, Tenth) : r.worst_ms = t * Tenth
    BY <2>2 DEF SamplesSaved
  <2> QED BY <1>10, <2>1, <2>3
<1> QED BY <1>2, <1>5, <1>6, <1>7, <1>8, <1>9, <1>11, ZenonT(60) DEF RestoredHop, s, r

(* A baseline comes back as it was measured, up to the rounding to a tenth;  *)
(* a torn one gives its first hops or is refused, and only a torn one is     *)
(* refused.                                                                  *)
THEOREM RestoredCorrectly == Spec => []RestoredFaithfully
<1>1. ASSUME IInv PROVE RestoredFaithfully
  <2>1. ASSUME pc \in {"accepted", "done"}
        PROVE  /\ \E k \in 0..MaxHop : Restored = 1..k
               /\ Restored \subseteq Probed(old)
               /\ ~torn => Restored = Probed(old) /\ baseline.hop_count = Len(old)
               /\ \A h \in Restored : RestoredHop(h)
    <3>1. PICK n \in Nat : Comeback(n)
      BY <1>1, <2>1, WhatComesBack
    <3>2. /\ n \in 0..MaxHop /\ Restored = 1..n /\ Restored \subseteq Probed(old)
          /\ ~torn => Probed(old) = 1..n
      BY <1>1, <3>1, RestoredHops
    <3>3. ~torn => baseline.hop_count = Len(old)
      BY <3>1 DEF Comeback
    <3>4. \A h \in 1..n : RestoredHop(h)
      BY <1>1, <3>1, HopComesBack
    <3> QED BY <3>2, <3>3, <3>4
  <2>2. pc = "refused" =>
          torn /\ (file = <<>> \/ Last(file).kind = "cut" \/ Last(file).fields = 10)
    BY <1>1 DEF IInv, ReaderInPlace
  <2> QED BY <2>1, <2>2 DEF RestoredFaithfully
<1>2. Invariant => RestoredFaithfully
  BY <1>1 DEF Invariant, RestoredFaithfully
<1> QED BY <1>2, BaselineInvariant, PTL

-----------------------------------------------------------------------------
(* FlattenSeq as a loop that joins its parts. *)
JoinStep(U) == [p \in Seq(U) \X Seq(U) |-> Joined(p[1], p[2])]

IsFlat(g, parts, n) ==
  g = [i \in 1..n |-> IF i = 1 THEN parts[i] ELSE g[i - 1] \o parts[i]]

LEMMA FlattenAppend ==
  ASSUME NEW U, NEW p \in Seq(U), NEW q \in Seq(U)
  PROVE  Stepped(JoinStep(U), p, q) = Joined(p, q) /\ Joined(p, q) \in Seq(U)
<1>1. Joined(p, q) \in Seq(U)
  BY DEF Joined
<1>2. Stepped(JoinStep(U), p, q) = Joined(p, q)
  BY DEF Stepped, JoinStep
<1> QED BY <1>1, <1>2

LEMMA FlattenIsFold ==
  ASSUME NEW U, NEW parts \in Seq(Seq(U))
  PROVE  Seqs!FlattenSeq(parts) = Fold(JoinStep(U), <<>>, parts)
<1> DEFINE step == JoinStep(U)
           n == Len(parts)
<1>1. n \in Nat /\ \A i \in 1..n : parts[i] \in Seq(U)
  OBVIOUS
<1>2. CASE n = 0
  <2>1. parts = <<>>
    BY <1>2
  <2>2. Seqs!FlattenSeq(parts) = parts
    BY <1>2 DEF Seqs!FlattenSeq
  <2> QED BY <2>1, <2>2, FoldEmpty
<1>3. CASE n # 0
  <2>1. PICK h : IsLoop(h, step, <<>>, parts, n)
    BY <1>1, LoopExists
  <2>2. Fold(step, <<>>, parts) = h[n]
    BY <1>1, <2>1, FoldIsLoop
  <2> HIDE DEF step
  <2>3. h[0] = <<>> /\ \A i \in 1..n : h[i] = step[<<h[i - 1], parts[i]>>]
    <3>1. \A i \in 0..n : h[i] = IF i = 0 THEN <<>> ELSE step[<<h[i - 1], parts[i]>>]
      BY <2>1 DEF IsLoop
    <3>2. 0 \in 0..n /\ \A i \in 1..n : i \in 0..n /\ i # 0
      BY <1>1
    <3> QED BY <3>1, <3>2
  <2> DEFINE S == {i \in Nat : i <= n => h[i] \in Seq(U)}
  <2>4. 0 \in S
    <3>1. <<>> \in Seq(U)
      OBVIOUS
    <3>2. h[0] \in Seq(U)
      BY <2>3, <3>1
    <3> QED BY <3>2
  <2>5. ASSUME NEW i \in Nat, i \in S PROVE i + 1 \in S
    <3> SUFFICES ASSUME i + 1 <= n PROVE h[i + 1] \in Seq(U)
      OBVIOUS
    <3>1. i + 1 \in 1..n /\ (i + 1) - 1 = i /\ i <= n
      BY <1>1
    <3>2. h[i] \in Seq(U) /\ parts[i + 1] \in Seq(U)
      BY <1>1, <2>5, <3>1
    <3>3. h[i + 1] = Stepped(step, h[i], parts[i + 1])
      BY <2>3, <3>1 DEF Stepped
    <3> QED BY <3>2, <3>3, FlattenAppend DEF step
  <2> HIDE DEF S
  <2>6. Nat \subseteq S
    BY <2>4, <2>5, NaturalInduction
  <2>7. \A i \in 0..n : h[i] \in Seq(U)
    BY <1>1, <2>6 DEF S
  <2>8. \A i \in 1..n : h[i] = h[i - 1] \o parts[i]
    <3> SUFFICES ASSUME NEW i \in 1..n PROVE h[i] = h[i - 1] \o parts[i]
      OBVIOUS
    <3>1. i - 1 \in 0..n
      BY <1>1
    <3>2. h[i - 1] \in Seq(U) /\ parts[i] \in Seq(U)
      BY <1>1, <2>7, <3>1
    <3>3. h[i] = Stepped(step, h[i - 1], parts[i])
      BY <2>3 DEF Stepped
    <3> QED BY <3>2, <3>3, FlattenAppend, ZenonT(60) DEF step, Joined
  <2> DEFINE f == [i \in 1..n |-> h[i]]
  <2>9. IsFlat(f, parts, n)
    <3> DEFINE g == [i \in 1..n |-> IF i = 1 THEN parts[i] ELSE f[i - 1] \o parts[i]]
    <3>1. ASSUME NEW i \in 1..n PROVE f[i] = g[i]
      <4>1. CASE i = 1
        <5>0. 1 \in 1..n /\ 1 - 1 = 0
          BY <4>1
        <5>a. h[1] = h[1 - 1] \o parts[1]
          BY <2>8, <5>0
        <5>1. h[1] = <<>> \o parts[1] /\ 1 \in 1..n
          BY <2>3, <5>0, <5>a
        <5>2. <<>> \o parts[1] = parts[1]
          <6>1. parts[1] \in Seq(U)
            BY <1>1, <5>1
          <6> QED BY <6>1
        <5> QED BY <4>1, <5>1, <5>2
      <4>2. CASE i # 1
        <5>1. i - 1 \in 1..n
          BY <1>1, <4>2
        <5>2. f[i - 1] = h[i - 1]
          BY <5>1
        <5>3. f[i] = h[i - 1] \o parts[i]
          BY <2>8
        <5> QED BY <4>2, <5>2, <5>3
      <4> QED BY <4>1, <4>2
    <3>2. f = [i \in 1..n |-> f[i]] /\ g = [i \in 1..n |-> g[i]]
      OBVIOUS
    <3>3. f = g
      <4> HIDE DEF f, g
      <4> QED BY <3>1, <3>2
    <3> QED BY <3>3 DEF IsFlat
  <2> DEFINE g == CHOOSE g : IsFlat(g, parts, n)
  <2>10. IsFlat(g, parts, n)
    BY <2>9
  <2>11. Seqs!FlattenSeq(parts) = g[n]
    BY <1>3 DEF Seqs!FlattenSeq, IsFlat
  <2> HIDE DEF g
  <2>12. \A i \in 1..n : g[i] = IF i = 1 THEN parts[i] ELSE g[i - 1] \o parts[i]
    BY <2>10 DEF IsFlat
  <2>13. \A i \in 1..n : f[i] = IF i = 1 THEN parts[i] ELSE f[i - 1] \o parts[i]
    BY <2>9 DEF IsFlat
  <2>14. \A i \in 1..n : f[i] = h[i]
    OBVIOUS
  <2> HIDE DEF f
  <2> DEFINE T == {i \in Nat : i + 1 <= n => g[i + 1] = f[i + 1]}
  <2>15. 0 \in T
    BY <1>1, <1>3, <2>12, <2>13
  <2>16. ASSUME NEW i \in Nat, i \in T PROVE i + 1 \in T
    <3> SUFFICES ASSUME i + 2 <= n PROVE g[i + 2] = f[i + 2]
      OBVIOUS
    <3>1. i + 2 \in 1..n /\ i + 2 # 1 /\ (i + 2) - 1 = i + 1 /\ i + 1 <= n
      BY <1>1
    <3>2. g[i + 1] = f[i + 1]
      BY <2>16, <3>1
    <3>3. g[i + 2] = g[i + 1] \o parts[i + 2]
      BY <2>12, <3>1
    <3>4. f[i + 2] = f[i + 1] \o parts[i + 2]
      BY <2>13, <3>1
    <3> QED BY <3>2, <3>3, <3>4
  <2> HIDE DEF T
  <2>17. Nat \subseteq T
    BY <2>15, <2>16, NaturalInduction
  <2>18. g[n] = f[n]
    <3>1. n - 1 \in Nat /\ (n - 1) + 1 = n
      BY <1>1, <1>3
    <3> HIDE DEF n
    <3>2. n - 1 \in T
      BY <2>17, <3>1
    <3>3. (n - 1) + 1 <= n
      BY <1>1
    <3>4. g[(n - 1) + 1] = f[(n - 1) + 1]
      BY <3>2, <3>3 DEF T
    <3> QED BY <3>1, <3>4
  <2>19. n \in 1..n
    BY <1>1, <1>3
  <2> QED BY <2>2, <2>11, <2>14, <2>18, <2>19 DEF step
<1> QED BY <1>2, <1>3

LEMMA FlattenType ==
  ASSUME NEW U, NEW parts \in Seq(Seq(U))
  PROVE  Seqs!FlattenSeq(parts) \in Seq(U)
<1>1. \A p \in Seq(U) : \A q \in Seq(U) : Stepped(JoinStep(U), p, q) \in Seq(U)
  BY FlattenAppend
<1>2. <<>> \in Seq(U)
  OBVIOUS
<1>3. \A s \in Seq(Seq(U)) : Fold(JoinStep(U), <<>>, s) \in Seq(U)
  BY <1>1, <1>2, FoldType
<1> QED BY <1>3, FlattenIsFold

Elements(s) == {s[i] : i \in DOMAIN s}

Distinct(s) == \A i, j \in DOMAIN s : s[i] = s[j] => i = j

LEMMA ElementsJoined ==
  ASSUME NEW U, NEW p \in Seq(U), NEW q \in Seq(U)
  PROVE  /\ Elements(Joined(p, q)) = Elements(p) \cup Elements(q)
         /\ Distinct(p) /\ Distinct(q) /\ Elements(p) \cap Elements(q) = {} => Distinct(Joined(p, q))
<1> DEFINE r == Joined(p, q)
           m == Len(p)
           n == Len(q)
<1>1. /\ m \in Nat /\ n \in Nat /\ DOMAIN p = 1..m /\ DOMAIN q = 1..n
      /\ DOMAIN r = 1..(m + n)
  BY DEF Joined
<1>2. \A i \in 1..m : r[i] = p[i]
  BY DEF Joined
<1>3. \A i \in 1..n : r[m + i] = q[i]
  BY DEF Joined
<1> HIDE DEF r, m, n
<1>4. ASSUME NEW i \in 1..(m + n)
      PROVE  \/ i \in 1..m /\ r[i] = p[i]
             \/ i - m \in 1..n /\ r[i] = q[i - m]
  <2>1. CASE i \in 1..m
    BY <1>2, <2>1
  <2>2. CASE i \notin 1..m
    <3>1. i - m \in 1..n /\ m + (i - m) = i
      BY <1>1, <2>2
    <3>2. r[m + (i - m)] = q[i - m]
      BY <1>3, <3>1
    <3> QED BY <3>1, <3>2
  <2> QED BY <2>1, <2>2
<1>5. (\A i \in 1..m : i \in 1..(m + n)) /\ (\A i \in 1..n : m + i \in 1..(m + n))
  BY <1>1
<1>6. Elements(r) = Elements(p) \cup Elements(q)
  <2>1. ASSUME NEW e \in Elements(r) PROVE e \in Elements(p) \cup Elements(q)
    BY <1>1, <1>4, <2>1 DEF Elements
  <2>2. ASSUME NEW e \in Elements(p) PROVE e \in Elements(r)
    BY <1>1, <1>2, <1>5, <2>2 DEF Elements
  <2>3. ASSUME NEW e \in Elements(q) PROVE e \in Elements(r)
    <3>1. PICK i \in 1..n : e = q[i]
      BY <1>1 DEF Elements
    <3>2. r[m + i] = e /\ m + i \in DOMAIN r
      BY <1>1, <1>3, <1>5, <3>1
    <3> QED BY <3>2 DEF Elements
  <2> QED BY <2>1, <2>2, <2>3
<1>7. ASSUME Distinct(p), Distinct(q), Elements(p) \cap Elements(q) = {},
             NEW i \in 1..(m + n), NEW j \in 1..(m + n), r[i] = r[j]
      PROVE  i = j
  <2>0. (\A k \in 1..m : p[k] \in Elements(p)) /\ (\A k \in 1..n : q[k] \in Elements(q))
    BY <1>1 DEF Elements
  <2>1. CASE i \in 1..m /\ r[i] = p[i]
    <3>1. CASE j \in 1..m /\ r[j] = p[j]
      BY <1>1, <1>7, <2>1, <3>1 DEF Distinct
    <3>2. CASE j - m \in 1..n /\ r[j] = q[j - m]
      BY <1>7, <2>0, <2>1, <3>2
    <3> QED BY <1>4, <3>1, <3>2
  <2>2. CASE i - m \in 1..n /\ r[i] = q[i - m]
    <3>1. CASE j \in 1..m /\ r[j] = p[j]
      BY <1>7, <2>0, <2>2, <3>1
    <3>2. CASE j - m \in 1..n /\ r[j] = q[j - m]
      <4>1. i - m = j - m
        BY <1>1, <1>7, <2>2, <3>2 DEF Distinct
      <4> QED BY <1>1, <4>1
    <3> QED BY <1>4, <3>1, <3>2
  <2> QED BY <1>4, <2>1, <2>2
<1>8. Distinct(p) /\ Distinct(q) /\ Elements(p) \cap Elements(q) = {} => Distinct(r)
  BY <1>1, <1>7 DEF Distinct
<1> QED BY <1>6, <1>8 DEF r

(* The elements of all parts, and parts that have none in common. *)
ElementsOf(parts) == UNION {Elements(parts[i]) : i \in 1..Len(parts)}

Apart(parts) ==
  /\ \A i \in 1..Len(parts) : Distinct(parts[i])
  /\ \A i, j \in 1..Len(parts) : i # j => Elements(parts[i]) \cap Elements(parts[j]) = {}

LEMMA ElementsFlattened ==
  ASSUME NEW U, NEW parts \in Seq(Seq(U))
  PROVE  /\ Elements(Seqs!FlattenSeq(parts)) = ElementsOf(parts)
         /\ Apart(parts) => Distinct(Seqs!FlattenSeq(parts))
<1> DEFINE flat(s) == Fold(JoinStep(U), <<>>, s)
           Good(s) == Elements(flat(s)) = ElementsOf(s) /\ (Apart(s) => Distinct(flat(s)))
           S == {s \in Seq(Seq(U)) : Good(s)}
<1>1. <<>> \in S
  <2>1. flat(<<>>) = <<>> /\ <<>> \in Seq(Seq(U)) /\ Len(<<>>) = 0 /\ DOMAIN <<>> = {}
    BY FoldEmpty
  <2> HIDE DEF flat
  <2>2. Elements(flat(<<>>)) = {} /\ ElementsOf(<<>>) = {} /\ Distinct(flat(<<>>))
    BY <2>1 DEF Elements, ElementsOf, Distinct
  <2> QED BY <2>1, <2>2
<1>0. ASSUME NEW s \in Seq(Seq(U)), NEW q \in Seq(U)
      PROVE  flat(s) \in Seq(U) /\ flat(Append(s, q)) = Joined(flat(s), q)
  <2>1. \A p \in Seq(U) : \A x \in Seq(U) : Stepped(JoinStep(U), p, x) \in Seq(U)
    BY FlattenAppend
  <2>2. <<>> \in Seq(U)
    OBVIOUS
  <2>3. \A t \in Seq(Seq(U)) : Fold(JoinStep(U), <<>>, t) \in Seq(U)
    BY <2>1, <2>2, FoldType
  <2>4. Fold(JoinStep(U), <<>>, Append(s, q)) = Stepped(JoinStep(U), Fold(JoinStep(U), <<>>, s), q)
    BY FoldAppend
  <2> QED BY <2>3, <2>4, FlattenAppend
<1> HIDE DEF flat
<1>2. ASSUME NEW s \in Seq(Seq(U)), Good(s), NEW q \in Seq(U) PROVE Good(Append(s, q))
  <2> DEFINE u == Append(s, q)
             n == Len(s)
  <2>1. /\ u \in Seq(Seq(U)) /\ Len(u) = n + 1 /\ n \in Nat /\ u[n + 1] = q
        /\ \A i \in 1..n : u[i] = s[i]
    BY Appended
  <2> HIDE DEF u
  <2>2. flat(s) \in Seq(U) /\ flat(u) = Joined(flat(s), q)
    BY <1>0 DEF u
  <2>3. /\ Elements(flat(u)) = Elements(flat(s)) \cup Elements(q)
        /\ Distinct(flat(s)) /\ Distinct(q) /\ Elements(flat(s)) \cap Elements(q) = {} => Distinct(flat(u))
    BY <2>2, ElementsJoined
  <2>4. Elements(flat(s)) = ElementsOf(s) /\ (Apart(s) => Distinct(flat(s)))
    BY <1>2
  <2>5. ElementsOf(u) = ElementsOf(s) \cup Elements(q)
    <3>1. ASSUME NEW e \in ElementsOf(u) PROVE e \in ElementsOf(s) \cup Elements(q)
      <4>1. PICK i \in 1..(n + 1) : e \in Elements(u[i])
        BY <2>1 DEF ElementsOf
      <4>2. i \in 1..n \/ i = n + 1
        BY <2>1
      <4>3. CASE i \in 1..n
        BY <2>1, <4>1, <4>3 DEF ElementsOf
      <4>4. CASE i = n + 1
        BY <2>1, <4>1, <4>4
      <4> QED BY <4>2, <4>3, <4>4
    <3>2. ASSUME NEW e \in ElementsOf(s) PROVE e \in ElementsOf(u)
      <4>1. PICK i \in 1..n : e \in Elements(s[i])
        BY DEF ElementsOf
      <4>2. i \in 1..Len(u) /\ u[i] = s[i]
        BY <2>1
      <4> QED BY <4>1, <4>2 DEF ElementsOf
    <3>3. ASSUME NEW e \in Elements(q) PROVE e \in ElementsOf(u)
      <4>1. n + 1 \in 1..Len(u)
        BY <2>1
      <4> QED BY <2>1, <3>3, <4>1 DEF ElementsOf
    <3> QED BY <3>1, <3>2, <3>3
  <2>6. ASSUME Apart(u) PROVE Apart(s) /\ Distinct(q) /\ ElementsOf(s) \cap Elements(q) = {}
    <3>1. /\ \A i \in 1..(n + 1) : Distinct(u[i])
          /\ \A i, j \in 1..(n + 1) : i # j => Elements(u[i]) \cap Elements(u[j]) = {}
      BY <2>1, <2>6 DEF Apart
    <3>2. n + 1 \in 1..(n + 1) /\ \A i \in 1..n : i \in 1..(n + 1) /\ i # n + 1
      BY <2>1
    <3>3. Distinct(q)
      BY <2>1, <3>1, <3>2
    <3>4. Apart(s)
      BY <2>1, <3>1, <3>2 DEF Apart
    <3>5. ASSUME NEW e \in ElementsOf(s) PROVE e \notin Elements(q)
      <4>1. PICK i \in 1..n : e \in Elements(s[i])
        BY DEF ElementsOf
      <4>2. Elements(u[i]) \cap Elements(u[n + 1]) = {}
        BY <3>1, <3>2
      <4> QED BY <2>1, <4>1, <4>2
    <3> QED BY <3>3, <3>4, <3>5
  <2>7. Elements(flat(u)) = ElementsOf(u)
    BY <2>3, <2>4, <2>5
  <2>8. Apart(u) => Distinct(flat(u))
    BY <2>3, <2>4, <2>6
  <2> QED BY <2>7, <2>8 DEF u
<1> HIDE DEF Good
<1>3. ASSUME NEW s \in Seq(Seq(U)), s \in S PROVE \A q \in Seq(U) : Append(s, q) \in S
  BY <1>2, <1>3, Appended
<1> HIDE DEF S
<1>4. Seq(Seq(U)) \subseteq S
  BY <1>1, <1>3, SequenceInduction
<1>5. Good(parts)
  BY <1>4 DEF S
<1> QED BY <1>5, FlattenIsFold DEF Good, flat

-----------------------------------------------------------------------------
(* The search for a hop. *)

LEMMA FirstOfSet ==
  ASSUME NEW S \in SUBSET (Nat \ {0})
  PROVE  /\ S = {} => FirstOf(S) = 0
         /\ S # {} => FirstOf(S) \in S /\ \A g \in S : FirstOf(S) <= g
<1>1. CASE S = {}
  BY <1>1 DEF FirstOf
<1>2. CASE S # {}
  <2>1. S \in SUBSET Nat
    OBVIOUS
  <2>2. \E h \in S : \A g \in S : h <= g
    BY <1>2, <2>1, SmallestExists
  <2>3. FirstOf(S) = CHOOSE h \in S : \A g \in S : h <= g
    BY <1>2 DEF FirstOf
  <2> QED BY <1>2, <2>2, <2>3
<1> QED BY <1>1, <1>2

(* A hop of a measurement is found where it is, if it was probed. *)
LEMMA HopFound ==
  ASSUME NEW x, IsMeasurement(x), NEW h \in Nat, h > 0
  PROVE  find_current_hop(x, Len(x), h) = IF h \in Probed(x) THEN h ELSE 0
<1> DEFINE S == {i \in 1..Len(x) : x[i].hop = h /\ x[i].sent > 0}
<1>1. /\ Len(x) \in Nat /\ DOMAIN x = 1..Len(x)
      /\ \A i \in 1..Len(x) : x[i].hop = i
  BY TableShape, MaxHopAssumption
<1>2. S \in SUBSET (Nat \ {0})
  BY <1>1
<1>3. \A i \in S : i = h /\ h \in Probed(x)
  BY <1>1 DEF Probed
<1>4. h \in Probed(x) => h \in S
  BY <1>1 DEF Probed
<1>5. find_current_hop(x, Len(x), h) = FirstOf(S)
  BY DEF find_current_hop
<1> HIDE DEF S
<1>6. /\ S = {} => FirstOf(S) = 0
      /\ S # {} => FirstOf(S) \in S
  BY <1>2, FirstOfSet
<1> QED BY <1>3, <1>4, <1>5, <1>6

-----------------------------------------------------------------------------
(* The list of changes. *)

Changed == [hop : 1..MaxHop, what : {"missing", "new", "address", "no_reply", "rtt"}]

AddressChanged(r, t) == r.remote_ip # "" /\ t.remote_ip # "" /\ r.remote_ip # t.remote_ip

NoReplyGrown(r, t) ==
  LET delta == Minus(t.no_reply, r.no_reply) IN 100 * delta[1] >= 5 * delta[2]

RttGrown(r, t) ==
  r.has_rtt /\ t.has_rtt /\ AtLeast(Minus(t.avg_ms, r.avg_ms), 20 * Ms)

Entry(hop, what) == [hop |-> hop, what |-> what]

LEMMA EntryEqual ==
  \A h, g, v, w : Entry(h, v) = Entry(g, w) <=> h = g /\ v = w
<1> SUFFICES ASSUME NEW h, NEW g, NEW v, NEW w, Entry(h, v) = Entry(g, w) PROVE h = g /\ v = w
  OBVIOUS
<1>1. /\ Entry(h, v).hop = h /\ Entry(h, v).what = v
      /\ Entry(g, w).hop = g /\ Entry(g, w).what = w
  BY DEF Entry
<1> QED BY <1>1

LEMMA OneChange ==
  ASSUME NEW hop, NEW what, NEW holds \in BOOLEAN
  PROVE  LET s == Change(hop, what, holds) IN
         /\ Elements(s) = {e \in {Entry(hop, what)} : holds} /\ Distinct(s)
         /\ Entry(hop, what) \in Changed => s \in Seq(Changed)
<1> DEFINE e == Entry(hop, what)
           s == Change(hop, what, holds)
<1>1. s = IF holds THEN <<e>> ELSE <<>>
  BY DEF Change, Entry
<1> HIDE DEF e, s
<1>2. CASE holds
  <2>1. s = <<e>>
    BY <1>1, <1>2
  <2>2. DOMAIN s = 1..1 /\ s[1] = e /\ 1..1 = {1}
    BY <2>1
  <2>3. Elements(s) = {e} /\ Distinct(s)
    BY <2>2 DEF Elements, Distinct
  <2>4. e \in Changed => s \in Seq(Changed)
    BY <2>1
  <2> QED BY <1>2, <2>3, <2>4 DEF e, s
<1>3. CASE ~holds
  <2>1. s = <<>>
    BY <1>1, <1>3
  <2>2. DOMAIN s = {} /\ s \in Seq(Changed)
    BY <2>1
  <2>3. Elements(s) = {} /\ Distinct(s)
    BY <2>2 DEF Elements, Distinct
  <2> QED BY <1>3, <2>2, <2>3 DEF e, s
<1> QED BY <1>2, <1>3

LEMMA HopChanges ==
  ASSUME NEW r, NEW t, r.hop \in 1..MaxHop
  PROVE  LET s == print_hop_change(r, t) IN
         /\ s \in Seq(Changed) /\ Distinct(s)
         /\ Elements(s) = {e \in {Entry(r.hop, "address")} : AddressChanged(r, t)} \cup
                          {e \in {Entry(r.hop, "no_reply")} : NoReplyGrown(r, t)} \cup
                          {e \in {Entry(r.hop, "rtt")} : RttGrown(r, t)}
<1> DEFINE P == AddressChanged(r, t)
           Q == NoReplyGrown(r, t)
           R == RttGrown(r, t)
           h == r.hop
           a == Change(h, "address", P)
           b == Change(h, "no_reply", Q)
           c == Change(h, "rtt", R)
<1>1. P \in BOOLEAN /\ Q \in BOOLEAN /\ R \in BOOLEAN
  BY DEF AddressChanged, NoReplyGrown, RttGrown
<1>2. print_hop_change(r, t) = Joined(Joined(a, b), c)
  BY DEF print_hop_change, Joined, AddressChanged, NoReplyGrown, RttGrown
<1>3. \A what \in {"address", "no_reply", "rtt"} : Entry(h, what) \in Changed
  BY DEF Entry, Changed
<1> HIDE DEF P, Q, R, h
<1>4. /\ a \in Seq(Changed) /\ Distinct(a) /\ Elements(a) = {e \in {Entry(h, "address")} : P}
      /\ b \in Seq(Changed) /\ Distinct(b) /\ Elements(b) = {e \in {Entry(h, "no_reply")} : Q}
      /\ c \in Seq(Changed) /\ Distinct(c) /\ Elements(c) = {e \in {Entry(h, "rtt")} : R}
  BY <1>1, <1>3, OneChange
<1> HIDE DEF a, b, c
<1>5. a \in Seq(Changed) /\ b \in Seq(Changed) /\ c \in Seq(Changed)
  BY <1>4
<1>6. Joined(a, b) \in Seq(Changed) /\ Joined(Joined(a, b), c) \in Seq(Changed)
  BY <1>5, JoinedParts
<1>7. /\ Entry(h, "address") # Entry(h, "no_reply") /\ Entry(h, "address") # Entry(h, "rtt")
      /\ Entry(h, "no_reply") # Entry(h, "rtt")
  BY EntryEqual
<1>8. Elements(a) \cap Elements(b) = {} /\ (Elements(a) \cup Elements(b)) \cap Elements(c) = {}
  BY <1>4, <1>7
<1>9. Elements(Joined(a, b)) = Elements(a) \cup Elements(b) /\ Distinct(Joined(a, b))
  BY <1>4, <1>8, ElementsJoined
<1>10. /\ Elements(Joined(Joined(a, b), c)) = Elements(Joined(a, b)) \cup Elements(c)
       /\ Distinct(Joined(Joined(a, b), c))
  <2> DEFINE d == Joined(a, b)
  <2>1. d \in Seq(Changed) /\ Distinct(d) /\ Elements(d) \cap Elements(c) = {}
    BY <1>6, <1>8, <1>9
  <2>2. c \in Seq(Changed) /\ Distinct(c)
    BY <1>4
  <2> HIDE DEF d
  <2>3. /\ Elements(Joined(d, c)) = Elements(d) \cup Elements(c)
        /\ Distinct(Joined(d, c))
    BY <2>1, <2>2, ElementsJoined
  <2> QED BY <2>3 DEF d
<1> QED BY <1>2, <1>4, <1>6, <1>9, <1>10 DEF P, Q, R, h

(* What the list says of a hop, given the hops n that have come back. *)
Says(e, n) ==
  \/ e.what = "missing" /\ e.hop \in 1..n /\ e.hop \notin Probed(current)
  \/ e.what = "new" /\ e.hop \in Probed(current) /\ e.hop \notin 1..n
  \/ /\ e.hop \in 1..n /\ e.hop \in Probed(current)
     /\ \/ e.what = "address" /\ AddressChanged(baseline.hops[e.hop], current[e.hop])
        \/ e.what = "no_reply" /\ NoReplyGrown(baseline.hops[e.hop], current[e.hop])
        \/ e.what = "rtt" /\ RttGrown(baseline.hops[e.hop], current[e.hop])

OldPart(h) == OfBaselineHop(baseline.hops[h], current, Len(current), h)
NewPart(i) == OfCurrentHop(baseline, current[i])

LEMMA OldPartSays ==
  ASSUME IInv, IsMeasurement(current), NEW n \in Nat, Comeback(n), NEW h \in 1..MaxHop
  PROVE  /\ OldPart(h) \in Seq(Changed) /\ Distinct(OldPart(h))
         /\ Elements(OldPart(h)) = {e \in Changed : e.hop = h /\ e.what # "new" /\ Says(e, n)}
<1> DEFINE r == baseline.hops[h]
           found == find_current_hop(current, Len(current), h)
           s == OldPart(h)
<1>0. h \in Nat /\ h > 0 /\ MaxHop \in Nat
  BY MaxHopAssumption
<1>1. found = IF h \in Probed(current) THEN h ELSE 0
  BY <1>0, HopFound
<1>2. s = CASE r.sent = 0 -> <<>>
            [] r.sent # 0 /\ found = 0 -> Change(h, "missing", TRUE)
            [] r.sent # 0 /\ found > 0 -> print_hop_change(r, current[found])
  BY DEF OldPart, OfBaselineHop
<1>3. ASSUME NEW e PROVE Says(e, n) /\ e.hop = h /\ e.what # "new" => h \in 1..n
  BY <1>3 DEF Says
<1> HIDE DEF r, found, s
<1>4. CASE h > n
  <2>1. r.sent = 0
    BY <1>4, ClearedFields DEF Comeback, r
  <2>2. s = <<>>
    BY <1>2, <2>1
  <2>3. DOMAIN s = {} /\ s \in Seq(Changed)
    BY <2>2
  <2>4. Elements(s) = {} /\ Distinct(s)
    BY <2>3 DEF Elements, Distinct
  <2>5. h \notin 1..n
    BY <1>0, <1>4
  <2> QED BY <1>3, <2>3, <2>4, <2>5 DEF s
<1>5. CASE h <= n
  <2>1. h \in 1..n
    BY <1>0, <1>5
  <2>2. r.hop = h /\ r.sent > 0 /\ r.sent # 0
    <3>1. old[h].sent > 0 /\ SavedFrom(r, old[h])
      BY <2>1 DEF Comeback, r
    <3>2. IsMeasurement(old) /\ h \in 1..Len(old)
      BY <1>0, <2>1 DEF IInv, FileInPlace, Comeback
    <3>3. old[h].hop = h /\ old[h] \in HopStats
      BY <3>2, TableShape
    <3>4. old[h].sent \in Nat
      BY <3>3, Fields
    <3> QED BY <3>1, <3>3, <3>4 DEF SavedFrom
  <2>3. CASE h \notin Probed(current)
    <3>1. found = 0
      BY <1>1, <2>3
    <3>2. s = Change(h, "missing", TRUE)
      <4>1. ~(r.sent = 0) /\ r.sent # 0 /\ found = 0 /\ ~(found > 0)
        BY <2>2, <3>1
      <4> QED BY <1>2, <4>1, Zenon
    <3>3. Entry(h, "missing") \in Changed
      BY DEF Entry, Changed
    <3>4. s \in Seq(Changed) /\ Distinct(s) /\ Elements(s) = {Entry(h, "missing")}
      <4>1. TRUE \in BOOLEAN
        OBVIOUS
      <4>2. /\ s \in Seq(Changed) /\ Distinct(s)
            /\ Elements(s) = {e \in {Entry(h, "missing")} : TRUE}
        BY <3>2, <3>3, <4>1, OneChange, Zenon
      <4> QED BY <4>2
    <3>5. ASSUME NEW e \in Changed, e.hop = h, e.what # "new", Says(e, n)
          PROVE  e = Entry(h, "missing")
      <4>1. e.what = "missing"
        BY <2>3, <3>5 DEF Says
      <4> QED BY <3>5, <4>1 DEF Changed, Entry
    <3>6. Entry(h, "missing").hop = h /\ Entry(h, "missing").what = "missing"
      BY DEF Entry
    <3>7. Says(Entry(h, "missing"), n)
      BY <2>1, <2>3, <3>6 DEF Says
    <3>8. Elements(s) = {e \in Changed : e.hop = h /\ e.what # "new" /\ Says(e, n)}
      BY <3>3, <3>4, <3>5, <3>6, <3>7
    <3> QED BY <3>4, <3>8 DEF s
  <2>4. CASE h \in Probed(current)
    <3>1. found = h /\ found > 0 /\ found # 0
      BY <1>0, <1>1, <2>4
    <3> DEFINE t == current[h]
               P == AddressChanged(r, t)
               Q == NoReplyGrown(r, t)
               R == RttGrown(r, t)
    <3>2. s = print_hop_change(r, t)
      BY <1>2, <2>2, <3>1
    <3>3. /\ s \in Seq(Changed) /\ Distinct(s)
          /\ Elements(s) = {e \in {Entry(h, "address")} : P} \cup
                           {e \in {Entry(h, "no_reply")} : Q} \cup
                           {e \in {Entry(h, "rtt")} : R}
      BY <2>2, <3>2, HopChanges
    <3>4. ASSUME NEW e, e.hop = h, e.what # "new"
          PROVE  Says(e, n) <=>
                   (e.what = "address" /\ P) \/ (e.what = "no_reply" /\ Q) \/ (e.what = "rtt" /\ R)
      BY <2>1, <2>4, <3>4 DEF Says, r
    <3> HIDE DEF P, Q, R
    <3>5. \A what \in {"address", "no_reply", "rtt"} :
            /\ Entry(h, what) \in Changed /\ Entry(h, what).hop = h
            /\ Entry(h, what).what = what /\ what # "new"
      BY DEF Entry, Changed
    <3>6. \A e \in Changed : e.hop = h => e = Entry(h, e.what)
      BY DEF Entry, Changed
    <3> DEFINE X == {e \in Changed : e.hop = h /\ e.what # "new" /\ Says(e, n)}
    <3>7. ASSUME NEW e \in Elements(s) PROVE e \in X
      <4>1. \/ e = Entry(h, "address") /\ P
            \/ e = Entry(h, "no_reply") /\ Q
            \/ e = Entry(h, "rtt") /\ R
        BY <3>3, <3>7
      <4>2. e \in Changed /\ e.hop = h /\ e.what # "new"
        BY <3>5, <4>1
      <4>3. (e.what = "address" /\ P) \/ (e.what = "no_reply" /\ Q) \/ (e.what = "rtt" /\ R)
        BY <3>5, <4>1
      <4>4. Says(e, n)
        BY <3>4, <4>2, <4>3
      <4> QED BY <4>2, <4>4
    <3>8. ASSUME NEW e \in X PROVE e \in Elements(s)
      <4>1. /\ e = Entry(h, e.what)
            /\ (e.what = "address" /\ P) \/ (e.what = "no_reply" /\ Q) \/ (e.what = "rtt" /\ R)
        BY <3>4, <3>6
      <4> QED BY <3>3, <4>1
    <3>9. Elements(s) = X
      BY <3>7, <3>8
    <3> QED BY <3>3, <3>9 DEF s
  <2> QED BY <2>3, <2>4
<1> QED BY <1>0, <1>4, <1>5

LEMMA NewPartSays ==
  ASSUME IInv, IsMeasurement(current), NEW n \in Nat, Comeback(n), NEW h \in 1..Len(current)
  PROVE  /\ NewPart(h) \in Seq(Changed) /\ Distinct(NewPart(h))
         /\ Elements(NewPart(h)) = {e \in Changed : e.hop = h /\ e.what = "new" /\ Says(e, n)}
<1> DEFINE t == current[h]
           s == NewPart(h)
           fresh == /\ t.sent > 0
                    /\ t.hop > baseline.hop_count \/ baseline.hops[t.hop].sent = 0
<1>1. /\ Len(current) \in 1..MaxHop /\ DOMAIN current = 1..Len(current)
      /\ t.hop = h
  BY TableShape
<1>2. MaxHop \in Nat /\ h \in Nat /\ h > 0 /\ h \in 1..MaxHop
  BY <1>1, MaxHopAssumption
<1>3. s = Change(h, "new", fresh)
  BY <1>1 DEF NewPart, OfCurrentHop
<1>4. fresh <=> h \in Probed(current) /\ h \notin 1..n
  <2>1. t.sent > 0 <=> h \in Probed(current)
    BY <1>1 DEF Probed
  <2>2. IsMeasurement(old)
    BY DEF IInv, FileInPlace
  <2>3. Len(old) \in Nat /\ n \in 0..Len(old)
    BY <2>2, TableShape, MaxHopAssumption DEF Comeback
  <2>4. CASE h \in 1..n
    <3>1. baseline.hop_count = Len(old) /\ ~(h > baseline.hop_count)
      BY <1>2, <2>3, <2>4 DEF Comeback
    <3>2. old[h].sent > 0 /\ baseline.hops[h].sent = old[h].sent
      <4>1. old[h].sent > 0 /\ SavedFrom(baseline.hops[h], old[h])
        BY <2>4 DEF Comeback
      <4> QED BY <4>1 DEF SavedFrom
    <3>3. old[h].sent \in Nat
      <4>1. h \in 1..Len(old)
        BY <2>3, <2>4
      <4>2. old[h] \in HopStats
        BY <2>2, <4>1, TableShape
      <4> QED BY <4>2, Fields
    <3>4. baseline.hops[h].sent # 0
      BY <3>2, <3>3
    <3> QED BY <1>1, <2>4, <3>1, <3>4
  <2>5. CASE h \notin 1..n
    <3>1. h > n
      BY <1>2, <2>5
    <3>2. baseline.hops[h].sent = 0
      BY <1>2, <3>1, ClearedFields DEF Comeback
    <3> QED BY <1>1, <2>1, <2>5, <3>2
  <2> QED BY <2>4, <2>5
<1>5. fresh \in BOOLEAN
  OBVIOUS
<1>6. Entry(h, "new") \in Changed /\ Entry(h, "new").hop = h /\ Entry(h, "new").what = "new"
  BY <1>2 DEF Entry, Changed
<1> HIDE DEF fresh, s, t
<1>7. /\ Elements(s) = {e \in {Entry(h, "new")} : fresh} /\ Distinct(s)
      /\ s \in Seq(Changed)
  BY <1>3, <1>5, <1>6, OneChange
<1>8. ASSUME NEW e \in Changed, e.hop = h, e.what = "new"
      PROVE  e = Entry(h, "new") /\ (Says(e, n) <=> fresh)
  <2>1. e = Entry(h, "new")
    BY <1>8 DEF Changed, Entry
  <2> QED BY <1>4, <1>8, <2>1 DEF Says
<1>9. Elements(s) = {e \in Changed : e.hop = h /\ e.what = "new" /\ Says(e, n)}
  BY <1>6, <1>7, <1>8
<1> QED BY <1>7, <1>9 DEF s

(* Every part is about its own hop. *)
OwnHops(parts, m) ==
  \A h \in 1..m : Distinct(parts[h]) /\ \A e \in Elements(parts[h]) : e.hop = h

Gathered(parts, m) == UNION {Elements(parts[h]) : h \in 1..m}

LEMMA PartsApart ==
  ASSUME NEW U, NEW m \in Nat, NEW parts \in [1..m -> Seq(U)], OwnHops(parts, m)
  PROVE  /\ parts \in Seq(Seq(U)) /\ Apart(parts)
         /\ ElementsOf(parts) = Gathered(parts, m)
<1>1. parts \in Seq(Seq(U)) /\ Len(parts) = m
  OBVIOUS
<1>2. ASSUME NEW i \in 1..m, NEW j \in 1..m, i # j
      PROVE  Elements(parts[i]) \cap Elements(parts[j]) = {}
  BY <1>2 DEF OwnHops
<1>3. Apart(parts)
  BY <1>1, <1>2 DEF Apart, OwnHops
<1>4. ElementsOf(parts) = Gathered(parts, m)
  BY <1>1 DEF ElementsOf, Gathered
<1> QED BY <1>1, <1>3, <1>4

(* The list says of every hop what there is to say, and says it once. *)
LEMMA ListSays ==
  ASSUME IInv, IsMeasurement(current), NEW n \in Nat, Comeback(n)
  PROVE  LET s == print_baseline_change_list(baseline, current, Len(current)) IN
         /\ s \in Seq(Changed) /\ Distinct(s)
         /\ Elements(s) = {e \in Changed : Says(e, n)}
<1> DEFINE k == baseline.hop_count
           m == Len(current)
           olds == [h \in 1..k |-> OldPart(h)]
           news == [h \in 1..m |-> NewPart(h)]
           a == Seqs!FlattenSeq(olds)
           b == Seqs!FlattenSeq(news)
           OfOld(h) == {e \in Changed : e.hop = h /\ e.what # "new" /\ Says(e, n)}
           OfNew(h) == {e \in Changed : e.hop = h /\ e.what = "new" /\ Says(e, n)}
<1>1. /\ m \in 1..MaxHop /\ DOMAIN current = 1..m /\ MaxHop \in Nat
      /\ k \in Nat /\ k <= MaxHop /\ n <= k
  <2>1. IsMeasurement(old)
    BY DEF IInv, FileInPlace
  <2>2. Len(old) \in 1..MaxHop /\ MaxHop \in Nat
    BY <2>1, TableShape, MaxHopAssumption
  <2>3. k \in 0..Len(old) /\ n \in 0..Len(old) /\ (n > 0 => k = Len(old))
    BY DEF Comeback
  <2> QED BY <2>2, <2>3, TableShape
<1>2. print_baseline_change_list(baseline, current, m) = Joined(a, b)
  BY DEF print_baseline_change_list, Joined, OldPart, NewPart
<1> HIDE DEF k, m
<1>3. \A h \in 1..k :
        OldPart(h) \in Seq(Changed) /\ Distinct(OldPart(h)) /\ Elements(OldPart(h)) = OfOld(h)
  <2>1. \A h \in 1..k : h \in 1..MaxHop
    BY <1>1
  <2> QED BY <2>1, OldPartSays
<1>4. \A h \in 1..m :
        NewPart(h) \in Seq(Changed) /\ Distinct(NewPart(h)) /\ Elements(NewPart(h)) = OfNew(h)
  BY NewPartSays DEF m
<1>5. /\ \A h \in 1..k : olds[h] = OldPart(h)
      /\ \A h \in 1..m : news[h] = NewPart(h)
  OBVIOUS
<1>6. olds \in [1..k -> Seq(Changed)] /\ news \in [1..m -> Seq(Changed)]
  BY <1>3, <1>4
<1> HIDE DEF olds, news, OfOld, OfNew
<1>7. OwnHops(olds, k) /\ OwnHops(news, m)
  BY <1>3, <1>4, <1>5 DEF OwnHops, OfOld, OfNew
<1>8. /\ olds \in Seq(Seq(Changed)) /\ Apart(olds)
      /\ ElementsOf(olds) = Gathered(olds, k)
  <2>1. k \in Nat
    BY <1>1
  <2>2. olds \in [1..k -> Seq(Changed)]
    BY <1>6
  <2>3. OwnHops(olds, k)
    BY <1>7
  <2>4. olds \in Seq(Seq(Changed))
    BY <2>1, <2>2, <2>3, PartsApart
  <2>5. Apart(olds)
    BY <2>1, <2>2, <2>3, PartsApart
  <2>6. ElementsOf(olds) = Gathered(olds, k)
    BY <2>1, <2>2, <2>3, PartsApart
  <2> QED BY <2>4, <2>5, <2>6
<1>9. /\ news \in Seq(Seq(Changed)) /\ Apart(news)
      /\ ElementsOf(news) = Gathered(news, m)
  <2>1. m \in Nat
    BY <1>1
  <2>2. news \in [1..m -> Seq(Changed)]
    BY <1>6
  <2>3. OwnHops(news, m)
    BY <1>7
  <2>4. news \in Seq(Seq(Changed))
    BY <2>1, <2>2, <2>3, PartsApart
  <2>5. Apart(news)
    BY <2>1, <2>2, <2>3, PartsApart
  <2>6. ElementsOf(news) = Gathered(news, m)
    BY <2>1, <2>2, <2>3, PartsApart
  <2> QED BY <2>4, <2>5, <2>6
<1>10. a \in Seq(Changed) /\ b \in Seq(Changed)
  BY <1>8, <1>9, FlattenType
<1>11. /\ Elements(a) = ElementsOf(olds) /\ Distinct(a)
       /\ Elements(b) = ElementsOf(news) /\ Distinct(b)
  BY <1>8, <1>9, ElementsFlattened
<1> HIDE DEF a, b
<1>12. Elements(a) = UNION {OfOld(h) : h \in 1..k}
  BY <1>3, <1>5, <1>8, <1>11 DEF Gathered
<1>13. Elements(b) = UNION {OfNew(h) : h \in 1..m}
  BY <1>4, <1>5, <1>9, <1>11 DEF Gathered
<1>14. Elements(a) \cap Elements(b) = {}
  BY <1>12, <1>13 DEF OfOld, OfNew
<1>15. /\ Elements(Joined(a, b)) = Elements(a) \cup Elements(b) /\ Distinct(Joined(a, b))
  BY <1>10, <1>11, <1>14, ElementsJoined
<1>16. Joined(a, b) \in Seq(Changed)
  BY <1>10, JoinedParts
<1>17. ASSUME NEW e \in Changed, Says(e, n) PROVE e \in Elements(a) \cup Elements(b)
  <2>1. CASE e.what = "new"
    <3>1. e.hop \in Probed(current)
      BY <1>17, <2>1 DEF Says
    <3>2. e.hop \in 1..m
      BY <1>1, <3>1 DEF Probed
    <3> QED BY <1>13, <1>17, <2>1, <3>2 DEF OfNew
  <2>2. CASE e.what # "new"
    <3>1. e.hop \in 1..n
      BY <1>17, <2>2 DEF Says
    <3>2. e.hop \in 1..k
      BY <1>1, <3>1
    <3> QED BY <1>12, <1>17, <2>2, <3>2 DEF OfOld
  <2> QED BY <2>1, <2>2
<1>18. Elements(a) \cup Elements(b) = {e \in Changed : Says(e, n)}
  BY <1>12, <1>13, <1>17 DEF OfOld, OfNew
<1> QED BY <1>2, <1>15, <1>16, <1>18 DEF m

-----------------------------------------------------------------------------
(* The diagnosis: what it is made of, and its range. *)

Alone(d) == NoReplyScore(d) + RttScore(d) + JitterScore(d)

LEMMA ScoreRanges ==
  /\ \A d : NoReplyScore(d) \in {0, 2, 4} /\ RttScore(d) \in {0, 1, 3, 4}
            /\ JitterScore(d) \in {0, 1, 3}
  /\ \A base, d : RttDeltaScore(base, d) \in {0, 1, 3} /\ JitterDeltaScore(base, d) \in {0, 1, 3}
<1>1. ASSUME NEW d
      PROVE  NoReplyScore(d) \in {0, 2, 4} /\ RttScore(d) \in {0, 1, 3, 4}
             /\ JitterScore(d) \in {0, 1, 3}
  <2>1. NoReplyScore(d) \in {0, 2, 4}
    BY DEF NoReplyScore
  <2>2. RttScore(d) \in {0, 1, 3, 4}
    BY DEF RttScore
  <2>3. JitterScore(d) \in {0, 1, 3}
    BY DEF JitterScore
  <2> QED BY <2>1, <2>2, <2>3
<1>2. ASSUME NEW base, NEW d
      PROVE  RttDeltaScore(base, d) \in {0, 1, 3} /\ JitterDeltaScore(base, d) \in {0, 1, 3}
  <2>1. RttDeltaScore(base, d) \in {0, 1, 3}
    BY DEF RttDeltaScore
  <2>2. JitterDeltaScore(base, d) \in {0, 1, 3}
    BY DEF JitterDeltaScore
  <2> QED BY <2>1, <2>2
<1> QED BY <1>1, <1>2

LEMMA AloneAndDelta ==
  /\ \A d : Alone(d) \in 0..11
  /\ \A base, d : DeltaScore(base, d) \in 0..6
<1>1. \A a \in {0, 2, 4}, b \in {0, 1, 3, 4}, c \in {0, 1, 3} : a + b + c \in 0..11
  OBVIOUS
<1>2. \A a, b \in {0, 1, 3} : a + b \in 0..6
  OBVIOUS
<1>3. \A d : Alone(d) \in 0..11
  BY <1>1, ScoreRanges DEF Alone
<1>4. \A base, d : DeltaScore(base, d) \in 0..6
  BY <1>2, ScoreRanges DEF DeltaScore
<1> QED BY <1>3, <1>4

LEMMA LevelOfScore ==
  ASSUME NEW score \in Nat, NEW missing \in BOOLEAN
  PROVE  LET level == diagnosis_level_from_score(score, missing) IN
         /\ level \in Level
         /\ missing => level = "POOR"
         /\ level = "NORMAL" => ~missing /\ score < 2
<1> DEFINE poor == missing \/ score >= 5
           caution == ~missing /\ score \in 2..4
           level == diagnosis_level_from_score(score, missing)
<1>1. level = CASE poor -> "POOR" [] caution -> "CAUTION" [] OTHER -> "NORMAL"
  BY DEF diagnosis_level_from_score
<1>2. /\ poor => ~caution
      /\ ~poor /\ ~caution => ~missing /\ score < 2
      /\ missing => poor
  OBVIOUS
<1>3. poor \in BOOLEAN /\ caution \in BOOLEAN
  OBVIOUS
<1> HIDE DEF poor, caution, level
<1>4. /\ poor => level = "POOR"
      /\ caution => level = "CAUTION"
      /\ ~poor /\ ~caution => level = "NORMAL"
  BY <1>1, <1>2, <1>3
<1>5. level \in Level
  BY <1>4 DEF Level
<1>6. missing => level = "POOR"
  BY <1>2, <1>4
<1>7. level = "NORMAL" => ~missing /\ score < 2
  BY <1>2, <1>4
<1> QED BY <1>5, <1>6, <1>7 DEF level

LEMMA DiagnosisFields ==
  ASSUME NEW b, NEW c, NEW m
  PROVE  LET g == evaluate_mtr_quality(b, c, m)
             t == find_destination_hop(c, m)
             o == find_destination_hop(b.hops, b.hop_count)
         IN /\ g.destination = t /\ g.baseline_destination = o
            /\ g.cycles = observed_cycles(c, m)
            /\ t = 0 => g.score = 4
            /\ t # 0 /\ o = 0 => g.score = Alone(c[t])
            /\ t # 0 /\ o # 0 => g.score = Alone(c[t]) + DeltaScore(b.hops[o], c[t])
            /\ g.level = diagnosis_level_from_score(g.score, t = 0)
<1> DEFINE t == find_destination_hop(c, m)
           o == find_destination_hop(b.hops, b.hop_count)
           d == c[t]
           delta == IF o = 0 THEN 0 ELSE DeltaScore(b.hops[o], d)
           missing == t = 0
           score == IF missing THEN 4 ELSE Alone(d) + delta
           g == evaluate_mtr_quality(b, c, m)
<1>1. g = [level |-> diagnosis_level_from_score(score, missing), score |-> score,
           cycles |-> observed_cycles(c, m), destination |-> t, baseline_destination |-> o]
  BY DEF evaluate_mtr_quality, Alone
<1>2. Alone(d) \in 0..11
  BY AloneAndDelta
<1>3. Alone(d) + 0 = Alone(d)
  BY <1>2
<1> HIDE DEF g, t, o
<1>4. /\ g.destination = t /\ g.baseline_destination = o /\ g.cycles = observed_cycles(c, m)
      /\ g.score = score /\ g.level = diagnosis_level_from_score(score, missing)
  BY <1>1
<1>5. /\ t = 0 => g.score = 4
      /\ t # 0 /\ o = 0 => g.score = Alone(c[t])
      /\ t # 0 /\ o # 0 => g.score = Alone(c[t]) + DeltaScore(b.hops[o], c[t])
  BY <1>3, <1>4
<1>6. g.level = diagnosis_level_from_score(g.score, t = 0)
  BY <1>4
<1> QED BY <1>4, <1>5, <1>6 DEF g, t, o

LEMMA DiagnosisType ==
  ASSUME NEW b, NEW c, NEW m
  PROVE  LET g == evaluate_mtr_quality(b, c, m) IN g.level \in Level /\ g.score \in 0..17
<1> DEFINE g == evaluate_mtr_quality(b, c, m)
           t == find_destination_hop(c, m)
           o == find_destination_hop(b.hops, b.hop_count)
<1>1. /\ t = 0 => g.score = 4
      /\ t # 0 /\ o = 0 => g.score = Alone(c[t])
      /\ t # 0 /\ o # 0 => g.score = Alone(c[t]) + DeltaScore(b.hops[o], c[t])
      /\ g.level = diagnosis_level_from_score(g.score, t = 0)
  BY DiagnosisFields
<1>2. Alone(c[t]) \in 0..11 /\ DeltaScore(b.hops[o], c[t]) \in 0..6
  BY AloneAndDelta
<1> HIDE DEF g
<1>3. g.score \in 0..17
  <2> HIDE DEF t, o
  <2> QED BY <1>1, <1>2
<1>4. (t = 0) \in BOOLEAN /\ g.score \in Nat
  BY <1>3
<1>5. g.level \in Level
  <2> DEFINE missing == t = 0
  <2>1. missing \in BOOLEAN /\ g.level = diagnosis_level_from_score(g.score, missing)
    BY <1>1, <1>4
  <2> HIDE DEF missing
  <2> QED BY <1>4, <2>1, LevelOfScore
<1> QED BY <1>3, <1>5 DEF g

(* The list of changes names hops of the array only, whatever the file said. *)
LEMMA ListTyped ==
  ASSUME InRange(baseline), IsMeasurement(current)
  PROVE  print_baseline_change_list(baseline, current, Len(current)) \in Seq(Changed)
<1> DEFINE k == baseline.hop_count
           m == Len(current)
           olds == [h \in 1..k |-> OldPart(h)]
           news == [h \in 1..m |-> NewPart(h)]
           a == Seqs!FlattenSeq(olds)
           b == Seqs!FlattenSeq(news)
<1>1. m \in 1..MaxHop /\ MaxHop \in Nat /\ k \in 0..MaxHop
  BY TableShape, MaxHopAssumption DEF InRange
<1>2. k \in Nat /\ m \in Nat /\ (\A h \in 1..k : h \in 1..MaxHop)
  BY <1>1
<1>3. print_baseline_change_list(baseline, current, m) = Joined(a, b)
  BY DEF print_baseline_change_list, Joined, OldPart, NewPart
<1>4. ASSUME NEW h \in 1..MaxHop PROVE OldPart(h) \in Seq(Changed)
  <2> DEFINE r == baseline.hops[h]
             found == find_current_hop(current, Len(current), h)
             s == OldPart(h)
  <2>1. h \in Nat /\ h > 0
    BY <1>1
  <2>2. found = 0 \/ found > 0
    <3>1. found = IF h \in Probed(current) THEN h ELSE 0
      BY <2>1, HopFound
    <3> HIDE DEF found
    <3> QED BY <2>1, <3>1
  <2>3. s = CASE r.sent = 0 -> <<>>
              [] r.sent # 0 /\ found = 0 -> Change(h, "missing", TRUE)
              [] r.sent # 0 /\ found > 0 -> print_hop_change(r, current[found])
    BY DEF OldPart, OfBaselineHop
  <2>4. r.sent # 0 => r.hop = h
    BY DEF InRange
  <2> HIDE DEF r, found, s
  <2>5. CASE r.sent = 0
    <3>1. s = <<>>
      BY <2>3, <2>5
    <3> QED BY <3>1 DEF s
  <2>6. CASE r.sent # 0 /\ found = 0
    <3>1. s = Change(h, "missing", TRUE)
      <4>1. ~(r.sent = 0) /\ r.sent # 0 /\ found = 0 /\ ~(found > 0)
        BY <2>6
      <4> QED BY <2>3, <4>1, Zenon
    <3>2. Entry(h, "missing") \in Changed /\ TRUE \in BOOLEAN
      BY DEF Entry, Changed
    <3> QED BY <3>1, <3>2, OneChange, Zenon DEF s
  <2>7. CASE r.sent # 0 /\ found > 0
    <3>1. s = print_hop_change(r, current[found])
      <4>1. ~(r.sent = 0) /\ r.sent # 0 /\ ~(found = 0) /\ found > 0
        BY <2>7
      <4> QED BY <2>3, <4>1, Zenon
    <3>2. r.hop \in 1..MaxHop
      BY <2>4, <2>7
    <3> QED BY <3>1, <3>2, HopChanges DEF s
  <2> QED BY <2>2, <2>5, <2>6, <2>7
<1>5. ASSUME NEW h \in 1..Len(current) PROVE NewPart(h) \in Seq(Changed)
  <2> DEFINE t == current[h]
             fresh == /\ t.sent > 0
                      /\ t.hop > baseline.hop_count \/ baseline.hops[t.hop].sent = 0
  <2>1. t.hop = h /\ h \in 1..MaxHop
    BY <1>1, TableShape
  <2>2. NewPart(h) = Change(h, "new", fresh)
    BY <2>1 DEF NewPart, OfCurrentHop
  <2>3. fresh \in BOOLEAN
    OBVIOUS
  <2>4. Entry(h, "new") \in Changed
    BY <2>1 DEF Entry, Changed
  <2> HIDE DEF fresh
  <2> QED BY <2>2, <2>3, <2>4, OneChange
<1> HIDE DEF k, m
<1>6. olds \in [1..k -> Seq(Changed)] /\ news \in [1..m -> Seq(Changed)]
  BY <1>2, <1>4, <1>5 DEF m
<1> HIDE DEF olds, news
<1>7. olds \in Seq(Seq(Changed)) /\ news \in Seq(Seq(Changed))
  BY <1>2, <1>6, FunctionIsSequence
<1>8. a \in Seq(Changed) /\ b \in Seq(Changed)
  BY <1>7, FlattenType
<1> HIDE DEF a, b
<1>9. Joined(a, b) \in Seq(Changed)
  BY <1>8, JoinedParts
<1> QED BY <1>3, <1>9 DEF m

(* Types of the file, of the MtrBaseline and of the diagnosis, for every     *)
(* number of hops and for a file that somebody has edited: whatever number   *)
(* of hops and whatever hop it names, the reader refuses it or stores the    *)
(* row within the array and under its own number (baseline.c:161-163,        *)
(* 198-200).                                                                 *)
THEOREM TypeCorrect == Spec => []TypeOK
<1>1. ASSUME Invariant PROVE TypeOK
  <2>1. MaxHop \in Nat
    BY MaxHopAssumption
  <2>2. /\ pc \in {"write", "read", "refused", "accepted", "done"}
        /\ pos \in 0..Len(file) /\ Len(file) <= 6 + MaxHop + (IF edited THEN 1 ELSE 0)
        /\ torn \in BOOLEAN /\ edited \in BOOLEAN /\ reading_hops \in BOOLEAN
    <3>1. CASE edited
      <4>1. /\ pc \in {"read", "refused", "accepted", "done"}
            /\ torn \in BOOLEAN /\ reading_hops \in BOOLEAN
            /\ Len(file) \in Nat /\ Len(file) <= 7 + MaxHop /\ pos \in 0..Len(file)
        BY <1>1, <3>1 DEF Invariant, EditedInPlace
      <4>2. Len(file) <= 6 + MaxHop + (IF edited THEN 1 ELSE 0)
        BY <2>1, <3>1, <4>1
      <4>3. edited \in BOOLEAN
        BY <1>1 DEF Invariant, EditedInPlace
      <4> QED BY <4>1, <4>2, <4>3
    <3>2. CASE ~edited
      <4>1. FileInPlace /\ ReaderInPlace
        BY <1>1, <3>2 DEF Invariant, IInv
      <4>2. Len(file) \in Nat /\ Len(file) <= 6 + MaxHop
        BY <4>1, FileLength
      <4>3. /\ pc \in {"write", "read", "refused", "accepted", "done"}
            /\ pos \in 0..Len(file) /\ reading_hops \in BOOLEAN /\ torn \in BOOLEAN
        BY <4>1 DEF FileInPlace, ReaderInPlace
      <4>4. Len(file) <= 6 + MaxHop + (IF edited THEN 1 ELSE 0)
        BY <2>1, <3>2, <4>2
      <4>5. edited \in BOOLEAN
        BY <1>1 DEF Invariant, EditedInPlace
      <4> QED BY <4>3, <4>4, <4>5
    <3> QED BY <3>1, <3>2
  <2>3. /\ baseline.hop_count \in 0..MaxHop
        /\ DOMAIN baseline.hops = 1..MaxHop
        /\ \A h \in 1..MaxHop : baseline.hops[h].hop \in {0, h}
    <3>1. InRange(baseline)
      BY <1>1 DEF Invariant
    <3>2. baseline.hops = [h \in 1..MaxHop |-> baseline.hops[h]]
      BY <3>1 DEF InRange, Shaped
    <3>3. DOMAIN baseline.hops = 1..MaxHop
      BY <3>2
    <3> QED BY <3>1, <3>3 DEF InRange
  <2>4. ASSUME NEW i \in DOMAIN changes
        PROVE  /\ changes[i].hop \in 1..MaxHop
               /\ changes[i].what \in {"missing", "new", "address", "no_reply", "rtt"}
    <3>1. CASE pc # "done"
      <4>1. changes = <<>>
        BY <1>1, <3>1 DEF Invariant, ComparisonInPlace
      <4> QED BY <2>4, <4>1
    <3>2. CASE pc = "done"
      <4>1. /\ IsMeasurement(current) /\ InRange(baseline)
            /\ changes = print_baseline_change_list(baseline, current, Len(current))
        BY <1>1, <3>2 DEF Invariant, ComparisonInPlace
      <4>2. changes \in Seq(Changed)
        BY <4>1, ListTyped
      <4>3. changes[i] \in Changed
        BY <2>4, <4>2
      <4> QED BY <4>3 DEF Changed
    <3> QED BY <3>1, <3>2
  <2>5. diagnosis.level \in Level /\ diagnosis.score \in 0..17
    <3>1. CASE pc # "done"
      BY <1>1, <3>1, DiagnosisType DEF Invariant, ComparisonInPlace
    <3>2. CASE pc = "done"
      BY <1>1, <3>2, DiagnosisType DEF Invariant, ComparisonInPlace
    <3> QED BY <3>1, <3>2
  <2> QED BY <2>2, <2>3, <2>4, <2>5 DEF TypeOK
<1> QED BY <1>1, BaselineInvariant, PTL

-----------------------------------------------------------------------------
(* The growth of a mean, when the mean it is compared with is rounded.       *)

LEMMA Scaled ==
  \A x, y \in Int : \A z \in Nat : z > 0 => (x <= y <=> x * z <= y * z)
<1> SUFFICES ASSUME NEW x \in Int, NEW y \in Int, NEW z \in Nat, z > 0
             PROVE  x <= y <=> x * z <= y * z
  OBVIOUS
<1>1. ASSUME x <= y PROVE x * z <= y * z
  <2>1. (y - x) * z >= 0
    BY <1>1
  <2> QED BY <2>1
<1>2. ASSUME x > y PROVE x * z > y * z
  <2>1. (x - y) * z > 0
    BY <1>2
  <2> QED BY <2>1
<1> QED BY <1>1, <1>2

(* a is n / q up to half of T. *)
RoundedFrom(a, n, q, T) == 2 * (a * q - n) <= T * q /\ 2 * (n - a * q) <= T * q

LEMMA GrowthRounded ==
  ASSUME NEW n \in Nat, NEW q \in Nat, q > 0, NEW d \in Nat, NEW p \in Nat, p > 0,
         NEW a \in Nat, NEW T \in Nat, RoundedFrom(a, n, q, T), NEW bound \in Nat
  PROVE  /\ d - a * p >= bound * p => d * q - n * p >= (bound - T) * (p * q)
         /\ d * q - n * p >= (bound + T) * (p * q) => d - a * p >= bound * p
         /\ d * q - 2 * (n * p) >= 2 * (T * (p * q)) => d >= 2 * (a * p)
<1> DEFINE X == p * q
           A == a * X
           N == n * p
           D == d * q
           E == T * X
           B == bound * X
<1>1. X \in Nat /\ A \in Nat /\ N \in Nat /\ D \in Nat /\ E \in Nat /\ B \in Nat
  BY SMTT(30)
<1>2. 2 * (A - N) <= E /\ 2 * (N - A) <= E
  <2>1. 2 * (a * q - n) <= T * q /\ 2 * (n - a * q) <= T * q
    BY DEF RoundedFrom
  <2>2. (2 * (a * q - n)) * p <= (T * q) * p /\ (2 * (n - a * q)) * p <= (T * q) * p
    <3>1. 2 * (a * q - n) \in Int /\ 2 * (n - a * q) \in Int /\ T * q \in Int
      OBVIOUS
    <3> QED BY <2>1, <3>1, Scaled
  <2>3. /\ (2 * (a * q - n)) * p = 2 * (A - N) /\ (2 * (n - a * q)) * p = 2 * (N - A)
        /\ (T * q) * p = E
    BY SMTT(30)
  <2> QED BY <2>2, <2>3
<1>3. d - a * p >= bound * p <=> D - A >= B
  <2>1. bound * p <= d - a * p <=> (bound * p) * q <= (d - a * p) * q
    <3>1. bound * p \in Int /\ d - a * p \in Int
      OBVIOUS
    <3> QED BY <3>1, Scaled
  <2>2. (bound * p) * q = B /\ (d - a * p) * q = D - A
    BY SMTT(30)
  <2>3. bound * p \in Int /\ d - a * p \in Int
    OBVIOUS
  <2> HIDE DEF A, B, D
  <2> QED BY <1>1, <2>1, <2>2, <2>3
<1>4. d >= 2 * (a * p) <=> D >= 2 * A
  <2>1. 2 * (a * p) <= d <=> (2 * (a * p)) * q <= d * q
    <3>1. 2 * (a * p) \in Int
      OBVIOUS
    <3> QED BY <3>1, Scaled
  <2>2. (2 * (a * p)) * q = 2 * A
    BY SMTT(30)
  <2>3. 2 * (a * p) \in Int
    OBVIOUS
  <2> QED BY <2>1, <2>2, <2>3
<1>5. (bound - T) * (p * q) = B - E /\ (bound + T) * (p * q) = B + E
  BY SMTT(30)
<1>6. d * q = D /\ n * p = N /\ T * (p * q) = E
  OBVIOUS
<1> HIDE DEF X, A, N, D, E, B
<1>7. /\ D - A >= B => D - N >= B - E
      /\ D - N >= B + E => D - A >= B
      /\ D - 2 * N >= 2 * E => D >= 2 * A
  BY <1>1, <1>2
<1>8. d - a * p >= bound * p => d * q - n * p >= (bound - T) * (p * q)
  BY <1>3, <1>5, <1>6, <1>7
<1>9. d * q - n * p >= (bound + T) * (p * q) => d - a * p >= bound * p
  BY <1>3, <1>5, <1>6, <1>7
<1>10. d * q - 2 * (n * p) >= 2 * (T * (p * q)) => d >= 2 * (a * p)
  BY <1>4, <1>6, <1>7
<1> QED BY <1>8, <1>9, <1>10

LEMMA RoundedTime ==
  ASSUME NEW q, Positive(q), NEW t \in Rounded(q, Tenth)
  PROVE  t * Tenth \in Nat /\ RoundedFrom(t * Tenth, q[1], q[2], Tenth)
<1> DEFINE n == q[1]
           d == q[2]
<1>1. n \in Nat /\ d \in Nat /\ d > 0 /\ t \in Rounded(<<n, d>>, Tenth)
  BY DEF Positive
<1>2. Tenth \in Nat /\ Tenth > 0
  BY TenthAssumption
<1>3. /\ t \in Nat
      /\ 2 * (n - t * d * Tenth) <= d * Tenth
      /\ 2 * (t * d * Tenth - n) <= d * Tenth
  BY <1>1, <1>2, RoundedNear
<1> HIDE DEF n, d
<1>4. 2 * ((t * Tenth) * d - n) <= Tenth * d /\ 2 * (n - (t * Tenth) * d) <= Tenth * d
  BY <1>1, <1>2, <1>3
<1>5. t * Tenth \in Nat
  BY <1>2, <1>3
<1> QED BY <1>4, <1>5 DEF RoundedFrom, n, d

(* The mean and the jitter of a hop that has come back. *)
SavedTimes(r, s, a, b) ==
  /\ Positive(s.avg_ms) /\ r.avg_ms = <<a, 1>>
  /\ RoundedFrom(a, s.avg_ms[1], s.avg_ms[2], Tenth)
  /\ Positive(s.jitter_ms) /\ r.jitter_ms = <<b, 1>>
  /\ RoundedFrom(b, s.jitter_ms[1], s.jitter_ms[2], Tenth)

LEMMA SavedHop ==
  ASSUME IInv, NEW n \in Nat, Comeback(n), NEW h \in 1..n
  PROVE  /\ old[h] \in HopStats /\ FlagsAgree(old[h]) /\ Quotients(old[h])
         /\ old[h].sent > 0 /\ SavedFrom(baseline.hops[h], old[h])
         /\ Positive(old[h].no_reply)
         /\ \E a, b \in Nat : SavedTimes(baseline.hops[h], old[h], a, b)
<1> DEFINE s == old[h]
           r == baseline.hops[h]
<1>1. s \in HopStats /\ FlagsAgree(s) /\ Quotients(s)
  <2>1. IsMeasurement(old)
    BY DEF IInv, FileInPlace
  <2>2. Len(old) \in 1..MaxHop /\ MaxHop \in Nat
    BY <2>1, TableShape, MaxHopAssumption
  <2>3. h \in 1..Len(old)
    BY <2>2 DEF Comeback
  <2> QED BY <2>1, <2>3, TableShape
<1>2. s.sent > 0 /\ SavedFrom(r, s)
  BY DEF Comeback
<1> HIDE DEF s, r
<1>3. s.received <= s.sent
  BY <1>1 DEF FlagsAgree
<1>4. Positive(s.no_reply) /\ Positive(s.avg_ms) /\ Positive(s.jitter_ms)
  BY <1>1, <1>3, QuotientsPositive
<1>5. PICK t \in Rounded(s.avg_ms, Tenth) : r.avg_ms = <<t * Tenth, 1>>
  BY <1>2 DEF SavedFrom
<1>6. PICK u \in Rounded(s.jitter_ms, Tenth) : r.jitter_ms = <<u * Tenth, 1>>
  BY <1>2 DEF SavedFrom
<1>7. t * Tenth \in Nat /\ RoundedFrom(t * Tenth, s.avg_ms[1], s.avg_ms[2], Tenth)
  BY <1>4, RoundedTime
<1>8. u * Tenth \in Nat /\ RoundedFrom(u * Tenth, s.jitter_ms[1], s.jitter_ms[2], Tenth)
  BY <1>4, RoundedTime
<1> DEFINE a == t * Tenth
           b == u * Tenth
<1>9. /\ a \in Nat /\ RoundedFrom(a, s.avg_ms[1], s.avg_ms[2], Tenth) /\ r.avg_ms = <<a, 1>>
      /\ b \in Nat /\ RoundedFrom(b, s.jitter_ms[1], s.jitter_ms[2], Tenth)
      /\ r.jitter_ms = <<b, 1>>
  BY <1>5, <1>6, <1>7, <1>8
<1> HIDE DEF a, b
<1>10. SavedTimes(r, s, a, b)
  BY <1>4, <1>9 DEF SavedTimes
<1>11. \E x, y \in Nat : SavedTimes(r, s, x, y)
  BY <1>9, <1>10
<1> QED BY <1>1, <1>2, <1>4, <1>11 DEF s, r

LEMMA MeasuredHop ==
  ASSUME NEW x, IsMeasurement(x), NEW h \in 1..Len(x)
  PROVE  /\ x[h] \in HopStats /\ FlagsAgree(x[h]) /\ Quotients(x[h])
         /\ Positive(x[h].no_reply) /\ Positive(x[h].avg_ms) /\ Positive(x[h].jitter_ms)
<1>1. x[h] \in HopStats /\ FlagsAgree(x[h]) /\ Quotients(x[h])
  BY TableShape
<1>2. x[h].received <= x[h].sent
  BY <1>1 DEF FlagsAgree
<1> QED BY <1>1, <1>2, QuotientsPositive

Ticks == Ms \in Nat /\ Ms > 0 /\ Tenth \in Nat /\ Tenth > 0 /\ Ms = 10 * Tenth

LEMMA TicksHold == Ticks
  BY MsAssumption, TenthAssumption DEF Ticks

(* A mean is listed as grown when it has grown by 20 ms, up to the rounding. *)
LEMMA ListedGrowth ==
  ASSUME NEW r, NEW s, NEW t, NEW a \in Nat, NEW b \in Nat, SavedTimes(r, s, a, b),
         Positive(t.avg_ms)
  PROVE  LET grown == Minus(t.avg_ms, s.avg_ms)
             shown == Minus(t.avg_ms, r.avg_ms)
         IN /\ AtLeast(shown, 20 * Ms) => AtLeast(grown, 20 * Ms - Tenth)
            /\ AtLeast(grown, 20 * Ms + Tenth) => AtLeast(shown, 20 * Ms)
<1> DEFINE n == s.avg_ms[1]
           q == s.avg_ms[2]
           d == t.avg_ms[1]
           p == t.avg_ms[2]
           bound == 20 * Ms
<1>1. n \in Nat /\ q \in Nat /\ q > 0 /\ d \in Nat /\ p \in Nat /\ p > 0
  BY DEF SavedTimes, Positive
<1>2. RoundedFrom(a, n, q, Tenth) /\ r.avg_ms[1] = a /\ r.avg_ms[2] = 1
  BY DEF SavedTimes
<1>3. bound \in Nat /\ Tenth \in Nat
  BY TicksHold DEF Ticks
<1> HIDE DEF bound
<1>4. /\ AtLeast(Minus(t.avg_ms, s.avg_ms), bound - Tenth) <=>
           d * q - n * p >= (bound - Tenth) * (p * q)
      /\ AtLeast(Minus(t.avg_ms, s.avg_ms), bound + Tenth) <=>
           d * q - n * p >= (bound + Tenth) * (p * q)
  BY DEF AtLeast, Minus
<1>5. AtLeast(Minus(t.avg_ms, r.avg_ms), bound) <=> d * 1 - a * p >= bound * (p * 1)
  BY <1>2 DEF AtLeast, Minus
<1> HIDE DEF n, q, d, p
<1>6. d * 1 = d /\ p * 1 = p
  BY <1>1
<1>7. /\ d - a * p >= bound * p => d * q - n * p >= (bound - Tenth) * (p * q)
      /\ d * q - n * p >= (bound + Tenth) * (p * q) => d - a * p >= bound * p
  <2>1. RoundedFrom(a, n, q, Tenth)
    BY <1>2
  <2>2. d - a * p >= bound * p => d * q - n * p >= (bound - Tenth) * (p * q)
    BY <1>1, <1>3, <2>1, GrowthRounded, ZenonT(60)
  <2>3. d * q - n * p >= (bound + Tenth) * (p * q) => d - a * p >= bound * p
    BY <1>1, <1>3, <2>1, GrowthRounded, ZenonT(60)
  <2> QED BY <2>2, <2>3
<1> QED BY <1>4, <1>5, <1>6, <1>7 DEF bound

(* A hop is listed for its unanswered probes when they have become more by 5 *)
(* per cent of all, up to the rounding.                                      *)
LEMMA ListedLoss ==
  ASSUME NEW r, NEW s, NEW t, Positive(s.no_reply), Positive(t.no_reply),
         NEW v \in Rounded(<<1000 * s.no_reply[1], s.no_reply[2]>>, 1), r.no_reply = <<v, 1000>>
  PROVE  LET lost == Minus(t.no_reply, s.no_reply)
             tenths == <<1000 * lost[1], lost[2]>>
         IN /\ NoReplyGrown(r, t) => AtLeast(tenths, 50 - 1)
            /\ AtLeast(tenths, 50 + 1) => NoReplyGrown(r, t)
<1> DEFINE n == s.no_reply[1]
           q == s.no_reply[2]
           x == t.no_reply[1]
           p == t.no_reply[2]
           N == 1000 * n
           D == 1000 * x
           lost == Minus(t.no_reply, s.no_reply)
           tenths == <<1000 * lost[1], lost[2]>>
<1>1. n \in Nat /\ q \in Nat /\ q > 0 /\ x \in Nat /\ p \in Nat /\ p > 0
  BY DEF Positive
<1>2. lost = <<x * q - n * p, p * q>>
  BY DEF Minus
<1>3. tenths = <<1000 * (x * q - n * p), p * q>>
  BY <1>2
<1>4. \A bound : AtLeast(tenths, bound) <=> 1000 * (x * q - n * p) >= bound * (p * q)
  BY <1>3 DEF AtLeast
<1>5. NoReplyGrown(r, t) <=> 100 * (x * 1000 - v * p) >= 5 * (p * 1000)
  BY DEF NoReplyGrown, Minus
<1>6. N \in Nat /\ D \in Nat /\ v \in Rounded(<<N, q>>, 1)
  BY <1>1
<1> HIDE DEF tenths, lost
<1>7. v \in Nat /\ RoundedFrom(v, N, q, 1)
  <2> HIDE DEF n, q, x, p, N, D
  <2>1. v \in Nat /\ 2 * (N - v * q * 1) <= q * 1 /\ 2 * (v * q * 1 - N) <= q * 1
    BY <1>1, <1>6, RoundedNear
  <2> QED BY <1>1, <1>6, <2>1 DEF RoundedFrom
<1>8. 1000 * (x * q - n * p) = D * q - N * p
  <2> HIDE DEF n, q, x, p
  <2> QED BY <1>1
<1>9. NoReplyGrown(r, t) <=> D - v * p >= 50 * p
  <2> HIDE DEF n, q, x, p
  <2>1. v * p \in Int
    BY <1>1, <1>7
  <2> DEFINE vp == v * p
  <2>2. 100 * (x * 1000 - vp) >= 5 * (p * 1000) <=> D - vp >= 50 * p
    <3>1. vp \in Int
      BY <2>1
    <3> HIDE DEF vp
    <3> QED BY <1>1, <3>1
  <2> QED BY <1>5, <2>2
<1> HIDE DEF n, q, x, p, N, D
<1>10. /\ D - v * p >= 50 * p => D * q - N * p >= (50 - 1) * (p * q)
       /\ D * q - N * p >= (50 + 1) * (p * q) => D - v * p >= 50 * p
  <2> DEFINE bound == 50
             T == 1
  <2>1. bound \in Nat /\ T \in Nat /\ RoundedFrom(v, N, q, T)
    BY <1>7
  <2> HIDE DEF bound, T
  <2>2. D - v * p >= bound * p => D * q - N * p >= (bound - T) * (p * q)
    BY <1>1, <1>6, <1>7, <2>1, GrowthRounded, ZenonT(60)
  <2>3. D * q - N * p >= (bound + T) * (p * q) => D - v * p >= bound * p
    BY <1>1, <1>6, <1>7, <2>1, GrowthRounded, ZenonT(60)
  <2> QED BY <2>2, <2>3, Zenon DEF bound, T
<1>11. /\ NoReplyGrown(r, t) => AtLeast(tenths, 50 - 1)
       /\ AtLeast(tenths, 50 + 1) => NoReplyGrown(r, t)
  BY <1>4, <1>8, <1>9, <1>10
<1> QED BY <1>11 DEF tenths, lost

(* The hops that were probed are the first ones. *)
LEMMA ProbedDepth ==
  ASSUME NEW x, IsMeasurement(x)
  PROVE  \E k \in 1..MaxHop : Probed(x) = 1..k
<1>1. PICK k \in 1..Len(x) : Deep(x, k)
  BY LinesShape
<1>2. Len(x) \in 1..MaxHop /\ DOMAIN x = 1..Len(x) /\ MaxHop \in Nat
  BY TableShape, MaxHopAssumption
<1>3. Probed(x) = {h \in 1..Len(x) : h <= k}
  BY <1>1, <1>2 DEF Probed, Deep
<1>4. {h \in 1..Len(x) : h <= k} = 1..k /\ k \in 1..MaxHop
  BY <1>1, <1>2
<1> QED BY <1>3, <1>4

(* The hops a kind of change is listed for. *)
LEMMA ListedHops ==
  ASSUME IInv, pc = "done", NEW n \in Nat, Comeback(n),
         NEW what \in {"missing", "new", "address", "no_reply", "rtt"}
  PROVE  Listed(what) = {h \in 1..MaxHop : Says(Entry(h, what), n)}
<1>1. /\ IsMeasurement(current)
      /\ changes = print_baseline_change_list(baseline, current, Len(current))
  BY DEF IInv, ComparisonInPlace
<1>2. Elements(changes) = {e \in Changed : Says(e, n)}
  BY <1>1, ListSays
<1>3. Listed(what) = {e.hop : e \in {e \in Elements(changes) : e.what = what}}
  BY DEF Listed, Elements
<1>4. ASSUME NEW e \in Changed, e.what = what PROVE e = Entry(e.hop, what) /\ e.hop \in 1..MaxHop
  BY <1>4 DEF Changed, Entry
<1>5. ASSUME NEW h \in 1..MaxHop
      PROVE  Entry(h, what) \in Changed /\ Entry(h, what).what = what /\ Entry(h, what).hop = h
  BY <1>5 DEF Changed, Entry
<1>6. ASSUME NEW h \in Listed(what) PROVE h \in {g \in 1..MaxHop : Says(Entry(g, what), n)}
  <2>1. PICK e \in Elements(changes) : e.what = what /\ h = e.hop
    BY <1>3, <1>6
  <2>2. e \in Changed /\ Says(e, n)
    BY <1>2, <2>1
  <2> QED BY <1>4, <2>1, <2>2
<1>7. ASSUME NEW h \in 1..MaxHop, Says(Entry(h, what), n) PROVE h \in Listed(what)
  <2>1. Entry(h, what) \in Elements(changes)
    BY <1>2, <1>5, <1>7
  <2> QED BY <1>3, <1>5, <2>1
<1> QED BY <1>6, <1>7

LEMMA SaysOf ==
  ASSUME NEW n, NEW h
  PROVE  /\ Says(Entry(h, "missing"), n) <=> h \in 1..n /\ h \notin Probed(current)
         /\ Says(Entry(h, "new"), n) <=> h \in Probed(current) /\ h \notin 1..n
         /\ Says(Entry(h, "address"), n) <=>
              /\ h \in 1..n /\ h \in Probed(current)
              /\ AddressChanged(baseline.hops[h], current[h])
         /\ Says(Entry(h, "no_reply"), n) <=>
              /\ h \in 1..n /\ h \in Probed(current)
              /\ NoReplyGrown(baseline.hops[h], current[h])
         /\ Says(Entry(h, "rtt"), n) <=>
              /\ h \in 1..n /\ h \in Probed(current)
              /\ RttGrown(baseline.hops[h], current[h])
<1>1. \A what : Entry(h, what).hop = h /\ Entry(h, what).what = what
  BY DEF Entry
<1>2. Says(Entry(h, "missing"), n) <=> h \in 1..n /\ h \notin Probed(current)
  BY <1>1 DEF Says
<1>3. Says(Entry(h, "new"), n) <=> h \in Probed(current) /\ h \notin 1..n
  BY <1>1 DEF Says
<1>4. Says(Entry(h, "address"), n) <=>
        /\ h \in 1..n /\ h \in Probed(current)
        /\ AddressChanged(baseline.hops[h], current[h])
  BY <1>1 DEF Says
<1>5. Says(Entry(h, "no_reply"), n) <=>
        /\ h \in 1..n /\ h \in Probed(current)
        /\ NoReplyGrown(baseline.hops[h], current[h])
  BY <1>1 DEF Says
<1>6. Says(Entry(h, "rtt"), n) <=>
        /\ h \in 1..n /\ h \in Probed(current)
        /\ RttGrown(baseline.hops[h], current[h])
  BY <1>1 DEF Says
<1> QED BY <1>2, <1>3, <1>4, <1>5, <1>6

(* A hop of both runs is listed for what has changed, and for nothing else. *)
ListedForGrowth(h) ==
  LET s == old[h]  t == current[h]
      grown == Minus(t.avg_ms, s.avg_ms)
      lost == Minus(t.no_reply, s.no_reply)
      tenths == <<1000 * lost[1], lost[2]>>
  IN
  /\ h \in Listed("address") <=>
       "" \notin {s.remote_ip, t.remote_ip} /\ s.remote_ip # t.remote_ip
  /\ h \in Listed("no_reply") => AtLeast(tenths, 50 - 1)
  /\ AtLeast(tenths, 50 + 1) => h \in Listed("no_reply")
  /\ h \in Listed("rtt") => s.has_rtt /\ t.has_rtt /\ AtLeast(grown, 20 * Ms - Tenth)
  /\ s.has_rtt /\ t.has_rtt /\ AtLeast(grown, 20 * Ms + Tenth) => h \in Listed("rtt")

(* The list of changes is complete and says nothing twice: a hop of either   *)
(* run that the other does not have is missing or new; a hop of both is      *)
(* listed when its address has changed, when 5 per cent more of its probes   *)
(* went unanswered or its mean has grown by 20 ms, and for nothing else, up  *)
(* to the tenth the baseline is rounded to.                                  *)
THEOREM ChangesCorrect == Spec => []ChangesComplete
<1>1. ASSUME IInv, pc = "done"
      PROVE  LET both == Restored \cap Probed(current) IN
             /\ IsInjective(changes)
             /\ Listed("missing") = Restored \ Probed(current)
             /\ Listed("new") = Probed(current) \ Restored
             /\ Listed("missing") = {} \/ Listed("new") = {}
             /\ ~torn => Listed("new") \cap Probed(old) = {}
             /\ Listed("address") \cup Listed("no_reply") \cup Listed("rtt") \subseteq both
             /\ \A h \in both : ListedForGrowth(h)
  <2>1. PICK n \in Nat : Comeback(n)
    BY <1>1, WhatComesBack
  <2>2. n \in 0..MaxHop /\ Restored = 1..n /\ (~torn => Probed(old) = 1..n)
    BY <1>1, <2>1, RestoredHops
  <2>3. /\ IsMeasurement(current)
        /\ changes = print_baseline_change_list(baseline, current, Len(current))
    BY <1>1 DEF IInv, ComparisonInPlace
  <2>4. PICK m \in 1..MaxHop : Probed(current) = 1..m
    BY <2>3, ProbedDepth
  <2>5. MaxHop \in Nat
    BY MaxHopAssumption
  <2>6. 1..n \subseteq 1..MaxHop /\ 1..m \subseteq 1..MaxHop
    BY <2>2, <2>4, <2>5
  <2>7. \A what \in {"missing", "new", "address", "no_reply", "rtt"} :
          Listed(what) = {h \in 1..MaxHop : Says(Entry(h, what), n)}
    BY <1>1, <2>1, ListedHops
  <2>8. IsInjective(changes)
    <3>1. Distinct(changes)
      BY <1>1, <2>1, <2>3, ListSays
    <3> QED BY <3>1 DEF Distinct, IsInjective
  <2>9. Listed("missing") = 1..n \ 1..m
    BY <2>4, <2>6, <2>7, SaysOf
  <2>10. Listed("new") = 1..m \ 1..n
    BY <2>4, <2>6, <2>7, SaysOf
  <2>11. Listed("missing") = {} \/ Listed("new") = {}
    <3>1. n <= m \/ m <= n
      BY <2>2, <2>4, <2>5
    <3>2. n <= m => 1..n \subseteq 1..m
      BY <2>2, <2>4, <2>5
    <3>3. m <= n => 1..m \subseteq 1..n
      BY <2>2, <2>4, <2>5
    <3> QED BY <2>9, <2>10, <3>1, <3>2, <3>3
  <2>12. ~torn => Listed("new") \cap Probed(old) = {}
    BY <2>2, <2>10
  <2>13. ASSUME NEW h \in 1..MaxHop
         PROVE  /\ h \in Listed("address") <=>
                     h \in 1..n /\ h \in 1..m /\ AddressChanged(baseline.hops[h], current[h])
                /\ h \in Listed("no_reply") <=>
                     h \in 1..n /\ h \in 1..m /\ NoReplyGrown(baseline.hops[h], current[h])
                /\ h \in Listed("rtt") <=>
                     h \in 1..n /\ h \in 1..m /\ RttGrown(baseline.hops[h], current[h])
    <3>1. h \in Listed("address") <=>
            h \in 1..n /\ h \in 1..m /\ AddressChanged(baseline.hops[h], current[h])
      BY <2>4, <2>7, SaysOf
    <3>2. h \in Listed("no_reply") <=>
            h \in 1..n /\ h \in 1..m /\ NoReplyGrown(baseline.hops[h], current[h])
      BY <2>4, <2>7, SaysOf
    <3>3. h \in Listed("rtt") <=>
            h \in 1..n /\ h \in 1..m /\ RttGrown(baseline.hops[h], current[h])
      BY <2>4, <2>7, SaysOf
    <3> QED BY <3>1, <3>2, <3>3
  <2>14. Listed("address") \cup Listed("no_reply") \cup Listed("rtt") \subseteq 1..n \cap 1..m
    <3>1. Listed("address") \subseteq 1..MaxHop /\ Listed("no_reply") \subseteq 1..MaxHop
          /\ Listed("rtt") \subseteq 1..MaxHop
      BY <2>7
    <3> QED BY <2>13, <3>1
  <2>15. ASSUME NEW h \in 1..n \cap 1..m PROVE ListedForGrowth(h)
    <3> DEFINE s == old[h]
               t == current[h]
               r == baseline.hops[h]
    <3>1. h \in 1..n /\ h \in 1..m /\ h \in 1..MaxHop
      BY <2>6
    <3>2. /\ h \in Listed("address") <=> AddressChanged(r, t)
          /\ h \in Listed("no_reply") <=> NoReplyGrown(r, t)
          /\ h \in Listed("rtt") <=> RttGrown(r, t)
      BY <2>13, <3>1
    <3>3. /\ SavedFrom(r, s) /\ Positive(s.no_reply)
          /\ \E a, b \in Nat : SavedTimes(r, s, a, b)
      BY <1>1, <2>1, <3>1, SavedHop
    <3>4. PICK a \in Nat, b \in Nat : SavedTimes(r, s, a, b)
      BY <3>3
    <3>5. h \in 1..Len(current)
      <4>1. DOMAIN current = 1..Len(current)
        BY <2>3, TableShape
      <4>2. Probed(current) \subseteq DOMAIN current
        BY DEF Probed
      <4> QED BY <2>4, <3>1, <4>1, <4>2
    <3>6. Positive(t.avg_ms) /\ Positive(t.no_reply)
      BY <2>3, <3>5, MeasuredHop
    <3> HIDE DEF s, t, r
    <3>7. /\ AtLeast(Minus(t.avg_ms, r.avg_ms), 20 * Ms) =>
               AtLeast(Minus(t.avg_ms, s.avg_ms), 20 * Ms - Tenth)
          /\ AtLeast(Minus(t.avg_ms, s.avg_ms), 20 * Ms + Tenth) =>
               AtLeast(Minus(t.avg_ms, r.avg_ms), 20 * Ms)
      BY <3>4, <3>6, ListedGrowth
    <3>8. h \in Listed("address") <=>
            "" \notin {s.remote_ip, t.remote_ip} /\ s.remote_ip # t.remote_ip
      <4>1. r.remote_ip = s.remote_ip
        BY <3>3 DEF SavedFrom
      <4> QED BY <3>2, <4>1, Zenon DEF AddressChanged
    <3>9. h \in Listed("rtt") =>
            s.has_rtt /\ t.has_rtt /\ AtLeast(Minus(t.avg_ms, s.avg_ms), 20 * Ms - Tenth)
      <4>1. r.has_rtt => s.has_rtt
        BY <3>3 DEF SavedFrom
      <4> QED BY <3>2, <3>7, <4>1 DEF RttGrown
    <3>10. s.has_rtt /\ t.has_rtt /\ AtLeast(Minus(t.avg_ms, s.avg_ms), 20 * Ms + Tenth)
             => h \in Listed("rtt")
      <4>1. s.has_rtt => r.has_rtt
        BY <3>3 DEF SavedFrom
      <4> QED BY <3>2, <3>7, <4>1 DEF RttGrown
    <3> DEFINE lost == Minus(t.no_reply, s.no_reply)
               tenths == <<1000 * lost[1], lost[2]>>
    <3>11. /\ h \in Listed("no_reply") => AtLeast(tenths, 50 - 1)
           /\ AtLeast(tenths, 50 + 1) => h \in Listed("no_reply")
      <4>1. PICK v \in Rounded(<<1000 * s.no_reply[1], s.no_reply[2]>>, 1) :
              r.no_reply = <<v, 1000>>
        BY <3>3 DEF SavedFrom
      <4>2. /\ NoReplyGrown(r, t) => AtLeast(tenths, 50 - 1)
            /\ AtLeast(tenths, 50 + 1) => NoReplyGrown(r, t)
        BY <3>3, <3>6, <4>1, ListedLoss
      <4> QED BY <3>2, <4>2
    <3> QED BY <3>8, <3>9, <3>10, <3>11 DEF ListedForGrowth, s, t
  <2> QED BY <2>2, <2>4, <2>8, <2>9, <2>10, <2>11, <2>12, <2>14, <2>15, Zenon
<1>2. Invariant => ChangesComplete
  BY <1>1 DEF Invariant, ChangesComplete, ListedForGrowth
<1> QED BY <1>2, BaselineInvariant, PTL

-----------------------------------------------------------------------------
(* A run that is compared with its own measurement.                          *)

(* What has come back of a hop has not grown. *)
LEMMA NoGrowth ==
  ASSUME NEW n \in Nat, NEW q \in Nat, q > 0, NEW a \in Nat, NEW T \in Nat, T > 0,
         RoundedFrom(a, n, q, T), NEW bound \in Nat, bound >= T
  PROVE  ~(n * 1 - a * q >= bound * (q * 1))
<1> DEFINE A == a * q
           E == T * q
           B == bound * q
<1>1. A \in Nat /\ E \in Nat /\ B \in Nat /\ E > 0
  BY SMTT(30)
<1>2. 2 * (n - A) <= E
  BY DEF RoundedFrom
<1>3. E <= B
  BY Scaled
<1>4. n * 1 - a * q = n - A /\ bound * (q * 1) = B
  BY SMTT(30)
<1> HIDE DEF A, E, B
<1>5. ~(n - A >= B)
  BY <1>1, <1>2, <1>3
<1> QED BY <1>4, <1>5

LEMMA NoDelta ==
  ASSUME NEW r, NEW s, NEW a \in Nat, NEW b \in Nat, SavedTimes(r, s, a, b)
  PROVE  /\ \A k \in Nat : k > 0 => ~AtLeast(Minus(s.avg_ms, r.avg_ms), k * Ms)
         /\ \A k \in Nat : k > 0 => ~AtLeast(Minus(s.jitter_ms, r.jitter_ms), k * Ms)
<1>1. ASSUME NEW q, NEW x, NEW c \in Nat, Positive(q), x = <<c, 1>>,
             RoundedFrom(c, q[1], q[2], Tenth), NEW k \in Nat, k > 0
      PROVE  ~AtLeast(Minus(q, x), k * Ms)
  <2> DEFINE n == q[1]
             d == q[2]
             bound == k * Ms
  <2>1. n \in Nat /\ d \in Nat /\ d > 0 /\ RoundedFrom(c, n, d, Tenth)
    BY <1>1 DEF Positive
  <2>2. Ms \in Nat /\ Ms >= Tenth /\ Tenth \in Nat /\ Tenth > 0
    BY TicksHold DEF Ticks
  <2>3. bound \in Nat /\ bound >= Tenth
    <3>1. k - 1 \in Nat /\ (k - 1) * Ms >= 0 /\ k * Ms = (k - 1) * Ms + Ms
      BY <1>1, <2>2
    <3> QED BY <1>1, <2>2, <3>1
  <2>4. AtLeast(Minus(q, x), k * Ms) <=> n * 1 - c * d >= bound * (d * 1)
    BY <1>1 DEF AtLeast, Minus
  <2> HIDE DEF n, d, bound
  <2>5. ~(n * 1 - c * d >= bound * (d * 1))
    BY <2>1, <2>2, <2>3, NoGrowth
  <2> QED BY <2>4, <2>5
<1>2. /\ Positive(s.avg_ms) /\ r.avg_ms = <<a, 1>>
      /\ RoundedFrom(a, s.avg_ms[1], s.avg_ms[2], Tenth)
      /\ Positive(s.jitter_ms) /\ r.jitter_ms = <<b, 1>>
      /\ RoundedFrom(b, s.jitter_ms[1], s.jitter_ms[2], Tenth)
  BY DEF SavedTimes
<1> QED BY <1>1, <1>2

(* Nor is there more without a reply. *)
LEMMA NoReplySame ==
  ASSUME NEW r, NEW s, SavedFrom(r, s), Positive(s.no_reply)
  PROVE  ~NoReplyGrown(r, s)
<1> DEFINE n == s.no_reply[1]
           d == s.no_reply[2]
<1>1. n \in Nat /\ d \in Nat /\ d > 0
  BY DEF Positive
<1>2. PICK t \in Rounded(<<1000 * n, d>>, 1) : r.no_reply = <<t, 1000>>
  BY DEF SavedFrom
<1>3. NoReplyGrown(r, s) <=> 100 * (n * 1000 - t * d) >= 5 * (d * 1000)
  BY <1>2 DEF NoReplyGrown, Minus
<1> HIDE DEF n, d
<1>4. 1000 * n \in Nat /\ 1 \in Nat /\ 1 > 0
  BY <1>1
<1>5. t \in Nat /\ 2 * (1000 * n - t * d * 1) <= d * 1
  <2> DEFINE N == 1000 * n
  <2>1. N \in Nat /\ t \in Rounded(<<N, d>>, 1)
    BY <1>2, <1>4
  <2> HIDE DEF N
  <2>2. t \in Nat /\ 2 * (N - t * d * 1) <= d * 1
    BY <1>1, <1>4, <2>1, RoundedNear
  <2> QED BY <2>2 DEF N
<1> DEFINE A == t * d
<1>6. A \in Nat /\ 2 * (1000 * n - A) <= d
  BY <1>1, <1>5
<1>7. ~(100 * (n * 1000 - A) >= 5 * (d * 1000))
  <2> HIDE DEF A
  <2> QED BY <1>1, <1>6
<1> QED BY <1>3, <1>7

LEMMA NothingChanged ==
  ASSUME IInv, ~torn, current = old, NEW n \in Nat, Comeback(n), NEW e \in Changed
  PROVE  ~Says(e, n)
<1> DEFINE h == e.hop
<1>1. Probed(current) = 1..n
  BY RestoredHops
<1>2. CASE h \notin 1..n
  BY <1>1, <1>2 DEF Says
<1>3. CASE h \in 1..n
  <2> DEFINE s == old[h]
             r == baseline.hops[h]
  <2>1. /\ SavedFrom(r, s) /\ Positive(s.no_reply)
        /\ \E a, b \in Nat : SavedTimes(r, s, a, b)
    BY <1>3, SavedHop
  <2>2. PICK a \in Nat, b \in Nat : SavedTimes(r, s, a, b)
    BY <2>1
  <2>3. Says(e, n) => AddressChanged(r, s) \/ NoReplyGrown(r, s) \/ RttGrown(r, s)
    BY <1>1, <1>3 DEF Says
  <2> HIDE DEF s, r
  <2>4. ~AddressChanged(r, s)
    BY <2>1 DEF SavedFrom, AddressChanged
  <2>5. ~NoReplyGrown(r, s)
    BY <2>1, NoReplySame
  <2>6. ~RttGrown(r, s)
    <3>1. 20 \in Nat /\ 20 > 0
      OBVIOUS
    <3>2. ~AtLeast(Minus(s.avg_ms, r.avg_ms), 20 * Ms)
      BY <2>2, <3>1, NoDelta
    <3> QED BY <3>2 DEF RttGrown
  <2> QED BY <2>3, <2>4, <2>5, <2>6
<1> QED BY <1>2, <1>3

LEMMA DeltaOfOwn ==
  ASSUME NEW r, NEW s, NEW a \in Nat, NEW b \in Nat, SavedTimes(r, s, a, b)
  PROVE  DeltaScore(r, s) = 0
<1>1. 80 \in Nat /\ 80 > 0 /\ 30 \in Nat /\ 30 > 0 /\ 40 \in Nat /\ 40 > 0 /\ 20 \in Nat /\ 20 > 0
  OBVIOUS
<1>2. /\ ~AtLeast(Minus(s.avg_ms, r.avg_ms), 80 * Ms)
      /\ ~AtLeast(Minus(s.avg_ms, r.avg_ms), 30 * Ms)
  BY <1>1, NoDelta
<1>3. /\ ~AtLeast(Minus(s.jitter_ms, r.jitter_ms), 40 * Ms)
      /\ ~AtLeast(Minus(s.jitter_ms, r.jitter_ms), 20 * Ms)
  BY <1>1, NoDelta
<1>4. ~GrownBy(r, s, 80, 100) /\ ~GrownBy(r, s, 30, 50)
  BY <1>2 DEF GrownBy
<1>5. RttDeltaScore(r, s) = 0
  BY <1>4 DEF RttDeltaScore
<1>6. JitterDeltaScore(r, s) = 0
  BY <1>3 DEF JitterDeltaScore
<1> QED BY <1>5, <1>6 DEF DeltaScore

Answering(stats, m) == {i \in 1..m : stats[i].sent > 0 /\ stats[i].status = "DESTINATION"}

LEMMA DestinationFound ==
  ASSUME NEW stats, NEW m \in Nat
  PROVE  LET d == find_destination_hop(stats, m) IN
         /\ d = FirstOf(Answering(stats, m))
         /\ d # 0 => d > 0 /\ d \in 1..m /\ stats[d].sent > 0 /\ stats[d].status = "DESTINATION"
<1> DEFINE d == find_destination_hop(stats, m)
<1>1. d = FirstOf(Answering(stats, m))
  BY DEF find_destination_hop, Answering
<1>2. Answering(stats, m) \in SUBSET (Nat \ {0})
  BY DEF Answering
<1> HIDE DEF d
<1>3. d # 0 => d \in Answering(stats, m)
  BY <1>1, <1>2, FirstOfSet
<1>4. d # 0 => d > 0 /\ d \in 1..m /\ stats[d].sent > 0 /\ stats[d].status = "DESTINATION"
  BY <1>3 DEF Answering
<1> QED BY <1>1, <1>4 DEF d

LEMMA NoBaselineFound == find_destination_hop(NoBaseline.hops, NoBaseline.hop_count) = 0
<1>1. NoBaseline.hop_count = 0
  BY DEF NoBaseline
<1>2. {i \in 1..0 : NoBaseline.hops[i].sent > 0 /\ NoBaseline.hops[i].status = "DESTINATION"} = {}
  OBVIOUS
<1> QED BY <1>1, <1>2 DEF find_destination_hop, FirstOf

(* A run that is compared with its own measurement shows no change, and the  *)
(* rounding in the file does not alter its diagnosis.                        *)
THEOREM OwnBaselineQuiet == Spec => []OwnBaselineIsQuiet
<1>1. ASSUME IInv, pc = "done", ~torn, current = old
      PROVE  /\ changes = <<>>
             /\ diagnosis.score = evaluate_mtr_quality(NoBaseline, old, Len(old)).score
  <2>1. PICK n \in Nat : Comeback(n)
    BY <1>1, WhatComesBack
  <2>2. /\ IsMeasurement(current)
        /\ changes = print_baseline_change_list(baseline, current, Len(current))
        /\ diagnosis = evaluate_mtr_quality(baseline, current, Len(current))
    BY <1>1 DEF IInv, ComparisonInPlace
  <2>3. changes = <<>>
    <3>1. changes \in Seq(Changed) /\ Elements(changes) = {e \in Changed : Says(e, n)}
      BY <1>1, <2>1, <2>2, ListSays
    <3>2. Elements(changes) = {}
      BY <1>1, <2>1, <3>1, NothingChanged
    <3>3. DOMAIN changes = {}
      BY <3>2 DEF Elements
    <3> QED BY <3>1, <3>3
  <2>4. /\ baseline.hop_count = Len(old) /\ Deep(old, n) /\ n \in 0..Len(old)
        /\ \A h \in 1..MaxHop : h > n => baseline.hops[h] = Cleared
        /\ \A h \in 1..n : /\ SavedFrom(baseline.hops[h], old[h])
                           /\ baseline.hops[h].status = old[h].status
    BY <1>1, <2>1 DEF Comeback
  <2>5. Len(old) \in 1..MaxHop /\ MaxHop \in Nat /\ Len(old) \in Nat
    BY <1>1, <2>2, TableShape, MaxHopAssumption
  <2> DEFINE m == Len(old)
             t == find_destination_hop(old, m)
             o == find_destination_hop(baseline.hops, m)
             d == old[t]
  <2>6. Answering(baseline.hops, m) = Answering(old, m)
    <3>1. ASSUME NEW i \in 1..m
          PROVE  baseline.hops[i].sent > 0 /\ baseline.hops[i].status = "DESTINATION"
                   <=> old[i].sent > 0 /\ old[i].status = "DESTINATION"
      <4>1. CASE i <= n
        <5>1. i \in 1..n
          BY <2>4, <2>5, <4>1
        <5>2. /\ baseline.hops[i].sent = old[i].sent
              /\ baseline.hops[i].status = old[i].status
          <6>1. SavedFrom(baseline.hops[i], old[i]) /\ baseline.hops[i].status = old[i].status
            BY <2>4, <5>1
          <6> QED BY <6>1 DEF SavedFrom
        <5> QED BY <5>2
      <4>2. CASE ~(i <= n)
        <5>1. ~(old[i].sent > 0)
          BY <2>4, <4>2 DEF Deep
        <5>2. i \in 1..MaxHop /\ i > n
          BY <2>4, <2>5, <4>2
        <5>3. baseline.hops[i].sent = 0
          BY <2>4, <5>2, ClearedFields
        <5> QED BY <5>1, <5>3
      <4> QED BY <4>1, <4>2
    <3> QED BY <3>1 DEF Answering
  <2>7. o = t
    BY <2>5, <2>6, DestinationFound
  <2> DEFINE g == evaluate_mtr_quality(NoBaseline, old, m)
  <2>8. /\ t = 0 => diagnosis.score = 4
        /\ t # 0 => diagnosis.score = Alone(d) + DeltaScore(baseline.hops[t], d)
    <3>1. diagnosis = evaluate_mtr_quality(baseline, old, m) /\ baseline.hop_count = m
      BY <1>1, <2>2, <2>4
    <3>2. LET o1 == find_destination_hop(baseline.hops, baseline.hop_count) IN
          /\ t = 0 => diagnosis.score = 4
          /\ t # 0 /\ o1 # 0 => diagnosis.score = Alone(d) + DeltaScore(baseline.hops[o1], d)
      BY <3>1, DiagnosisFields
    <3> QED BY <2>7, <3>1, <3>2
  <2>9. /\ t = 0 => g.score = 4
        /\ t # 0 => g.score = Alone(d)
    BY NoBaselineFound, DiagnosisFields
  <2>10. ASSUME t # 0 PROVE DeltaScore(baseline.hops[t], d) = 0
    <3>1. t \in 1..m /\ old[t].sent > 0
      BY <2>5, <2>10, DestinationFound
    <3>2. t \in 1..n
      <4> HIDE DEF t
      <4> QED BY <2>4, <2>5, <3>1 DEF Deep
    <3>3. \E a, b \in Nat : SavedTimes(baseline.hops[t], d, a, b)
      BY <1>1, <2>1, <3>2, SavedHop
    <3> QED BY <3>3, DeltaOfOwn
  <2>11. Alone(d) \in 0..11
    BY AloneAndDelta
  <2>12. diagnosis.score = g.score
    <3> HIDE DEF t, d, g
    <3> QED BY <2>8, <2>9, <2>10, <2>11
  <2> QED BY <2>3, <2>12
<1>2. Invariant => OwnBaselineIsQuiet
  BY <1>1 DEF Invariant, OwnBaselineIsQuiet
<1> QED BY <1>2, BaselineInvariant, PTL

-----------------------------------------------------------------------------
(* What the diagnosis is worth. *)

LEMMA CyclesAreFirstHops ==
  ASSUME NEW x, IsMeasurement(x)
  PROVE  observed_cycles(x, Len(x)) = x[1].sent
<1> DEFINE m == Len(x)
           S == {0} \cup {x[i].sent : i \in 1..m}
           c == x[1].sent
           n == observed_cycles(x, m)
<1>1. /\ m \in Nat /\ 1 \in 1..m
      /\ \A i \in 1..m : x[i].sent \in Nat
  <2>1. m \in Nat /\ m >= 1
    BY TableShape, MaxHopAssumption
  <2>2. \A i \in 1..m : x[i] \in HopStats
    BY TableShape
  <2> QED BY <2>1, <2>2, Fields
<1>2. \A i \in 1..m : x[i].sent <= c
  <2>1. \A g, h \in 1..m : g <= h => x[h].sent <= x[g].sent
    BY TableShape DEF SentLess
  <2>2. \A i \in 1..m : 1 <= i
    OBVIOUS
  <2> QED BY <1>1, <2>1, <2>2
<1>3. c \in S
  BY <1>1
<1>4. n = CHOOSE k \in S : \A i \in 1..m : x[i].sent <= k
  BY DEF observed_cycles
<1> HIDE DEF n
<1>5. n \in S /\ \A i \in 1..m : x[i].sent <= n
  BY <1>2, <1>3, <1>4
<1>6. c \in Nat /\ c <= n
  BY <1>1, <1>5
<1>7. n <= c
  BY <1>1, <1>2, <1>5
<1>8. n \in Nat
  BY <1>1, <1>5
<1>9. n = c
  BY <1>6, <1>7, <1>8
<1> QED BY <1>9 DEF n

(* With a score of less than 2 the destination answers nearly always, in     *)
(* time and evenly.                                                          *)
LEMMA GoodScore ==
  ASSUME NEW d \in HopStats, FlagsAgree(d), Quotients(d), d.sent > 0, Alone(d) < 2
  PROVE  /\ 100 * (d.sent - d.received) <= d.sent
         /\ ~Over(d.avg_ms, 180 * Ms) /\ ~Over(d.jitter_ms, 30 * Ms)
<1>1. /\ NoReplyScore(d) \in {0, 2, 4} /\ RttScore(d) \in {0, 1, 3, 4}
      /\ JitterScore(d) \in {0, 1, 3}
  BY ScoreRanges
<1>2. NoReplyScore(d) = 0 /\ RttScore(d) # 3 /\ RttScore(d) # 4 /\ JitterScore(d) # 3
  <2>1. \A a \in {0, 2, 4}, b \in {0, 1, 3, 4}, c \in {0, 1, 3} :
          a + b + c < 2 => a = 0 /\ b # 3 /\ b # 4 /\ c # 3
    OBVIOUS
  <2> QED BY <1>1, <2>1 DEF Alone
<1>3. d.sent \in Nat /\ d.received \in Nat /\ d.has_jitter \in BOOLEAN /\ d.has_rtt \in BOOLEAN
  BY Fields
<1>4. 100 * (d.sent - d.received) <= d.sent
  <2> DEFINE percent == <<100 * d.no_reply[1], d.no_reply[2]>>
  <2>1. ~Over(percent, 1)
    BY <1>2 DEF NoReplyScore
  <2>2. d.no_reply = <<d.sent - d.received, d.sent>>
    BY DEF Quotients
  <2>3. percent[1] = 100 * (d.sent - d.received) /\ percent[2] = d.sent
    BY <2>2
  <2> HIDE DEF percent
  <2>4. ~(100 * (d.sent - d.received) > 1 * d.sent)
    BY <2>1, <2>3 DEF Over
  <2> QED BY <1>3, <2>4
<1>5. ~Over(d.avg_ms, 180 * Ms)
  BY <1>2 DEF RttScore
<1>6. ~Over(d.jitter_ms, 30 * Ms)
  <2>1. CASE d.has_jitter
    BY <1>2, <2>1 DEF JitterScore
  <2>2. CASE ~d.has_jitter
    <3>1. d.received <= 1
      BY <1>3, <2>2 DEF FlagsAgree
    <3>2. d.jitter_ms = <<0, 1>>
      BY <3>1 DEF Quotients
    <3>3. Over(d.jitter_ms, 30 * Ms) <=> 0 > (30 * Ms) * 1
      BY <3>2 DEF Over
    <3> QED BY <3>3, TicksHold DEF Ticks
  <2> QED BY <2>1, <2>2
<1> QED BY <1>4, <1>5, <1>6

(* A mean that has grown by more than 80 ms and to more than twice what it   *)
(* was scores, though it is compared with the rounded one.                   *)
LEMMA GrowthScores ==
  ASSUME NEW r, NEW s \in HopStats, NEW d \in HopStats, SavedFrom(r, s),
         FlagsAgree(s), FlagsAgree(d), Quotients(s), Quotients(d),
         NEW a \in Nat, NEW b \in Nat, SavedTimes(r, s, a, b), Positive(d.avg_ms),
         AtLeast(Minus(d.avg_ms, s.avg_ms), 80 * Ms + Tenth),
         AtLeast(Minus(Minus(d.avg_ms, s.avg_ms), s.avg_ms), 2 * Tenth),
         ~Near(s.avg_ms, <<0, 1>>, Tenth)
  PROVE  DeltaScore(r, d) >= 3
<1> DEFINE n == s.avg_ms[1]
           q == s.avg_ms[2]
           D == d.avg_ms[1]
           p == d.avg_ms[2]
           bound == 80 * Ms
<1>1. n \in Nat /\ q \in Nat /\ q > 0 /\ D \in Nat /\ p \in Nat /\ p > 0
  BY DEF SavedTimes, Positive
<1>2. RoundedFrom(a, n, q, Tenth) /\ r.avg_ms[1] = a /\ r.avg_ms[2] = 1
  BY DEF SavedTimes
<1>3. bound \in Nat /\ bound > 0 /\ Tenth \in Nat /\ Tenth > 0
  BY TicksHold DEF Ticks
<1> HIDE DEF bound
<1>4. D * q - n * p >= (bound + Tenth) * (p * q)
  BY DEF AtLeast, Minus, bound
<1>5. (D * q - n * p) * q - n * (p * q) >= (2 * Tenth) * ((p * q) * q)
  BY DEF AtLeast, Minus
<1>6. ~(2 * n <= Tenth * q)
  <2>1. Near(s.avg_ms, <<0, 1>>, Tenth) <=>
          /\ 2 * (n * 1 - 0 * q) <= Tenth * q * 1
          /\ 2 * (0 * q - n * 1) <= Tenth * q * 1
    BY DEF Near
  <2> HIDE DEF n, q
  <2>2. Tenth * q \in Nat
    BY <1>1, <1>3
  <2> QED BY <1>1, <1>3, <2>1, <2>2
<1>7. GrownBy(r, d, 80, 100) <=>
        /\ D * 1 - a * p >= bound * (p * 1)
        /\ a > 0
        /\ 100 * (D * 1 - a * p) * 1 >= 100 * a * (p * 1)
  BY <1>2 DEF GrownBy, AtLeast, Minus, bound
<1>8. s.received > 0 /\ d.received > 0
  <2>1. s.received # 0
    <3>1. s.received = 0 => n = 0
      BY DEF Quotients
    <3>2. Tenth * q \in Nat
      BY <1>1, <1>3
    <3> QED BY <1>6, <3>1, <3>2
  <2>2. d.received # 0
    <3>1. d.received = 0 => D = 0
      BY DEF Quotients
    <3> HIDE DEF D, n, p, q
    <3>2. n * p \in Nat /\ (bound + Tenth) * (p * q) > 0
      <4>1. p * q \in Nat /\ p * q > 0
        BY <1>1
      <4> HIDE DEF bound
      <4>2. bound + Tenth \in Nat /\ bound + Tenth > 0
        BY <1>3
      <4> QED BY <1>1, <4>1, <4>2
    <3>3. D = 0 => D * q = 0
      BY <1>1
    <3> DEFINE x == D * q
               y == n * p
               z == (bound + Tenth) * (p * q)
    <3>4. x - y >= z /\ y \in Nat /\ z > 0 /\ z \in Int /\ (D = 0 => x = 0)
      <4>1. z \in Int
        BY <1>1, <1>3
      <4> QED BY <1>4, <3>2, <3>3, <4>1
    <3> HIDE DEF x, y, z
    <3>5. x # 0
      BY <3>4
    <3> QED BY <3>1, <3>4, <3>5
  <2>3. s.received \in Nat /\ d.received \in Nat
    BY Fields
  <2> QED BY <2>1, <2>2, <2>3
<1>9. r.has_rtt /\ d.has_rtt
  <2>1. s.has_rtt /\ d.has_rtt
    BY <1>8 DEF FlagsAgree
  <2> QED BY <2>1 DEF SavedFrom
<1> HIDE DEF n, q, D, p
<1>10. RoundedFrom(a, n, q, Tenth)
  BY <1>2
<1>11. D - a * p >= bound * p
  BY <1>1, <1>3, <1>4, <1>10, GrowthRounded, ZenonT(60)
<1>12. D >= 2 * (a * p)
  <2>1. D * q - 2 * (n * p) >= 2 * (Tenth * (p * q))
    <3> DEFINE x == 2 * (Tenth * (p * q))
               y == D * q - 2 * (n * p)
    <3>1. x \in Int /\ y \in Int
      BY <1>1, <1>3
    <3>2. /\ (D * q - n * p) * q - n * (p * q) = y * q
          /\ (2 * Tenth) * ((p * q) * q) = x * q
      BY <1>1, <1>3, SMTT(30)
    <3>3. x * q <= y * q
      <4>1. x * q \in Int /\ y * q \in Int
        BY <1>1, <3>1
      <4> HIDE DEF x, y
      <4> QED BY <1>5, <3>2, <4>1
    <3> HIDE DEF x, y
    <3>4. x <= y
      BY <1>1, <3>1, <3>3, Scaled
    <3> QED BY <3>1, <3>4 DEF x, y
  <2> QED BY <1>1, <1>3, <1>10, <2>1, GrowthRounded
<1>13. a > 0
  <2>1. a = 0 => 2 * (n - 0 * q) <= Tenth * q
    BY <1>10 DEF RoundedFrom
  <2> QED BY <1>1, <1>6, <2>1
<1>14. 100 * (D * 1 - a * p) * 1 >= 100 * a * (p * 1)
  <2> DEFINE x == a * p
  <2>1. x \in Nat /\ D >= 2 * x /\ D * 1 = D
    BY <1>1, <1>12
  <2>2. 100 * (D - x) >= 100 * x
    <3> HIDE DEF x
    <3> QED BY <1>1, <2>1
  <2>3. 100 * a * (p * 1) = 100 * x
    BY <1>1, SMTT(30)
  <2> QED BY <1>1, <2>1, <2>2, <2>3
<1>15. D * 1 - a * p >= bound * (p * 1)
  BY <1>1, <1>11
<1>16. GrownBy(r, d, 80, 100)
  BY <1>7, <1>13, <1>14, <1>15
<1>17. RttDeltaScore(r, d) = 3
  BY <1>9, <1>16 DEF RttDeltaScore
<1>18. JitterDeltaScore(r, d) \in {0, 1, 3}
  BY ScoreRanges
<1> QED BY <1>17, <1>18 DEF DeltaScore

(* The diagnosis says NORMAL only of a path whose destination answers,       *)
(* nearly always, in time and evenly; a baseline can only make it worse, and *)
(* a mean that has more than doubled and grown by more than 80 ms shows,     *)
(* though it is compared with the rounded one of the file.                   *)
THEOREM DiagnosisSound == Spec => []DiagnosisIsSound
<1>1. ASSUME IInv, pc = "done"
      PROVE  LET d == current[diagnosis.destination]
                 base == old[diagnosis.baseline_destination]
                 grown == Minus(d.avg_ms, base.avg_ms)
             IN /\ diagnosis.cycles = current[1].sent
                /\ diagnosis.score >= evaluate_mtr_quality(NoBaseline, current, Len(current)).score
                /\ diagnosis.destination = 0 => diagnosis.level = "POOR"
                /\ diagnosis.level = "NORMAL" =>
                     /\ \E i \in 1..Len(current) : current[i].status = "DESTINATION"
                     /\ 100 * (d.sent - d.received) <= d.sent
                     /\ ~Over(d.avg_ms, 180 * Ms)
                     /\ ~Over(d.jitter_ms, 30 * Ms)
                /\ /\ diagnosis.destination > 0 /\ diagnosis.baseline_destination > 0
                   /\ AtLeast(grown, 80 * Ms + Tenth)
                   /\ AtLeast(Minus(grown, base.avg_ms), 2 * Tenth)
                   /\ ~Near(base.avg_ms, <<0, 1>>, Tenth)
                   => diagnosis.level # "NORMAL"
  <2> DEFINE m == Len(current)
             t == diagnosis.destination
             o == diagnosis.baseline_destination
             d == current[t]
             g == evaluate_mtr_quality(NoBaseline, current, m)
             level == diagnosis.level
             score == diagnosis.score
  <2>1. IsMeasurement(current) /\ diagnosis = evaluate_mtr_quality(baseline, current, m)
    BY <1>1 DEF IInv, ComparisonInPlace
  <2>2. m \in 1..MaxHop /\ MaxHop \in Nat /\ m \in Nat /\ baseline.hop_count \in Nat
    <3>1. baseline.hop_count \in 0..Len(old) /\ IsMeasurement(old)
      BY <1>1 DEF IInv, BaselineInPlace, FileInPlace
    <3>2. Len(old) \in Nat
      BY <3>1, TableShape, MaxHopAssumption
    <3> QED BY <2>1, <3>1, <3>2, TableShape, MaxHopAssumption
  <2>3. /\ t = find_destination_hop(current, m)
        /\ o = find_destination_hop(baseline.hops, baseline.hop_count)
        /\ diagnosis.cycles = observed_cycles(current, m)
    BY <2>1, DiagnosisFields
  <2>4. /\ t = 0 => score = 4
        /\ t # 0 /\ o = 0 => score = Alone(d)
        /\ t # 0 /\ o # 0 => score = Alone(d) + DeltaScore(baseline.hops[o], d)
        /\ level = diagnosis_level_from_score(score, t = 0)
    <3> DEFINE b == evaluate_mtr_quality(baseline, current, m)
               t1 == find_destination_hop(current, m)
               o1 == find_destination_hop(baseline.hops, baseline.hop_count)
    <3>1. /\ t1 = 0 => b.score = 4
          /\ t1 # 0 /\ o1 = 0 => b.score = Alone(current[t1])
          /\ t1 # 0 /\ o1 # 0 =>
               b.score = Alone(current[t1]) + DeltaScore(baseline.hops[o1], current[t1])
          /\ b.level = diagnosis_level_from_score(b.score, t1 = 0)
      BY DiagnosisFields
    <3> HIDE DEF t1, o1, b
    <3>2. t = t1 /\ o = o1 /\ diagnosis = b
      BY <2>1, <2>3 DEF t1, o1, b
    <3> QED BY <3>1, <3>2
  <2>5. /\ t = 0 => g.score = 4
        /\ t # 0 => g.score = Alone(d)
    <3> DEFINE t1 == find_destination_hop(current, m)
    <3>1. /\ t1 = 0 => g.score = 4
          /\ t1 # 0 => g.score = Alone(current[t1])
      BY NoBaselineFound, DiagnosisFields
    <3> HIDE DEF g
    <3> QED BY <2>3, <3>1
  <2>6. Alone(d) \in 0..11 /\ DeltaScore(baseline.hops[o], d) \in 0..6
    BY AloneAndDelta
  <2>7. t # 0 => t > 0 /\ t \in 1..m /\ d.sent > 0 /\ d.status = "DESTINATION"
    BY <2>2, <2>3, DestinationFound
  <2>8. score \in Nat /\ score >= g.score
    <3> HIDE DEF t, o, d, g, score
    <3> QED BY <2>4, <2>5, <2>6
  <2>9. /\ t = 0 => level = "POOR"
        /\ level = "NORMAL" => t # 0 /\ score < 2
    <3> DEFINE missing == t = 0
    <3>1. missing \in BOOLEAN /\ level = diagnosis_level_from_score(score, missing)
      BY <2>4
    <3> HIDE DEF missing, level, score
    <3>2. /\ missing => level = "POOR"
          /\ level = "NORMAL" => ~missing /\ score < 2
      BY <2>8, <3>1, LevelOfScore
    <3> QED BY <3>2 DEF missing
  <2>10. diagnosis.cycles = current[1].sent
    BY <2>1, <2>3, CyclesAreFirstHops
  <2>11. ASSUME level = "NORMAL"
         PROVE  /\ \E i \in 1..m : current[i].status = "DESTINATION"
                /\ 100 * (d.sent - d.received) <= d.sent
                /\ ~Over(d.avg_ms, 180 * Ms)
                /\ ~Over(d.jitter_ms, 30 * Ms)
    <3>1. t # 0 /\ score < 2
      BY <2>9, <2>11
    <3>2. t \in 1..m /\ d.sent > 0 /\ d.status = "DESTINATION"
      BY <2>7, <3>1
    <3>3. d \in HopStats /\ FlagsAgree(d) /\ Quotients(d)
      BY <2>1, <3>2, MeasuredHop
    <3>4. Alone(d) < 2
      <4> HIDE DEF t, o, d, score, g
      <4>1. g.score = Alone(d)
        BY <2>5, <3>1
      <4> QED BY <2>6, <2>8, <3>1, <4>1
    <3>5. /\ 100 * (d.sent - d.received) <= d.sent
          /\ ~Over(d.avg_ms, 180 * Ms) /\ ~Over(d.jitter_ms, 30 * Ms)
      <4> HIDE DEF d
      <4> QED BY <3>2, <3>3, <3>4, GoodScore
    <3> QED BY <3>2, <3>5
  <2>12. ASSUME t > 0, o > 0,
                AtLeast(Minus(d.avg_ms, old[o].avg_ms), 80 * Ms + Tenth),
                AtLeast(Minus(Minus(d.avg_ms, old[o].avg_ms), old[o].avg_ms), 2 * Tenth),
                ~Near(old[o].avg_ms, <<0, 1>>, Tenth)
         PROVE  level # "NORMAL"
    <3> DEFINE r == baseline.hops[o]
               s == old[o]
    <3>1. PICK n \in Nat : Comeback(n)
      BY <1>1, WhatComesBack
    <3>2. t # 0 /\ o # 0
      BY <2>12
    <3>3. o \in 1..baseline.hop_count /\ r.sent > 0
      BY <2>2, <2>3, <3>2, DestinationFound
    <3>4. o \in 1..n
      <4>1. /\ DOMAIN baseline.hops = 1..MaxHop /\ Restored = 1..n
        BY <1>1, <3>1, RestoredHops
      <4>2. baseline.hop_count \in 0..MaxHop
        <5>1. baseline.hop_count \in 0..Len(old) /\ IsMeasurement(old)
          BY <1>1 DEF IInv, BaselineInPlace, FileInPlace
        <5>2. Len(old) \in 1..MaxHop
          BY <5>1, TableShape
        <5> QED BY <2>2, <5>1, <5>2
      <4> HIDE DEF o
      <4>3. o \in 1..MaxHop
        BY <2>2, <3>3, <4>2
      <4> QED BY <3>3, <4>1, <4>3 DEF Restored, Probed
    <3>5. /\ s \in HopStats /\ FlagsAgree(s) /\ Quotients(s) /\ SavedFrom(r, s)
          /\ \E a, b \in Nat : SavedTimes(r, s, a, b)
      BY <1>1, <3>1, <3>4, SavedHop
    <3>6. PICK a \in Nat, b \in Nat : SavedTimes(r, s, a, b)
      BY <3>5
    <3>7. d \in HopStats /\ FlagsAgree(d) /\ Quotients(d) /\ Positive(d.avg_ms)
      BY <2>1, <2>7, <3>2, MeasuredHop
    <3>8. DeltaScore(r, d) >= 3
      <4>1. /\ AtLeast(Minus(d.avg_ms, s.avg_ms), 80 * Ms + Tenth)
            /\ AtLeast(Minus(Minus(d.avg_ms, s.avg_ms), s.avg_ms), 2 * Tenth)
            /\ ~Near(s.avg_ms, <<0, 1>>, Tenth)
        BY <2>12
      <4> HIDE DEF r, s, d
      <4> QED BY <3>5, <3>6, <3>7, <4>1, GrowthScores
    <3>9. score >= 3
      <4>1. score = Alone(d) + DeltaScore(r, d)
        BY <2>4, <3>2
      <4>2. Alone(d) \in 0..11 /\ DeltaScore(r, d) \in 0..6
        BY AloneAndDelta
      <4> HIDE DEF r, d, score
      <4> QED BY <3>8, <4>1, <4>2
    <3> QED BY <2>8, <2>9, <3>9
  <2> QED BY <2>8, <2>9, <2>10, <2>11, <2>12
<1>2. Invariant => DiagnosisIsSound
  BY <1>1 DEF Invariant, DiagnosisIsSound
<1> QED BY <1>2, BaselineInvariant, PTL
=============================================================================
