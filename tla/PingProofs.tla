----------------------------- MODULE PingProofs -----------------------------
(***************************************************************************)
(* Proofs about Ping, for every number of probes and every set of times:   *)
(* what is printed fits together, the grade is that of the results, and    *)
(* the summary agrees with the one MTR would have kept.                    *)
(***************************************************************************)
EXTENDS Ping, StatsProofs

-----------------------------------------------------------------------------
(* The state of the program. *)

(* The rows a run has got to, and the rows its CSV stream took if it has one. *)
Printed == IF pc = "print" THEN Len(results) - 1 ELSE Len(results)
Written == IF pc \in {"print", "csv"} THEN Len(results) - 1 ELSE Len(results)

RowsInPlace ==
  /\ Len(rows) = Printed
  /\ \A i \in 1..Len(rows) : rows[i] = RowOf(i)
  /\ csv /\ exit # "ERR_IO" => Len(csvAccepted) = Written
  /\ \A i \in 1..Len(csvAccepted) : csvAccepted[i] = RowOf(i)
  /\ Len(csvAccepted) <= Len(results)

InOrder ==
  /\ pc \in {"print", "csv", "sleep"} => Len(results) > 0
  /\ pc = "probe" => Len(results) < count
  /\ pc = "csv" => csv
  /\ pc = "summary" \/ exit = "OK" => Len(results) = count
  /\ exit # "RUNNING" <=> pc = "closed"

SummaryInPlace ==
  exit = "OK" =>
    /\ stats = compute_ping_stats(results, allocated)
    /\ quality = evaluate_quality(compute_ping_stats(results, allocated))

IInv == TypeOK /\ RowsInPlace /\ InOrder /\ SummaryInPlace

LEMMA ResultStatus ==
  ASSUME NEW r \in PingResult
  PROVE  /\ r.status \in {"SUCCESS", "TIMEOUT", "ERROR"} /\ r.rtt_ms \in Nat
         /\ IsSuccess(r) => r.rtt_ms \in Rtts
         /\ ~IsSuccess(r) => r.rtt_ms = 0
         /\ r = [status |-> r.status, rtt_ms |-> r.rtt_ms]
<1>1. CASE r \in [status : {"SUCCESS"}, rtt_ms : Rtts]
  BY <1>1, RttsAssumption DEF IsSuccess
<1>2. CASE r \in [status : {"TIMEOUT", "ERROR"}, rtt_ms : {0}]
  BY <1>2 DEF IsSuccess
<1> QED BY <1>1, <1>2 DEF PingResult

LEMMA RowType ==
  ASSUME results \in Seq(PingResult), NEW i \in 1..Len(results)
  PROVE  RowOf(i) \in Row
<1>1. results[i] \in PingResult /\ i \in Nat \ {0}
  OBVIOUS
<1>2. results[i].status \in {"SUCCESS", "TIMEOUT", "ERROR"}
  BY <1>1, ResultStatus
<1> QED BY <1>1, <1>2 DEF RowOf, Row

(* The grade is one of three, whatever it is computed from. *)
LEMMA QualityType == \A s : evaluate_quality(s) \in {QUALITY_GOOD, QUALITY_NORMAL, QUALITY_POOR}
<1> TAKE s
<1>1. \A q, good, normal : Grade(q, good, normal) \in {0, 1, 2}
  BY DEF Grade, QUALITY_GOOD, QUALITY_NORMAL, QUALITY_POOR
<1>2. \A a, b \in {0, 1, 2} : max_quality(a, b) \in {0, 1, 2}
  BY DEF max_quality
<1> DEFINE loss == Grade(s.loss_percent, 0, 5)
           avg == Grade(s.avg_ms, 50, 150)
           jitter == IF s.has_jitter THEN Grade(s.jitter_ms, 10, 30) ELSE QUALITY_GOOD
<1>3. loss \in {0, 1, 2} /\ avg \in {0, 1, 2} /\ jitter \in {0, 1, 2} /\ QUALITY_GOOD \in {0, 1, 2}
  BY <1>1 DEF QUALITY_GOOD
<1>4. evaluate_quality(s) =
        IF ~s.has_rtt THEN QUALITY_POOR
        ELSE max_quality(max_quality(max_quality(QUALITY_GOOD, loss), avg), jitter)
  BY DEF evaluate_quality
<1> HIDE DEF loss, avg, jitter
<1>5. max_quality(max_quality(max_quality(QUALITY_GOOD, loss), avg), jitter) \in {0, 1, 2}
  BY <1>2, <1>3
<1> QED BY <1>4, <1>5 DEF QUALITY_GOOD, QUALITY_NORMAL, QUALITY_POOR

LEMMA IInvInit == Init => IInv
<1> SUFFICES ASSUME Init PROVE IInv
  OBVIOUS
<1>0. count \in Nat \ {0}
  BY CountsAssumption DEF Init
<1>1. count \in Nat /\ 0 < count
  BY <1>0
<1>2. Len(<<>>) = 0 /\ <<>> \in Seq(PingResult) /\ <<>> \in Seq(Row)
  OBVIOUS
<1>3. TypeOK
  <2>1. results = <<>> /\ rows = <<>> /\ csvAccepted = <<>> /\ Len(results) <= count
    BY <1>1, <1>2 DEF Init
  <2> QED BY <1>2, <2>1 DEF Init, TypeOK, QUALITY_GOOD, QUALITY_NORMAL, QUALITY_POOR
<1>4. RowsInPlace
  <2>1. pc = "probe" /\ Len(results) = 0 /\ Len(rows) = 0 /\ Len(csvAccepted) = 0
    BY <1>2 DEF Init
  <2>2. 1..Len(rows) = {} /\ 1..Len(csvAccepted) = {}
    BY <2>1
  <2> QED BY <2>1, <2>2 DEF RowsInPlace, Printed, Written
<1>5. InOrder /\ SummaryInPlace
  BY <1>1, <1>2 DEF Init, InOrder, SummaryInPlace
<1> QED BY <1>3, <1>4, <1>5 DEF IInv

LEMMA IInvStep == IInv /\ [Next]_vars => IInv'
<1> SUFFICES ASSUME IInv, [Next]_vars PROVE IInv'
  OBVIOUS
<1>c. count \in Nat \ {0}
  BY CountsAssumption DEF IInv, TypeOK
<1> DEFINE m == Len(results)
<1>0. /\ count \in Nat /\ 0 < count /\ count \in Counts /\ m \in Nat /\ m <= count
      /\ results \in Seq(PingResult) /\ Len(results) \in Nat /\ Len(results) <= count
      /\ rows \in Seq(Row) /\ Len(rows) \in Nat
      /\ csvAccepted \in Seq(Row) /\ Len(csvAccepted) \in Nat
      /\ csv \in BOOLEAN
      /\ pc \in {"probe", "print", "csv", "sleep", "summary", "closed"}
  BY <1>c DEF IInv, TypeOK
<1> USE <1>0
<1>a. Len(rows) = Printed /\ \A i \in 1..Len(rows) : rows[i] = RowOf(i)
  BY DEF IInv, RowsInPlace
<1>b. /\ csv /\ exit # "ERR_IO" => Len(csvAccepted) = Written
      /\ \A i \in 1..Len(csvAccepted) : csvAccepted[i] = RowOf(i)
      /\ Len(csvAccepted) <= m
  BY DEF IInv, RowsInPlace
<1>d. Len(csvAccepted) <= m
  BY DEF IInv, RowsInPlace
<1>1. ASSUME NEW r \in PingResult, Probe(r) PROVE IInv'
  <2>1. /\ pc = "probe" /\ pc' = "print" /\ results' = Append(results, r)
        /\ UNCHANGED <<config, rows, csvAccepted, summary, exit>>
    BY <1>1 DEF Probe
  <2>2. /\ results' \in Seq(PingResult) /\ Len(results') = m + 1
        /\ \A i \in 1..m : results'[i] = results[i]
    BY <2>1, Appended
  <2>3. \A i \in 1..m : RowOf(i)' = RowOf(i)
    BY <2>2 DEF RowOf
  <2>4. m < count /\ exit = "RUNNING"
    BY <2>1 DEF IInv, InOrder
  <2>5. TypeOK'
    BY <2>1, <2>2, <2>4 DEF IInv, TypeOK, config, summary
  <2>6. RowsInPlace'
    <3>1. Len(rows) = m /\ (csv => Len(csvAccepted) = m)
      BY <1>a, <1>b, <2>1, <2>4 DEF Printed, Written
    <3>2. UNCHANGED <<count, csv, rows, csvAccepted, exit>> /\ pc' = "print"
      BY <2>1 DEF config
    <3>3. Printed' = m /\ Written' = m
      BY <2>2, <3>2 DEF Printed, Written
    <3>4. 1..Len(rows) \subseteq 1..m /\ 1..Len(csvAccepted) \subseteq 1..m
      BY <1>d, <3>1
    <3>5. /\ \A i \in 1..Len(rows) : rows[i] = RowOf(i)'
          /\ \A i \in 1..Len(csvAccepted) : csvAccepted[i] = RowOf(i)'
      BY <1>a, <1>b, <2>3, <3>4
    <3>6. rows' = rows /\ csvAccepted' = csvAccepted /\ csv' = csv /\ exit' = exit
      BY <3>2
    <3>7. Len(results') = m + 1 /\ m \in Nat
      BY <1>d, <2>2
    <3>8. Len(rows') = Printed' /\ (csv' /\ exit' # "ERR_IO" => Len(csvAccepted') = Written')
      BY <3>1, <3>3, <3>6
    <3>9. Len(csvAccepted') <= Len(results')
      BY <1>d, <3>6, <3>7
    <3> QED BY <3>5, <3>6, <3>8, <3>9, Zenon DEF RowsInPlace
  <2>7. InOrder' /\ SummaryInPlace'
    BY <2>1, <2>2, <2>4 DEF IInv, InOrder, SummaryInPlace, config
  <2> QED BY <2>5, <2>6, <2>7 DEF IInv
<1>2. CASE PrintResult
  <2>1. /\ pc = "print" /\ rows' = Append(rows, RowOf(m))
        /\ pc' = IF csv THEN "csv" ELSE "sleep"
        /\ UNCHANGED <<config, results, csvAccepted, summary, exit>>
    BY <1>2 DEF PrintResult
  <2>2. m > 0 /\ exit = "RUNNING" /\ Len(rows) = m - 1
    BY <1>a, <2>1 DEF IInv, InOrder, Printed
  <2>3. RowOf(m) \in Row
    BY <2>2, RowType
  <2>4. /\ rows' \in Seq(Row) /\ Len(rows') = m /\ rows'[m] = RowOf(m)
        /\ \A i \in 1..(m - 1) : rows'[i] = rows[i]
    <3>1. Len(rows) + 1 = m
      BY <2>2
    <3> QED BY <2>1, <2>2, <2>3, <3>1, Appended
  <2>5. \A i \in 1..m : rows'[i] = RowOf(i)
    <3>1. \A i \in 1..m : i \in 1..(m - 1) \/ i = m
      OBVIOUS
    <3> QED BY <1>a, <2>2, <2>4, <3>1
  <2>6. \A i : RowOf(i)' = RowOf(i)
    BY <2>1 DEF RowOf
  <2>7. TypeOK'
    BY <2>1, <2>4 DEF IInv, TypeOK, config, summary
  <2>8. RowsInPlace'
    BY <1>b, <2>1, <2>4, <2>5, <2>6 DEF RowsInPlace, Printed, Written, config
  <2>9. InOrder' /\ SummaryInPlace'
    BY <2>1, <2>2 DEF IInv, InOrder, SummaryInPlace, config
  <2> QED BY <2>7, <2>8, <2>9 DEF IInv
<1>3. CASE WriteCsvRow
  <2>1. /\ pc = "csv" /\ csvAccepted' = Append(csvAccepted, RowOf(m)) /\ pc' = "sleep"
        /\ UNCHANGED <<config, results, rows, summary, exit>>
    BY <1>3 DEF WriteCsvRow
  <2>2. m > 0 /\ exit = "RUNNING" /\ csv /\ Len(csvAccepted) = m - 1 /\ Len(rows) = m
    BY <1>a, <1>b, <2>1 DEF IInv, InOrder, Printed, Written
  <2>3. RowOf(m) \in Row
    BY <2>2, RowType
  <2>4. /\ csvAccepted' \in Seq(Row) /\ Len(csvAccepted') = m /\ csvAccepted'[m] = RowOf(m)
        /\ \A i \in 1..(m - 1) : csvAccepted'[i] = csvAccepted[i]
    <3>1. Len(csvAccepted) + 1 = m
      BY <2>2
    <3> QED BY <2>1, <2>2, <2>3, <3>1, Appended
  <2>5. \A i \in 1..m : csvAccepted'[i] = RowOf(i)
    <3>1. \A i \in 1..m : i \in 1..(m - 1) \/ i = m
      OBVIOUS
    <3> QED BY <1>b, <2>2, <2>4, <3>1
  <2>6. \A i : RowOf(i)' = RowOf(i)
    BY <2>1 DEF RowOf
  <2>7. TypeOK'
    BY <2>1, <2>4 DEF IInv, TypeOK, config, summary
  <2>8. RowsInPlace'
    BY <1>a, <2>1, <2>2, <2>4, <2>5, <2>6 DEF RowsInPlace, Printed, Written, config
  <2>9. InOrder' /\ SummaryInPlace'
    BY <2>1, <2>2 DEF IInv, InOrder, SummaryInPlace, config
  <2> QED BY <2>7, <2>8, <2>9 DEF IInv
<1>4. CASE CsvFails
  <2>1. /\ pc = "csv" /\ pc' = "closed" /\ exit' = "ERR_IO"
        /\ UNCHANGED <<config, results, rows, csvAccepted, summary>>
    BY <1>4 DEF CsvFails
  <2>2. \A i : RowOf(i)' = RowOf(i)
    BY <2>1 DEF RowOf
  <2>3. TypeOK'
    BY <2>1 DEF IInv, TypeOK, config, summary
  <2>4. RowsInPlace'
    BY <1>a, <1>b, <2>1, <2>2 DEF RowsInPlace, Printed, Written, config
  <2>5. InOrder' /\ SummaryInPlace'
    BY <2>1 DEF IInv, InOrder, SummaryInPlace, config
  <2> QED BY <2>3, <2>4, <2>5 DEF IInv
<1>5. CASE SleepBetween
  <2>1. /\ pc = "sleep" /\ pc' = IF m < count THEN "probe" ELSE "summary"
        /\ UNCHANGED <<config, results, rows, csvAccepted, summary, exit>>
    BY <1>5 DEF SleepBetween
  <2>2. \A i : RowOf(i)' = RowOf(i)
    BY <2>1 DEF RowOf
  <2>3. TypeOK'
    BY <2>1 DEF IInv, TypeOK, config, summary
  <2>4. RowsInPlace'
    BY <1>a, <1>b, <2>1, <2>2 DEF RowsInPlace, Printed, Written, config
  <2>5. exit = "RUNNING"
    BY <2>1 DEF IInv, InOrder
  <2>6. InOrder' /\ SummaryInPlace'
    BY <2>1, <2>5 DEF InOrder, SummaryInPlace, config
  <2> QED BY <2>3, <2>4, <2>6 DEF IInv
<1>6. ASSUME NEW room \in BOOLEAN, Summarise(room) PROVE IInv'
  <2>1. /\ pc = "summary" /\ pc' = "closed" /\ exit' = "OK" /\ allocated' = room
        /\ stats' = compute_ping_stats(results, room)
        /\ quality' = evaluate_quality(compute_ping_stats(results, room))
        /\ UNCHANGED <<config, results, rows, csvAccepted>>
    BY <1>6 DEF Summarise
  <2>2. \A i : RowOf(i)' = RowOf(i)
    BY <2>1 DEF RowOf
  <2>3. TypeOK'
    BY <2>1, QualityType DEF IInv, TypeOK, config
  <2>4. exit = "RUNNING" /\ m = count
    BY <2>1 DEF IInv, InOrder
  <2>5. RowsInPlace'
    BY <1>a, <1>b, <2>1, <2>2, <2>4 DEF RowsInPlace, Printed, Written, config
  <2>6. InOrder'
    BY <2>1, <2>4 DEF InOrder, config
  <2>7. SummaryInPlace'
    BY <2>1 DEF SummaryInPlace
  <2> QED BY <2>3, <2>5, <2>6, <2>7 DEF IInv
<1>7. CASE UNCHANGED vars
  <2>1. \A i : RowOf(i)' = RowOf(i)
    BY <1>7 DEF RowOf, vars
  <2> QED BY <1>7, <2>1 DEF vars, config, summary, IInv, TypeOK, RowsInPlace, InOrder, SummaryInPlace,
                            Printed, Written
<1> QED BY <1>1, <1>2, <1>3, <1>4, <1>5, <1>6, <1>7 DEF Next, Closed

THEOREM Invariance == Spec => []IInv
  BY IInvInit, IInvStep, PTL DEF Spec

(* Type correctness; the array of results is never overrun (ping.c:41-67).   *)
THEOREM TypeCorrect == Spec => []TypeOK
<1>1. IInv => TypeOK
  BY DEF IInv
<1> QED BY <1>1, Invariance, PTL

-----------------------------------------------------------------------------
(* What compute_ping_stats makes of the results, field by field. *)

LEMMA KnownResults == PingResult \subseteq AnyResult
  BY ResultStatus DEF AnyResult

LEMMA TakeAnother ==
  ASSUME NEW t \in Seq(Nat), NEW r \in PingResult
  PROVE  Stepped(TakeRtt, t, r) = IF IsSuccess(r) THEN Append(t, r.rtt_ms) ELSE t
  BY KnownResults DEF Stepped, TakeRtt

LEMMA RttsType == \A s \in Seq(PingResult) : rtts(s) \in Seq(Nat)
<1>1. ASSUME NEW t \in Seq(Nat), NEW r \in PingResult
      PROVE  Stepped(TakeRtt, t, r) \in Seq(Nat)
  <2>1. r.rtt_ms \in Nat
    BY ResultStatus
  <2> QED BY <2>1, TakeAnother
<1>2. <<>> \in Seq(Nat)
  OBVIOUS
<1>3. \A s \in Seq(PingResult) : Fold(TakeRtt, <<>>, s) \in Seq(Nat)
  BY <1>1, <1>2, FoldType
<1> QED BY <1>3 DEF rtts

LEMMA RttsEmpty == rtts(<<>>) = <<>>
  BY FoldEmpty DEF rtts

LEMMA RttsAppend ==
  ASSUME NEW s \in Seq(PingResult), NEW r \in PingResult
  PROVE  rtts(Append(s, r)) = IF IsSuccess(r) THEN Append(rtts(s), r.rtt_ms) ELSE rtts(s)
<1>1. rtts(Append(s, r)) = Stepped(TakeRtt, rtts(s), r)
  BY FoldAppend DEF rtts
<1>2. rtts(s) \in Seq(Nat)
  BY RttsType
<1> QED BY <1>1, <1>2, TakeAnother

(* Every result is an answer, a timeout or an error, and the answers are the *)
(* ones that have a time.                                                    *)
Outcome(status) == [status : {status}, rtt_ms : Nat]

LEMMA OneOutcome ==
  ASSUME NEW r \in PingResult, NEW status
  PROVE  r \in Outcome(status) <=> r.status = status
  BY ResultStatus DEF Outcome

LEMMA OutcomesCounted ==
  \A s \in Seq(PingResult) :
    /\ Len(rtts(s)) = CountIn(s, Outcome("SUCCESS"))
    /\ Len(rtts(s)) + CountIn(s, Outcome("TIMEOUT")) + CountIn(s, Outcome("ERROR")) = Len(s)
<1> DEFINE Good(s) ==
             /\ Len(rtts(s)) = CountIn(s, Outcome("SUCCESS"))
             /\ Len(rtts(s)) + CountIn(s, Outcome("TIMEOUT")) + CountIn(s, Outcome("ERROR")) = Len(s)
           S == {s \in Seq(PingResult) : Good(s)}
<1>1. <<>> \in S
  <2>1. Len(<<>>) = 0 /\ <<>> \in Seq(PingResult)
    OBVIOUS
  <2> QED BY <2>1, RttsEmpty, CountEmpty
<1>2. ASSUME NEW s \in Seq(PingResult), Good(s), NEW r \in PingResult PROVE Good(Append(s, r))
  <2> DEFINE u == Append(s, r)
  <2>1. Len(u) = Len(s) + 1 /\ Len(s) \in Nat
    BY Appended
  <2>2. /\ CountIn(s, Outcome("SUCCESS")) \in Nat /\ CountIn(s, Outcome("TIMEOUT")) \in Nat
        /\ CountIn(s, Outcome("ERROR")) \in Nat
    BY CountType
  <2>3. \A status : CountIn(u, Outcome(status))
                      = CountIn(s, Outcome(status)) + (IF r.status = status THEN 1 ELSE 0)
    BY CountAppend, OneOutcome
  <2>4. Len(rtts(u)) = Len(rtts(s)) + (IF IsSuccess(r) THEN 1 ELSE 0)
    <3>1. rtts(s) \in Seq(Nat) /\ r.rtt_ms \in Nat
      BY RttsType, ResultStatus
    <3>2. Len(Append(rtts(s), r.rtt_ms)) = Len(rtts(s)) + 1
      BY <3>1
    <3>3. rtts(u) = IF IsSuccess(r) THEN Append(rtts(s), r.rtt_ms) ELSE rtts(s)
      BY RttsAppend
    <3>4. Len(rtts(s)) \in Nat
      BY <3>1
    <3> QED BY <3>2, <3>3, <3>4
  <2>5. r.status \in {"SUCCESS", "TIMEOUT", "ERROR"}
    BY ResultStatus
  <2>6. Len(rtts(s)) \in Nat
    BY <1>2, <2>2
  <2> HIDE DEF u
  <2> QED BY <1>2, <2>1, <2>2, <2>3, <2>4, <2>5, <2>6 DEF IsSuccess, u
<1>3. ASSUME NEW s \in Seq(PingResult), s \in S PROVE \A r \in PingResult : Append(s, r) \in S
  BY <1>2, <1>3
<1> HIDE DEF S
<1>4. Seq(PingResult) \subseteq S
  BY <1>1, <1>3, SequenceInduction
<1> QED BY <1>4 DEF S

(* The fields of the summary, with room for the times. *)
LEMMA MeasuredFields ==
  ASSUME NEW s \in Seq(PingResult)
  PROVE  LET p == compute_ping_stats(s, TRUE)  t == rtts(s)  n == Len(t) IN
         /\ p.transmitted = Len(s) /\ p.received = n
         /\ p.loss_percent = <<100 * (Len(s) - n), Len(s)>>
         /\ p.has_rtt = (n # 0) /\ p.has_jitter = (n # 0 /\ n # 1)
         /\ n = 0 => p.min_ms = 0 /\ p.max_ms = 0 /\ p.avg_ms = <<0, 1>>
         /\ n <= 1 => p.jitter_ms = <<0, 1>>
         /\ n > 0 =>
              /\ p.min_ms = Fold(Least, t[1], t) /\ p.max_ms = Fold(Greatest, t[1], t)
              /\ p.avg_ms = <<SumOf(t), n>> /\ p.variance = Variance(t) /\ p.p95_ms = p95(t)
         /\ n > 1 => p.jitter_ms = Jitter(t)
<1> DEFINE t == rtts(s)
           n == Len(t)
           m == Len(s)
           p == compute_ping_stats(s, TRUE)
           loss == <<100 * (m - n), m>>
           lo == Fold(Least, t[1], t)
           hi == Fold(Greatest, t[1], t)
           avg == <<SumOf(t), n>>
           var == Variance(t)
           late == p95(t)
           steps == Jitter(t)
           counted == [NoStats(m) EXCEPT !.received = n, !.loss_percent = loss]
           timed == [counted EXCEPT
                       !.has_rtt = TRUE, !.min_ms = lo, !.max_ms = hi, !.avg_ms = avg,
                       !.variance = var, !.p95_ms = late]
           moved == [timed EXCEPT !.has_jitter = TRUE, !.jitter_ms = steps]
<1>1. n \in Nat
  BY RttsType
<1>2. p = IF n = 0 THEN counted ELSE IF n = 1 THEN timed ELSE moved
  <2>1. p = IF ~TRUE THEN NoStats(m) ELSE IF n = 0 THEN counted ELSE IF n = 1 THEN timed ELSE moved
    BY Zenon DEF compute_ping_stats
  <2> QED BY <2>1, Zenon
<1> HIDE DEF p, t, n, m, loss, lo, hi, avg, var, late, steps
<1>3. /\ counted.transmitted = m /\ counted.received = n /\ counted.loss_percent = loss
      /\ counted.has_rtt = FALSE /\ counted.has_jitter = FALSE
      /\ counted.min_ms = 0 /\ counted.max_ms = 0
      /\ counted.avg_ms = <<0, 1>> /\ counted.jitter_ms = <<0, 1>>
  BY DEF NoStats
<1>4. /\ timed.transmitted = m /\ timed.received = n /\ timed.loss_percent = loss
      /\ timed.has_rtt = TRUE /\ timed.has_jitter = FALSE
      /\ timed.min_ms = lo /\ timed.max_ms = hi /\ timed.avg_ms = avg
      /\ timed.variance = var /\ timed.p95_ms = late /\ timed.jitter_ms = <<0, 1>>
  BY DEF NoStats
<1>5. /\ moved.transmitted = m /\ moved.received = n /\ moved.loss_percent = loss
      /\ moved.has_rtt = TRUE /\ moved.has_jitter = TRUE
      /\ moved.min_ms = lo /\ moved.max_ms = hi /\ moved.avg_ms = avg
      /\ moved.variance = var /\ moved.p95_ms = late /\ moved.jitter_ms = steps
  BY DEF NoStats
<1> HIDE DEF counted, timed, moved
<1>6. /\ p.transmitted = m /\ p.received = n /\ p.loss_percent = loss
  BY <1>2, <1>3, <1>4, <1>5, Zenon
<1>7. n = 0 => /\ p.has_rtt = FALSE /\ p.has_jitter = FALSE /\ p.jitter_ms = <<0, 1>>
               /\ p.min_ms = 0 /\ p.max_ms = 0 /\ p.avg_ms = <<0, 1>>
  BY <1>2, <1>3, Zenon
<1>8. n = 1 => p.has_jitter = FALSE /\ p.jitter_ms = <<0, 1>>
  BY <1>2, <1>4
<1>9. n # 0 => /\ p.has_rtt = TRUE /\ p.min_ms = lo /\ p.max_ms = hi /\ p.avg_ms = avg
               /\ p.variance = var /\ p.p95_ms = late
  BY <1>2, <1>4, <1>5, Zenon
<1>10. n # 0 /\ n # 1 => p.has_jitter = TRUE /\ p.jitter_ms = steps
  BY <1>2, <1>5, Zenon
<1>11. (n > 0 <=> n # 0) /\ (n > 1 <=> n # 0 /\ n # 1) /\ (n <= 1 <=> n = 0 \/ n = 1)
  BY <1>1
<1>12. p.has_rtt = (n # 0) /\ p.has_jitter = (n # 0 /\ n # 1)
  <2>1. n = 1 => n # 0
    OBVIOUS
  <2> QED BY <1>7, <1>8, <1>9, <1>10, <2>1, Zenon
<1> QED BY <1>6, <1>7, <1>8, <1>9, <1>10, <1>11, <1>12 DEF p, t, n, m, loss, lo, hi, avg, var, late, steps

(* Without room it is empty, and graded POOR. *)
LEMMA UnmeasuredFields ==
  ASSUME NEW s
  PROVE  LET p == compute_ping_stats(s, FALSE) IN
         p.transmitted = Len(s) /\ p.received = 0 /\ evaluate_quality(p) = QUALITY_POOR
<1> DEFINE p == compute_ping_stats(s, FALSE)
<1>1. p = NoStats(Len(s))
  BY DEF compute_ping_stats
<1> HIDE DEF p
<1>2. p.transmitted = Len(s) /\ p.received = 0 /\ p.has_rtt = FALSE
  BY <1>1 DEF NoStats
<1>3. evaluate_quality(p) = QUALITY_POOR
  BY <1>2 DEF evaluate_quality
<1> QED BY <1>2, <1>3 DEF p

-----------------------------------------------------------------------------
(* What the user sees fits together: a run that ends well has printed every  *)
(* probe once, its CSV stream took the same rows, and the summary counts them *)
(* - or, where calloc failed, counts no answer and is POOR (ping.c:41-67,    *)
(* stats.c:26-52).                                                           *)
THEOREM PrintedOnce == Spec => []SummaryMatchesRows
<1>1. IInv => SummaryMatchesRows
  <2> SUFFICES ASSUME IInv, Summarised
               PROVE  /\ rows = [i \in 1..count |-> RowOf(i)]
                      /\ csv => csvAccepted = rows
                      /\ stats.transmitted = Len(rows)
                      /\ allocated =>
                           /\ stats.received = CountOf(rows, "SUCCESS")
                           /\ stats.loss_percent[1] * count =
                                100 * (CountOf(rows, "TIMEOUT") + CountOf(rows, "ERROR"))
                                  * stats.loss_percent[2]
                      /\ ~allocated => stats.received = 0 /\ quality = QUALITY_POOR
    BY DEF SummaryMatchesRows
  <2>1. /\ results \in Seq(PingResult) /\ rows \in Seq(Row) /\ csvAccepted \in Seq(Row)
        /\ allocated \in BOOLEAN /\ csv \in BOOLEAN
    BY DEF IInv, TypeOK
  <2>2. count \in Nat \ {0}
    BY CountsAssumption DEF IInv, TypeOK
  <2>3. pc = "closed" /\ exit = "OK" /\ Len(results) = count
    BY DEF IInv, InOrder, Summarised
  <2>4. /\ Len(rows) = count /\ (csv => Len(csvAccepted) = count)
        /\ \A i \in 1..Len(rows) : rows[i] = RowOf(i)
        /\ \A i \in 1..Len(csvAccepted) : csvAccepted[i] = RowOf(i)
    BY <2>3 DEF IInv, RowsInPlace, Printed, Written
  <2>5. rows = [i \in 1..count |-> RowOf(i)]
    <3>1. rows = [i \in 1..count |-> rows[i]]
      BY <2>1, <2>4
    <3> QED BY <2>4, <3>1
  <2>6. csv => csvAccepted = rows
    BY <2>1, <2>4, SameSequence
  <2>7. stats = compute_ping_stats(results, allocated) /\ quality = evaluate_quality(stats)
    BY <2>3 DEF IInv, SummaryInPlace
  <2>8. \A status : CountOf(rows, status) = CountIn(results, Outcome(status))
    <3> TAKE status
    <3>1. DOMAIN rows = 1..count /\ DOMAIN results = 1..count
      BY <2>1, <2>3, <2>4
    <3>2. ASSUME NEW i \in 1..count
          PROVE  rows[i] \in [seq : Nat \ {0}, status : {status}] <=> results[i] \in Outcome(status)
      <4>1. results[i] \in PingResult /\ i \in Nat \ {0}
        BY <2>1, <2>3
      <4>2. rows[i] = [seq |-> i, status |-> results[i].status]
        BY <2>4 DEF RowOf
      <4> QED BY <4>1, <4>2, OneOutcome
    <3> DEFINE S == [seq : Nat \ {0}, status : {status}]
               T == Outcome(status)
    <3>3. \A i \in DOMAIN rows : rows[i] \in S <=> results[i] \in T
      BY <3>1, <3>2
    <3> HIDE DEF S, T
    <3>4. CountIn(rows, S) = CountIn(results, T)
      <4>1. {i \in DOMAIN rows : rows[i] \in S} = {i \in DOMAIN results : results[i] \in T}
        BY <3>1, <3>3
      <4> QED BY <4>1 DEF CountIn
    <3> QED BY <3>4 DEF CountOf, S, T
  <2>9. ASSUME allocated
        PROVE  /\ stats.transmitted = count
               /\ stats.received = CountOf(rows, "SUCCESS")
               /\ stats.loss_percent[1] * count =
                    100 * (CountOf(rows, "TIMEOUT") + CountOf(rows, "ERROR"))
                      * stats.loss_percent[2]
    <3> DEFINE n == Len(rtts(results))
               a == CountIn(results, Outcome("TIMEOUT"))
               b == CountIn(results, Outcome("ERROR"))
    <3>1. allocated = TRUE
      BY <2>1, <2>9
    <3>2. /\ stats.transmitted = count /\ stats.received = n
          /\ stats.loss_percent = <<100 * (count - n), count>>
      BY <2>1, <2>3, <2>7, <3>1, MeasuredFields
    <3>3. n = CountIn(results, Outcome("SUCCESS")) /\ n + a + b = count
      BY <2>1, <2>3, OutcomesCounted
    <3>4. n \in Nat /\ a \in Nat /\ b \in Nat
      BY <2>1, <3>3, CountType
    <3> HIDE DEF n, a, b
    <3>5. count - n = a + b
      BY <2>2, <3>3, <3>4
    <3>6. stats.loss_percent[1] = 100 * (a + b) /\ stats.loss_percent[2] = count
      BY <3>2, <3>5
    <3> QED BY <2>8, <3>2, <3>3, <3>6 DEF a, b
  <2>10. ASSUME ~allocated
         PROVE  stats.transmitted = count /\ stats.received = 0 /\ quality = QUALITY_POOR
    <3>1. allocated = FALSE
      BY <2>1, <2>10
    <3> QED BY <2>3, <2>7, <3>1, UnmeasuredFields
  <2> QED BY <2>4, <2>5, <2>6, <2>9, <2>10
<1> QED BY <1>1, Invariance, PTL

-----------------------------------------------------------------------------
(* evaluate_quality. *)

LEMMA Graded ==
  ASSUME NEW a \in Nat, NEW b \in Nat, NEW good \in {0, 10, 50}, NEW normal \in {5, 30, 150},
         good < normal
  PROVE  /\ Grade(<<a, b>>, good, normal) \in {0, 1, 2}
         /\ Grade(<<a, b>>, good, normal) = 0 <=> a <= good * b
         /\ Grade(<<a, b>>, good, normal) = 2 <=> a > normal * b
<1>1. good * b \in Nat /\ normal * b \in Nat /\ good * b <= normal * b
  BY TimesMonotonic
<1>2. AtMost(<<a, b>>, good) <=> a <= good * b
  BY DEF AtMost
<1>3. AtMost(<<a, b>>, normal) <=> a <= normal * b
  BY DEF AtMost
<1> DEFINE g == good * b
           h == normal * b
<1>4. Grade(<<a, b>>, good, normal) = IF a <= g THEN 0 ELSE IF a <= h THEN 1 ELSE 2
  BY <1>2, <1>3, Zenon DEF Grade, QUALITY_GOOD, QUALITY_NORMAL, QUALITY_POOR
<1>5. g \in Nat /\ h \in Nat /\ g <= h
  BY <1>1
<1> HIDE DEF g, h
<1>6. a > h <=> ~(a <= g) /\ ~(a <= h)
  BY <1>5
<1> QED BY <1>4, <1>6 DEF g, h

LEMMA WorstOfThree ==
  ASSUME NEW a \in {0, 1, 2}, NEW b \in {0, 1, 2}, NEW c \in {0, 1, 2}
  PROVE  LET q == max_quality(max_quality(max_quality(0, a), b), c) IN
         /\ q = 0 <=> a = 0 /\ b = 0 /\ c = 0
         /\ q = 2 <=> a = 2 \/ b = 2 \/ c = 2
  BY DEF max_quality

(* The distances that make the jitter. *)
Steps(t) == [i \in 1..(Len(t) - 1) |-> Distance(t[i], t[i + 1])]

LEMMA StepsAreGaps == \A t \in Seq(Nat) : Steps(t) = Gaps(t) /\ Steps(t) \in Seq(Nat)
<1> TAKE t \in Seq(Nat)
<1>1. \A i : Distance(t[i], t[i + 1]) = AbsDiff(t[i], t[i + 1])
  BY DEF Distance, AbsDiff
<1>2. Steps(t) = Gaps(t)
  BY <1>1 DEF Steps, Gaps
<1> QED BY <1>2, GapsType

LEMMA NoSteps == \A t \in Seq(Nat) : Len(t) <= 1 => SumOf(Steps(t)) = 0
<1> SUFFICES ASSUME NEW t \in Seq(Nat), Len(t) <= 1 PROVE SumOf(Steps(t)) = 0
  OBVIOUS
<1>1. 1..(Len(t) - 1) = {}
  OBVIOUS
<1>2. Steps(t) \in Seq(Nat) /\ DOMAIN Steps(t) = {}
  BY <1>1, StepsAreGaps DEF Steps
<1>3. Steps(t) = <<>>
  BY <1>2
<1> QED BY <1>3, SumEmpty

(* The grade of the summary of a session of m probes. *)
LEMMA GradeOfSummary ==
  ASSUME NEW s \in Seq(PingResult), Len(s) > 0
  PROVE  LET q == evaluate_quality(compute_ping_stats(s, TRUE))
             t == rtts(s)  n == Len(t)  m == Len(s)  lost == m - n
         IN /\ q = 0 <=> lost = 0 /\ SumOf(t) <= 50 * n /\ SumOf(Steps(t)) <= 10 * (n - 1)
            /\ q = 2 <=> \/ n = 0 \/ 20 * lost > m \/ SumOf(t) > 150 * n
                         \/ SumOf(Steps(t)) > 30 * Larger(n - 1, 0)
<1> DEFINE p == compute_ping_stats(s, TRUE)
           q == evaluate_quality(p)
           t == rtts(s)
           n == Len(t)
           m == Len(s)
           lost == m - n
           total == SumOf(t)
           steps == SumOf(Steps(t))
           a == Grade(p.loss_percent, 0, 5)
           b == Grade(p.avg_ms, 50, 150)
           c == IF p.has_jitter THEN Grade(p.jitter_ms, 10, 30) ELSE QUALITY_GOOD
<1>1. t \in Seq(Nat) /\ n \in Nat /\ m \in Nat /\ m > 0
  BY RttsType
<1>2. lost \in Nat
  <2>1. CountIn(s, Outcome("TIMEOUT")) \in Nat /\ CountIn(s, Outcome("ERROR")) \in Nat
    BY CountType
  <2>2. n + CountIn(s, Outcome("TIMEOUT")) + CountIn(s, Outcome("ERROR")) = m
    BY OutcomesCounted
  <2> QED BY <1>1, <2>1, <2>2
<1>3. total \in Nat /\ steps \in Nat /\ (n <= 1 => steps = 0)
  BY <1>1, SumType, StepsAreGaps, NoSteps
<1>4. /\ p.loss_percent = <<100 * lost, m>>
      /\ p.has_rtt = (n # 0) /\ p.has_jitter = (n # 0 /\ n # 1)
      /\ n > 0 => p.avg_ms = <<total, n>>
      /\ n > 1 => p.jitter_ms = Jitter(t)
  BY MeasuredFields
<1>5. Jitter(t) = <<steps, n - 1>>
  BY DEF Jitter, Steps
<1>6. q = IF ~p.has_rtt THEN 2 ELSE max_quality(max_quality(max_quality(0, a), b), c)
  BY Zenon DEF evaluate_quality, QUALITY_GOOD, QUALITY_POOR
<1> HIDE DEF p, q, t, n, m, lost, total, steps
<1>7. /\ a \in {0, 1, 2}
      /\ a = 0 <=> lost = 0
      /\ a = 2 <=> 20 * lost > m
  <2>1. /\ Grade(<<100 * lost, m>>, 0, 5) \in {0, 1, 2}
        /\ Grade(<<100 * lost, m>>, 0, 5) = 0 <=> 100 * lost <= 0 * m
        /\ Grade(<<100 * lost, m>>, 0, 5) = 2 <=> 100 * lost > 5 * m
    <3>1. 100 * lost \in Nat
      BY <1>2
    <3> DEFINE k == 100 * lost
    <3> HIDE DEF k
    <3>2. /\ Grade(<<k, m>>, 0, 5) \in {0, 1, 2}
          /\ Grade(<<k, m>>, 0, 5) = 0 <=> k <= 0 * m
          /\ Grade(<<k, m>>, 0, 5) = 2 <=> k > 5 * m
      BY <1>1, <3>1, Graded DEF k
    <3> QED BY <3>2 DEF k
  <2>2. (100 * lost <= 0 * m <=> lost = 0) /\ (100 * lost > 5 * m <=> 20 * lost > m)
    BY <1>1, <1>2
  <2> QED BY <1>4, <2>1, <2>2
<1> DEFINE Expected ==
             /\ q = 0 <=> lost = 0 /\ total <= 50 * n /\ steps <= 10 * (n - 1)
             /\ q = 2 <=> \/ n = 0 \/ 20 * lost > m \/ total > 150 * n
                          \/ steps > 30 * Larger(n - 1, 0)
<1>8. ASSUME n = 0 PROVE Expected
  <2>1. q = 2
    BY <1>4, <1>6, <1>8
  <2>2. lost # 0
    BY <1>1, <1>8 DEF lost
  <2> QED BY <1>8, <2>1, <2>2
<1>9. ASSUME n > 0 PROVE Expected
  <2>1. /\ b \in {0, 1, 2}
        /\ b = 0 <=> total <= 50 * n
        /\ b = 2 <=> total > 150 * n
    <3>1. p.avg_ms = <<total, n>>
      BY <1>4, <1>9
    <3>2. /\ Grade(<<total, n>>, 50, 150) \in {0, 1, 2}
          /\ Grade(<<total, n>>, 50, 150) = 0 <=> total <= 50 * n
          /\ Grade(<<total, n>>, 50, 150) = 2 <=> total > 150 * n
      BY <1>1, <1>3, Graded
    <3> QED BY <3>1, <3>2
  <2>2. Larger(n - 1, 0) = n - 1 /\ n - 1 \in Nat
    BY <1>1, <1>9 DEF Larger
  <2>3. /\ c \in {0, 1, 2}
        /\ c = 0 <=> steps <= 10 * (n - 1)
        /\ c = 2 <=> steps > 30 * (n - 1)
    <3>1. CASE n = 1
      <4>1. p.has_jitter = FALSE
        BY <1>4, <3>1
      <4>2. c = 0
        BY <4>1 DEF QUALITY_GOOD
      <4>3. steps = 0 /\ n - 1 = 0
        BY <1>3, <3>1
      <4> QED BY <4>2, <4>3
    <3>2. CASE n # 1
      <4> DEFINE k == n - 1
      <4>0. n > 1 /\ n # 0
        BY <1>1, <1>9, <3>2
      <4>1. p.has_jitter = TRUE /\ p.jitter_ms = <<steps, k>>
        <5>1. p.has_jitter = TRUE
          BY <1>4, <3>2, <4>0, Zenon
        <5>2. p.jitter_ms = <<steps, n - 1>>
          BY <1>4, <1>5, <4>0
        <5> QED BY <5>1, <5>2
      <4>2. c = Grade(<<steps, k>>, 10, 30)
        BY <4>1
      <4> HIDE DEF c
      <4>3. k \in Nat
        BY <2>2
      <4> HIDE DEF k
      <4>4. /\ Grade(<<steps, k>>, 10, 30) \in {0, 1, 2}
            /\ Grade(<<steps, k>>, 10, 30) = 0 <=> steps <= 10 * k
            /\ Grade(<<steps, k>>, 10, 30) = 2 <=> steps > 30 * k
        BY <1>3, <4>3, Graded
      <4> QED BY <4>2, <4>4 DEF k
    <3> QED BY <3>1, <3>2
  <2> HIDE DEF a, b, c
  <2>6. n # 0
    BY <1>9
  <2>4. q = max_quality(max_quality(max_quality(0, a), b), c)
    BY <1>4, <1>6, <2>6, Zenon
  <2>5. (q = 0 <=> a = 0 /\ b = 0 /\ c = 0) /\ (q = 2 <=> a = 2 \/ b = 2 \/ c = 2)
    BY <1>7, <2>1, <2>3, <2>4, WorstOfThree
  <2> QED BY <1>7, <2>1, <2>2, <2>3, <2>5, <2>6, Zenon
<1>10. Expected
  BY <1>1, <1>8, <1>9
<1> QED BY <1>10, Zenon DEF p, q, t, n, m, lost, total, steps

(* The grade is that of the results: GOOD without a loss, with small times   *)
(* and small steps; POOR with more than one loss in twenty or no answer at   *)
(* all, whatever the times are (quality.c:13-51).                            *)
THEOREM GradeCorrect == Spec => []GradeFollowsResults
<1>1. IInv => GradeFollowsResults
  <2> SUFFICES ASSUME IInv, Measured PROVE GradeFollowsResults
    BY DEF GradeFollowsResults
  <2>1. results \in Seq(PingResult) /\ allocated = TRUE
    BY DEF IInv, TypeOK, Measured
  <2>2. count \in Nat \ {0}
    BY CountsAssumption DEF IInv, TypeOK
  <2>3. exit = "OK" /\ Len(results) = count
    BY DEF IInv, InOrder, Measured, Summarised
  <2>4. quality = evaluate_quality(compute_ping_stats(results, TRUE))
    BY <2>1, <2>3 DEF IInv, SummaryInPlace
  <2>5. Len(results) > 0
    BY <2>2, <2>3
  <2> QED BY <2>1, <2>3, <2>4, <2>5, GradeOfSummary DEF GradeFollowsResults, Steps,
             QUALITY_GOOD, QUALITY_POOR
<1> QED BY <1>1, Invariance, PTL

-----------------------------------------------------------------------------
(* The extremes of the times. *)

LEMMA LeastIsLeast ==
  ASSUME NEW b \in Nat
  PROVE  \A t \in Seq(Nat) :
           /\ Fold(Least, b, t) \in Nat /\ Fold(Least, b, t) <= b
           /\ \A i \in 1..Len(t) : Fold(Least, b, t) <= t[i]
           /\ Fold(Least, b, t) = b \/ \E i \in 1..Len(t) : Fold(Least, b, t) = t[i]
<1> DEFINE Good(t) ==
             /\ Fold(Least, b, t) \in Nat /\ Fold(Least, b, t) <= b
             /\ \A i \in 1..Len(t) : Fold(Least, b, t) <= t[i]
             /\ Fold(Least, b, t) = b \/ \E i \in 1..Len(t) : Fold(Least, b, t) = t[i]
           S == {t \in Seq(Nat) : Good(t)}
<1>1. <<>> \in S
  <2>1. <<>> \in Seq(Nat) /\ 1..Len(<<>>) = {}
    OBVIOUS
  <2>2. Fold(Least, b, <<>>) = b
    BY FoldEmpty
  <2> QED BY <2>1, <2>2
<1>2. ASSUME NEW t \in Seq(Nat), Good(t), NEW x \in Nat PROVE Good(Append(t, x))
  <2> DEFINE u == Append(t, x)
             f == Fold(Least, b, t)
             g == Fold(Least, b, u)
             n == Len(t)
  <2>1. g = Stepped(Least, f, x)
    BY FoldAppend
  <2>2. f \in Nat /\ f <= b /\ (\A i \in 1..n : f <= t[i]) /\ (f = b \/ \E i \in 1..n : f = t[i])
    BY <1>2
  <2>3. /\ n \in Nat /\ Len(u) = n + 1 /\ u[n + 1] = x
        /\ \A i \in 1..n : u[i] = t[i] /\ t[i] \in Nat
    BY Appended
  <2> HIDE DEF f, g, u, n
  <2>4. g = IF x < f THEN x ELSE f
    BY <2>1, <2>2 DEF Stepped, Least
  <2>5. \A i \in 1..(n + 1) : i \in 1..n \/ i = n + 1
    BY <2>3
  <2>6. \A i \in 1..n : i \in 1..(n + 1)
    BY <2>3
  <2>7. g \in Nat /\ g <= b /\ g <= x /\ g <= f
    BY <2>2, <2>4
  <2>8. \A i \in 1..(n + 1) : g <= u[i]
    <3>1. \A i \in 1..n : g <= t[i]
      BY <2>2, <2>3, <2>7
    <3> QED BY <2>3, <2>5, <2>7, <3>1
  <2>9. g = b \/ \E i \in 1..(n + 1) : g = u[i]
    <3>1. CASE g = f
      BY <2>2, <2>3, <2>6, <3>1
    <3>2. CASE g = x
      <4>1. n + 1 \in 1..(n + 1)
        BY <2>3
      <4> QED BY <2>3, <3>2, <4>1
    <3> QED BY <2>4, <3>1, <3>2
  <2> QED BY <2>3, <2>7, <2>8, <2>9 DEF g, u
<1> HIDE DEF Good
<1>3. ASSUME NEW t \in Seq(Nat), t \in S PROVE \A x \in Nat : Append(t, x) \in S
  BY <1>2, <1>3, Appended
<1> HIDE DEF S
<1>4. Seq(Nat) \subseteq S
  BY <1>1, <1>3, SequenceInduction
<1> QED BY <1>4 DEF S, Good

LEMMA GreatestIsGreatest ==
  ASSUME NEW b \in Nat
  PROVE  \A t \in Seq(Nat) :
           /\ Fold(Greatest, b, t) \in Nat /\ b <= Fold(Greatest, b, t)
           /\ \A i \in 1..Len(t) : t[i] <= Fold(Greatest, b, t)
           /\ Fold(Greatest, b, t) = b \/ \E i \in 1..Len(t) : Fold(Greatest, b, t) = t[i]
<1> DEFINE Good(t) ==
             /\ Fold(Greatest, b, t) \in Nat /\ b <= Fold(Greatest, b, t)
             /\ \A i \in 1..Len(t) : t[i] <= Fold(Greatest, b, t)
             /\ Fold(Greatest, b, t) = b \/ \E i \in 1..Len(t) : Fold(Greatest, b, t) = t[i]
           S == {t \in Seq(Nat) : Good(t)}
<1>1. <<>> \in S
  <2>1. <<>> \in Seq(Nat) /\ 1..Len(<<>>) = {}
    OBVIOUS
  <2>2. Fold(Greatest, b, <<>>) = b
    BY FoldEmpty
  <2> QED BY <2>1, <2>2
<1>2. ASSUME NEW t \in Seq(Nat), Good(t), NEW x \in Nat PROVE Good(Append(t, x))
  <2> DEFINE u == Append(t, x)
             f == Fold(Greatest, b, t)
             g == Fold(Greatest, b, u)
             n == Len(t)
  <2>1. g = Stepped(Greatest, f, x)
    BY FoldAppend
  <2>2. f \in Nat /\ b <= f /\ (\A i \in 1..n : t[i] <= f) /\ (f = b \/ \E i \in 1..n : f = t[i])
    BY <1>2
  <2>3. /\ n \in Nat /\ Len(u) = n + 1 /\ u[n + 1] = x
        /\ \A i \in 1..n : u[i] = t[i] /\ t[i] \in Nat
    BY Appended
  <2> HIDE DEF f, g, u, n
  <2>4. g = IF x > f THEN x ELSE f
    BY <2>1, <2>2 DEF Stepped, Greatest
  <2>5. \A i \in 1..(n + 1) : i \in 1..n \/ i = n + 1
    BY <2>3
  <2>6. \A i \in 1..n : i \in 1..(n + 1)
    BY <2>3
  <2>7. g \in Nat /\ b <= g /\ x <= g /\ f <= g
    BY <2>2, <2>4
  <2>8. \A i \in 1..(n + 1) : u[i] <= g
    <3>1. \A i \in 1..n : t[i] <= g
      BY <2>2, <2>3, <2>7
    <3> QED BY <2>3, <2>5, <2>7, <3>1
  <2>9. g = b \/ \E i \in 1..(n + 1) : g = u[i]
    <3>1. CASE g = f
      BY <2>2, <2>3, <2>6, <3>1
    <3>2. CASE g = x
      <4>1. n + 1 \in 1..(n + 1)
        BY <2>3
      <4> QED BY <2>3, <3>2, <4>1
    <3> QED BY <2>4, <3>1, <3>2
  <2> QED BY <2>3, <2>7, <2>8, <2>9 DEF g, u
<1> HIDE DEF Good
<1>3. ASSUME NEW t \in Seq(Nat), t \in S PROVE \A x \in Nat : Append(t, x) \in S
  BY <1>2, <1>3, Appended
<1> HIDE DEF S
<1>4. Seq(Nat) \subseteq S
  BY <1>1, <1>3, SequenceInduction
<1> QED BY <1>4 DEF S, Good

LEMMA Extremes ==
  ASSUME NEW t \in Seq(Nat), Len(t) > 0
  PROVE  LET n == Len(t)  lo == Fold(Least, t[1], t)  hi == Fold(Greatest, t[1], t) IN
         /\ lo \in Nat /\ hi \in Nat
         /\ \A i \in 1..n : lo <= t[i] /\ t[i] <= hi
         /\ \E i \in 1..n : lo = t[i]
         /\ \E i \in 1..n : hi = t[i]
<1>1. t[1] \in Nat /\ 1 \in 1..Len(t)
  OBVIOUS
<1> DEFINE b == t[1]
           lo == Fold(Least, b, t)
           hi == Fold(Greatest, b, t)
<1> HIDE DEF b
<1>2. /\ lo \in Nat /\ \A i \in 1..Len(t) : lo <= t[i]
      /\ lo = b \/ \E i \in 1..Len(t) : lo = t[i]
  BY <1>1, LeastIsLeast DEF b
<1>3. /\ hi \in Nat /\ \A i \in 1..Len(t) : t[i] <= hi
      /\ hi = b \/ \E i \in 1..Len(t) : hi = t[i]
  BY <1>1, GreatestIsGreatest DEF b
<1> HIDE DEF lo, hi
<1>4. (\E i \in 1..Len(t) : lo = t[i]) /\ (\E i \in 1..Len(t) : hi = t[i])
  BY <1>1, <1>2, <1>3 DEF b
<1> QED BY <1>2, <1>3, <1>4 DEF lo, hi, b

-----------------------------------------------------------------------------
(* MTR over the same results. *)

LEMMA AsTraceResultType ==
  ASSUME NEW r \in PingResult
  PROVE  /\ AsTraceResult(r) \in TraceResult
         /\ trace_result_has_rtt(AsTraceResult(r)) <=> IsSuccess(r)
         /\ IsSuccess(r) => AsTraceResult(r).rtt_ms = r.rtt_ms
<1> DEFINE x == AsTraceResult(r)
<1>1. CASE IsSuccess(r)
  <2> DEFINE rtt == r.rtt_ms
  <2>1. x = [status |-> "DESTINATION", rtt_ms |-> rtt, remote_ip |-> Target, error |-> ""]
    BY <1>1 DEF AsTraceResult
  <2>2. rtt \in Rtts
    BY <1>1, ResultStatus
  <2> HIDE DEF x, rtt
  <2>3. x \in AnsweredResult
    BY <2>1, <2>2, TargetAssumption, Zenon DEF AnsweredResult
  <2>4. x.status = "DESTINATION" /\ x.rtt_ms = rtt
    BY <2>1
  <2> QED BY <1>1, <2>3, <2>4 DEF TraceResult, trace_result_has_rtt, x, rtt
<1>2. CASE ~IsSuccess(r)
  <2> DEFINE status == r.status
  <2>1. x = [status |-> status, rtt_ms |-> 0, remote_ip |-> "", error |-> status]
    BY <1>2 DEF AsTraceResult
  <2>2. status \in {"TIMEOUT", "ERROR"}
    BY <1>2, ResultStatus DEF IsSuccess
  <2> HIDE DEF x, status
  <2>3. x \in UnansweredResult
    BY <2>1, <2>2 DEF UnansweredResult
  <2>4. x.status = status
    BY <2>1
  <2>5. ~trace_result_has_rtt(x)
    BY <2>2, <2>4 DEF trace_result_has_rtt
  <2> QED BY <1>2, <2>3, <2>5 DEF TraceResult, x
<1> QED BY <1>1, <1>2

(* Before the first answer, and before the first gap, nothing is written.    *)
Untouched(s) ==
  /\ ~s.has_rtt => s.best_ms = 0 /\ s.worst_ms = 0 /\ s.avg_ms = <<0, 1>>
  /\ ~s.has_previous_ms => s.jitter_ms = <<0, 1>>
  /\ ~s.has_jitter => s.jitter_ms = <<0, 1>>

LEMMA UntouchedStep ==
  ASSUME NEW s \in HopStats, NEW r \in TraceResult, FlagsAgree(s), Untouched(s)
  PROVE  Untouched(mtr_hop_stats_record(s, r))
<1> DEFINE t == mtr_hop_stats_record(s, r)
<1>1. s.received <= s.sent
  BY DEF FlagsAgree
<1>2. CASE trace_result_has_rtt(r)
  <2>1. Recorded(t, s, r)
    BY <1>1, <1>2, RecordedFields
  <2> HIDE DEF t
  <2>2. Untouched(t)
    BY <2>1 DEF Untouched, Recorded
  <2> QED BY <2>2 DEF t
<1>3. CASE ~trace_result_has_rtt(r)
  <2>1. Unrecorded(t, s, r)
    BY <1>1, <1>3, UnrecordedFields
  <2> HIDE DEF t
  <2>2. Untouched(t)
    BY <2>1 DEF Untouched, Unrecorded
  <2> QED BY <2>2 DEF t
<1> QED BY <1>2, <1>3

(* The statistics MTR gets from the results of a session are those of a      *)
(* history of its own with the same times.                                   *)
SameTimes(h, s) == Len(h) = Len(s) /\ Times(h) = rtts(s)

Followed(u, s) ==
  /\ u \in HopStats /\ FlagsAgree(u) /\ Untouched(u)
  /\ \E h \in Seq(TraceResult) : SameTimes(h, s) /\ MatchesHistory(u, h) /\ Totals(u, h)

LEMMA FollowedStep ==
  ASSUME NEW s \in Seq(PingResult), NEW u, Followed(u, s), NEW r \in PingResult
  PROVE  Followed(Stepped(RecordAnother, u, r), Append(s, r))
<1> DEFINE x == AsTraceResult(r)
           v == mtr_hop_stats_record(u, x)
<1>1. u \in HopStats /\ FlagsAgree(u) /\ Untouched(u)
  BY DEF Followed
<1>2. PICK h \in Seq(TraceResult) : SameTimes(h, s) /\ MatchesHistory(u, h) /\ Totals(u, h)
  BY DEF Followed
<1>3. Stepped(RecordAnother, u, r) = v
  BY <1>1 DEF Stepped, RecordAnother
<1>4. /\ x \in TraceResult
      /\ trace_result_has_rtt(x) <=> IsSuccess(r)
      /\ IsSuccess(r) => x.rtt_ms = r.rtt_ms
  BY AsTraceResultType
<1> DEFINE k == Append(h, x)
<1> HIDE DEF x
<1>5. v \in HopStats /\ FlagsAgree(v) /\ Untouched(v)
  BY <1>1, <1>4, FlagsStep, UntouchedStep
<1>6. MatchesHistory(v, k) /\ Totals(v, k)
  BY <1>1, <1>2, <1>4, HistoryStep
<1>7. k \in Seq(TraceResult)
  BY <1>4, Appended
<1>8. Len(k) = Len(Append(s, r))
  <2>1. Len(h) = Len(s)
    BY <1>2 DEF SameTimes
  <2>2. Len(k) = Len(h) + 1
    BY <1>4, Appended
  <2>3. Len(Append(s, r)) = Len(s) + 1
    BY Appended
  <2> QED BY <2>1, <2>2, <2>3
<1>9. Times(k) = rtts(Append(s, r))
  <2>1. Times(h) = rtts(s)
    BY <1>2 DEF SameTimes
  <2>2. Times(k) = IF trace_result_has_rtt(x) THEN Append(Times(h), x.rtt_ms) ELSE Times(h)
    BY <1>4, TimesAppend
  <2>3. rtts(Append(s, r)) = IF IsSuccess(r) THEN Append(rtts(s), r.rtt_ms) ELSE rtts(s)
    BY RttsAppend
  <2> QED BY <1>4, <2>1, <2>2, <2>3
<1> HIDE DEF v, k
<1> QED BY <1>3, <1>5, <1>6, <1>7, <1>8, <1>9 DEF Followed, SameTimes

LEMMA AllFollowed ==
  \A s \in Seq(PingResult) : Followed(Fold(RecordAnother, mtr_hop_stats_init(1), s), s)
<1> DEFINE u0 == mtr_hop_stats_init(1)
           S == {s \in Seq(PingResult) : Followed(Fold(RecordAnother, u0, s), s)}
<1>1. <<>> \in S
  <2>1. Fold(RecordAnother, u0, <<>>) = u0
    BY FoldEmpty
  <2>2. u0 \in HopStats /\ FlagsAgree(u0)
    BY EmptyStats
  <2>3. Untouched(u0)
    BY DEF mtr_hop_stats_init, Untouched
  <2>4. MatchesHistory(u0, <<>>) /\ Totals(u0, <<>>)
    BY NoResults
  <2>5. Times(<<>>) = rtts(<<>>)
    BY TimesEmpty, RttsEmpty
  <2>6. <<>> \in Seq(TraceResult) /\ <<>> \in Seq(PingResult)
    OBVIOUS
  <2> HIDE DEF u0
  <2>7. Followed(u0, <<>>)
    BY <2>2, <2>3, <2>4, <2>5, <2>6 DEF Followed, SameTimes
  <2> QED BY <2>1, <2>6, <2>7
<1>2. ASSUME NEW s \in Seq(PingResult), s \in S PROVE \A r \in PingResult : Append(s, r) \in S
  <2> SUFFICES ASSUME NEW r \in PingResult PROVE Append(s, r) \in S
    OBVIOUS
  <2> HIDE DEF u0
  <2>1. Followed(Fold(RecordAnother, u0, s), s)
    BY <1>2
  <2>2. Followed(Stepped(RecordAnother, Fold(RecordAnother, u0, s), r), Append(s, r))
    BY <2>1, FollowedStep
  <2>3. Fold(RecordAnother, u0, Append(s, r)) = Stepped(RecordAnother, Fold(RecordAnother, u0, s), r)
    BY FoldAppend
  <2> QED BY <2>2, <2>3, Appended
<1> HIDE DEF S
<1>3. Seq(PingResult) \subseteq S
  BY <1>1, <1>2, SequenceInduction
<1> QED BY <1>3 DEF S

(* What is followed agrees with the summary computed at the end. *)
LEMMA Agreement ==
  ASSUME NEW s \in Seq(PingResult), Len(s) > 0, NEW u, Followed(u, s)
  PROVE  LET p == compute_ping_stats(s, TRUE) IN
         /\ p.transmitted = u.sent /\ p.received = u.received
         /\ p.has_rtt = u.has_rtt /\ p.has_jitter = u.has_jitter
         /\ p.min_ms = u.best_ms /\ p.max_ms = u.worst_ms
         /\ p.avg_ms = u.avg_ms /\ p.jitter_ms = u.jitter_ms
         /\ p.loss_percent = <<100 * u.no_reply[1], u.no_reply[2]>>
<1> DEFINE p == compute_ping_stats(s, TRUE)
           t == rtts(s)
           n == Len(t)
           m == Len(s)
           lo == Fold(Least, t[1], t)
           hi == Fold(Greatest, t[1], t)
<1>1. t \in Seq(Nat) /\ n \in Nat /\ m \in Nat /\ m > 0
  BY RttsType
<1>2. /\ u \in HopStats /\ FlagsAgree(u) /\ Untouched(u)
      /\ u.best_ms \in Nat /\ u.worst_ms \in Nat
      /\ u.has_rtt \in BOOLEAN /\ u.has_jitter \in BOOLEAN
  BY Fields DEF Followed
<1>3. PICK h \in Seq(TraceResult) : SameTimes(h, s) /\ MatchesHistory(u, h) /\ Totals(u, h)
  BY DEF Followed
<1>4. Len(h) = m /\ Times(h) = t
  BY <1>3 DEF SameTimes
<1> DEFINE c == CountIn(h, UnansweredResult)
<1>5. c = m - n
  BY <1>3, <1>4 DEF Totals
<1>6. /\ u.sent = m /\ u.received = n
      /\ u.no_reply = <<c, m>>
      /\ n > 0 =>
           /\ u.avg_ms = <<SumOf(t), n>>
           /\ \A i \in 1..n : u.best_ms <= t[i] /\ t[i] <= u.worst_ms
           /\ \E i \in 1..n : u.best_ms = t[i]
           /\ \E i \in 1..n : u.worst_ms = t[i]
      /\ n > 1 => u.jitter_ms = <<SumOf(Gaps(t)), n - 1>>
  BY <1>1, <1>3, <1>4 DEF MatchesHistory
<1>7. /\ p.transmitted = m /\ p.received = n
      /\ p.loss_percent = <<100 * (m - n), m>>
      /\ p.has_rtt = (n # 0) /\ p.has_jitter = (n # 0 /\ n # 1)
      /\ n = 0 => p.min_ms = 0 /\ p.max_ms = 0 /\ p.avg_ms = <<0, 1>>
      /\ n <= 1 => p.jitter_ms = <<0, 1>>
      /\ n > 0 => p.min_ms = lo /\ p.max_ms = hi /\ p.avg_ms = <<SumOf(t), n>>
      /\ n > 1 => p.jitter_ms = Jitter(t)
  BY MeasuredFields
<1>8. Jitter(t) = <<SumOf(Gaps(t)), n - 1>>
  BY <1>1, StepsAreGaps DEF Jitter, Steps
<1>9. n > 0 => /\ lo \in Nat /\ hi \in Nat
               /\ \A i \in 1..n : lo <= t[i] /\ t[i] <= hi
               /\ \E i \in 1..n : lo = t[i]
               /\ \E i \in 1..n : hi = t[i]
  BY <1>1, Extremes
<1>10. \A i \in 1..n : t[i] \in Nat
  BY <1>1
<1>11. /\ u.has_rtt <=> n > 0
       /\ u.has_jitter <=> n > 1
       /\ u.has_previous_ms <=> n > 0
  BY <1>2, <1>6 DEF FlagsAgree
<1> HIDE DEF p, t, n, m, lo, hi, c
<1>12. p.has_rtt = u.has_rtt /\ p.has_jitter = u.has_jitter
  <2>1. (n > 0 <=> n # 0) /\ (n > 1 <=> n # 0 /\ n # 1)
    BY <1>1
  <2> QED BY <1>2, <1>7, <1>11, <2>1, Zenon
<1>13. p.min_ms = u.best_ms /\ p.max_ms = u.worst_ms /\ p.avg_ms = u.avg_ms
  <2>1. CASE n = 0
    <3>1. ~u.has_rtt
      BY <1>11, <2>1
    <3> QED BY <1>2, <1>7, <2>1, <3>1 DEF Untouched
  <2>2. CASE n > 0
    <3>1. PICK i \in 1..n : lo = t[i]
      BY <1>9, <2>2
    <3>2. PICK j \in 1..n : u.best_ms = t[j]
      BY <1>6, <2>2
    <3>3. lo = u.best_ms
      <4>1. lo <= t[j] /\ u.best_ms <= t[i]
        BY <1>6, <1>9, <2>2
      <4> QED BY <1>2, <1>9, <2>2, <3>1, <3>2, <4>1
    <3>4. PICK a \in 1..n : hi = t[a]
      BY <1>9, <2>2
    <3>5. PICK b \in 1..n : u.worst_ms = t[b]
      BY <1>6, <2>2
    <3>6. hi = u.worst_ms
      <4>1. t[b] <= hi /\ t[a] <= u.worst_ms
        BY <1>6, <1>9, <2>2
      <4> QED BY <1>2, <1>9, <2>2, <3>4, <3>5, <4>1
    <3> QED BY <1>6, <1>7, <2>2, <3>3, <3>6
  <2> QED BY <1>1, <2>1, <2>2
<1>14. p.jitter_ms = u.jitter_ms
  <2>1. CASE n > 1
    BY <1>6, <1>7, <1>8, <2>1
  <2>2. CASE ~(n > 1)
    <3>1. n <= 1 /\ ~u.has_jitter
      BY <1>1, <1>11, <2>2
    <3> QED BY <1>2, <1>7, <3>1 DEF Untouched
  <2> QED BY <2>1, <2>2
<1>15. p.loss_percent = <<100 * u.no_reply[1], u.no_reply[2]>>
  <2>1. p.loss_percent = <<100 * c, m>>
    BY <1>5, <1>7
  <2>2. u.no_reply[1] = c /\ u.no_reply[2] = m
    BY <1>6
  <2> QED BY <2>1, <2>2
<1>16. p.transmitted = u.sent /\ p.received = u.received
  BY <1>6, <1>7
<1> QED BY <1>12, <1>13, <1>14, <1>15, <1>16 DEF p

(* The two implementations of the same statistics agree: what ping computes  *)
(* at the end from the array is what MTR's update by update comes to over    *)
(* the same results (stats.c:37-77, mtr.c:37-80).                            *)
THEOREM PingAgreesWithMtr == Spec => []AgreesWithMtr
<1>1. IInv => AgreesWithMtr
  <2> SUFFICES ASSUME IInv, Measured PROVE AgreesWithMtr
    BY DEF AgreesWithMtr
  <2>1. results \in Seq(PingResult) /\ allocated = TRUE
    BY DEF IInv, TypeOK, Measured
  <2>2. count \in Nat \ {0}
    BY CountsAssumption DEF IInv, TypeOK
  <2>3. exit = "OK" /\ Len(results) = count
    BY DEF IInv, InOrder, Measured, Summarised
  <2>4. stats = compute_ping_stats(results, TRUE)
    BY <2>1, <2>3 DEF IInv, SummaryInPlace
  <2>5. Len(results) > 0
    BY <2>2, <2>3
  <2> DEFINE u == Fold(RecordAnother, mtr_hop_stats_init(1), results)
  <2>6. Followed(u, results)
    BY <2>1, AllFollowed
  <2> HIDE DEF u
  <2>7. /\ stats.transmitted = u.sent /\ stats.received = u.received
        /\ stats.has_rtt = u.has_rtt /\ stats.has_jitter = u.has_jitter
        /\ stats.min_ms = u.best_ms /\ stats.max_ms = u.worst_ms
        /\ stats.avg_ms = u.avg_ms /\ stats.jitter_ms = u.jitter_ms
        /\ stats.loss_percent = <<100 * u.no_reply[1], u.no_reply[2]>>
    BY <2>1, <2>4, <2>5, <2>6, Agreement, ZenonT(60)
  <2> QED BY <2>7 DEF AgreesWithMtr, u
<1> QED BY <1>1, Invariance, PTL

-----------------------------------------------------------------------------
(* The times in order. *)

LEMMA JoinedTimes ==
  \A s, t \in Seq(Nat) :
    /\ Joined(s, t) \in Seq(Nat) /\ Len(Joined(s, t)) = Len(s) + Len(t)
    /\ \A i \in 1..Len(s) : Joined(s, t)[i] = s[i]
    /\ \A i \in 1..Len(t) : Joined(s, t)[Len(s) + i] = t[i]
  BY DEF Joined

(* The elements of u with x after the first k of them. *)
PutAfter(u, k, x, a, b, v) ==
  /\ a \in Seq(Nat) /\ b \in Seq(Nat) /\ v \in Seq(Nat)
  /\ u = Joined(a, b) /\ v = Joined(Append(a, x), b)
  /\ Len(v) = Len(u) + 1 /\ v[k + 1] = x
  /\ \A i \in 1..k : v[i] = u[i]
  /\ \A i \in (k + 1)..Len(u) : v[i + 1] = u[i]

LEMMA Placed ==
  ASSUME NEW u \in Seq(Nat), NEW x \in Nat, NEW k \in Nat, k <= Len(u)
  PROVE  LET a == SubSeq(u, 1, k)  b == SubSeq(u, k + 1, Len(u)) IN
         PutAfter(u, k, x, a, b, a \o <<x>> \o b)
<1> DEFINE n == Len(u)
           a == SubSeq(u, 1, k)
           b == SubSeq(u, k + 1, n)
           c == Append(a, x)
           v == Joined(c, b)
           w == Joined(a, b)
<1>1. n \in Nat /\ k \in Nat /\ k <= n /\ n - k \in Nat
  OBVIOUS
<1>2. a \in Seq(Nat) /\ Len(a) = k /\ \A i \in 1..k : a[i] = u[i]
  OBVIOUS
<1>3. b \in Seq(Nat) /\ Len(b) = n - k /\ \A i \in 1..(n - k) : b[i] = u[k + i]
  OBVIOUS
<1>0. a \o <<x>> = Append(a, x)
  <2> HIDE DEF a
  <2> QED BY <1>2
<1>4. a \o <<x>> \o b = v
  BY <1>0, Zenon DEF Joined
<1> HIDE DEF n, a, b
<1>5. c \in Seq(Nat) /\ Len(c) = k + 1 /\ c[k + 1] = x /\ \A i \in 1..k : c[i] = a[i]
  <2>1. /\ c \in Seq(Nat) /\ Len(c) = Len(a) + 1
        /\ c[Len(a) + 1] = x /\ \A i \in 1..Len(a) : c[i] = a[i]
    BY <1>2, Appended
  <2> QED BY <1>2, <2>1
<1> HIDE DEF c
<1>t. a \in Seq(Nat) /\ b \in Seq(Nat) /\ c \in Seq(Nat)
  BY <1>2, <1>3, <1>5
<1>6. /\ v \in Seq(Nat) /\ Len(v) = Len(c) + Len(b)
      /\ \A i \in 1..Len(c) : v[i] = c[i]
      /\ \A i \in 1..Len(b) : v[Len(c) + i] = b[i]
  BY <1>t, JoinedTimes, Zenon
<1>7. /\ w \in Seq(Nat) /\ Len(w) = Len(a) + Len(b)
      /\ \A i \in 1..Len(a) : w[i] = a[i]
      /\ \A i \in 1..Len(b) : w[Len(a) + i] = b[i]
  BY <1>t, JoinedTimes, Zenon
<1> HIDE DEF v, w
<1>8. w = u
  <2>1. Len(w) = n
    BY <1>1, <1>2, <1>3, <1>7
  <2>2. (\A i \in 1..k : w[i] = u[i]) /\ \A i \in 1..(n - k) : w[k + i] = u[k + i]
    BY <1>2, <1>3, <1>7
  <2>3. ASSUME NEW i \in 1..n PROVE w[i] = u[i]
    <3>1. CASE i \in 1..k
      BY <2>2, <3>1
    <3>2. CASE ~(i \in 1..k)
      <4>1. i - k \in 1..(n - k) /\ k + (i - k) = i
        BY <1>1, <3>2
      <4>2. w[k + (i - k)] = u[k + (i - k)]
        BY <2>2, <4>1
      <4> QED BY <4>1, <4>2
    <3> QED BY <3>1, <3>2
  <2> QED BY <1>7, <2>1, <2>3, SameSequence DEF n
<1>9. Len(v) = n + 1 /\ v[k + 1] = x /\ \A i \in 1..k : v[i] = u[i]
  <2>1. k + 1 \in 1..(k + 1) /\ 1..k \subseteq 1..(k + 1)
    BY <1>1
  <2>2. Len(c) + Len(b) = n + 1
    BY <1>1, <1>3, <1>5
  <2>3. v[k + 1] = c[k + 1]
    BY <1>5, <1>6, <2>1
  <2>4. \A i \in 1..k : v[i] = c[i]
    BY <1>5, <1>6, <2>1
  <2> QED BY <1>2, <1>5, <1>6, <2>2, <2>3, <2>4
<1>10. ASSUME NEW i \in (k + 1)..n PROVE v[i + 1] = u[i]
  <2>1. i - k \in 1..(n - k) /\ Len(c) + (i - k) = i + 1 /\ k + (i - k) = i
    BY <1>1, <1>5
  <2>2. v[Len(c) + (i - k)] = b[i - k]
    BY <1>3, <1>6, <2>1
  <2>3. b[i - k] = u[k + (i - k)]
    BY <1>3, <2>1
  <2> QED BY <2>1, <2>2, <2>3
<1>11. u = Joined(a, b) /\ v = Joined(Append(a, x), b)
  BY <1>8 DEF v, w, c
<1>12. PutAfter(u, k, x, a, b, v)
  BY <1>2, <1>3, <1>6, <1>9, <1>10, <1>11 DEF PutAfter, n
<1> QED BY <1>4, <1>12 DEF a, b, n

LEMMA InsertedKeepsOrder ==
  ASSUME NEW u \in Seq(Nat), Ordered(u), NEW x \in Nat
  PROVE  LET v == Inserted(u, x) IN
         /\ v \in Seq(Nat) /\ Ordered(v) /\ Len(v) = Len(u) + 1
         /\ \A y \in Nat : CountIn(v, 0..y) = CountIn(u, 0..y) + (IF x <= y THEN 1 ELSE 0)
         /\ \A i \in 1..Len(v) : v[i] = x \/ \E j \in 1..Len(u) : v[i] = u[j]
<1> DEFINE k == CountIn(u, 0..x)
           n == Len(u)
           a == SubSeq(u, 1, k)
           b == SubSeq(u, k + 1, Len(u))
           v == a \o <<x>> \o b
<1>1. k \in Nat /\ n \in Nat /\ (\A i \in 1..n : u[i] \in Nat)
  <2>1. k \in Nat
    BY CountType
  <2>2. n \in Nat /\ (\A i \in 1..n : u[i] \in Nat)
    OBVIOUS
  <2> QED BY <2>1, <2>2
<1>2. \A i \in 1..n : (u[i] <= x => i <= k) /\ (x < u[i] => k < i)
  BY CountOrdered
<1>3. k <= n
  BY CountBound
<1>0. v = Inserted(u, x)
  BY DEF Inserted
<1> HIDE DEF k
<1>5. PutAfter(u, k, x, a, b, v)
  BY <1>1, <1>3, Placed
<1> HIDE DEF a, b, v
<1>4. /\ a \in Seq(Nat) /\ b \in Seq(Nat) /\ v \in Seq(Nat)
      /\ u = Joined(a, b) /\ v = Joined(Append(a, x), b)
      /\ Len(v) = n + 1 /\ v[k + 1] = x
      /\ \A i \in 1..k : v[i] = u[i]
      /\ \A i \in (k + 1)..n : v[i + 1] = u[i]
  BY <1>5 DEF PutAfter
<1>t. a \in Seq(Nat) /\ b \in Seq(Nat) /\ v \in Seq(Nat) /\ Append(a, x) \in Seq(Nat)
  <2>1. a \in Seq(Nat) /\ b \in Seq(Nat) /\ v \in Seq(Nat)
    BY <1>4
  <2> QED BY <2>1, Appended
<1>s. u = Joined(a, b) /\ v = Joined(Append(a, x), b)
  BY <1>4
<1>6. ASSUME NEW y \in Nat
      PROVE  CountIn(v, 0..y) = CountIn(u, 0..y) + (IF x <= y THEN 1 ELSE 0)
  <2> DEFINE upto == 0..y
  <2>0. x \in upto <=> x <= y
    OBVIOUS
  <2> HIDE DEF upto
  <2>1. CountIn(v, upto) = CountIn(Append(a, x), upto) + CountIn(b, upto)
    BY <1>s, <1>t, CountJoined
  <2>2. CountIn(Append(a, x), upto) = CountIn(a, upto) + (IF x \in upto THEN 1 ELSE 0)
    BY <1>t, CountAppend
  <2>3. CountIn(u, upto) = CountIn(a, upto) + CountIn(b, upto)
    BY <1>s, <1>t, CountJoined
  <2>4. CountIn(a, upto) \in Nat /\ CountIn(b, upto) \in Nat
    BY <1>t, CountType
  <2>5. CountIn(v, upto) = CountIn(u, upto) + (IF x \in upto THEN 1 ELSE 0)
    BY <2>1, <2>2, <2>3, <2>4
  <2> QED BY <2>0, <2>5 DEF upto
<1>7. \A i \in 1..(n + 1) : \/ i \in 1..k /\ v[i] = u[i] /\ u[i] <= x
                            \/ i = k + 1 /\ v[i] = x
                            \/ i - 1 \in (k + 1)..n /\ v[i] = u[i - 1] /\ x < u[i - 1]
  <2> TAKE i \in 1..(n + 1)
  <2>1. CASE i \in 1..k
    <3>1. i \in 1..n /\ ~(k < i)
      BY <1>1, <1>3, <2>1
    <3>2. u[i] \in Nat /\ ~(x < u[i])
      BY <1>1, <1>2, <3>1
    <3> QED BY <1>4, <2>1, <3>2, SMTT(30)
  <2>2. CASE i = k + 1
    BY <1>4, <2>2
  <2>3. CASE i > k + 1
    <3>1. i - 1 \in (k + 1)..n /\ i - 1 \in 1..n /\ ~(i - 1 <= k) /\ (i - 1) + 1 = i
      BY <1>1, <1>3, <2>3
    <3>2. u[i - 1] \in Nat /\ ~(u[i - 1] <= x)
      BY <1>1, <1>2, <3>1
    <3>3. v[(i - 1) + 1] = u[i - 1]
      BY <1>4, <3>1
    <3> QED BY <3>1, <3>2, <3>3
  <2> QED BY <1>1, <2>1, <2>2, <2>3
<1>8. Ordered(v)
  <2> SUFFICES ASSUME NEW i \in 1..(n + 1), NEW j \in 1..(n + 1), i <= j PROVE v[i] <= v[j]
    BY <1>4 DEF Ordered
  <2>1. \A p, q \in 1..n : p <= q => u[p] <= u[q]
    BY DEF Ordered
  <2>2. 1..k \subseteq 1..n /\ (k + 1)..n \subseteq 1..n
    BY <1>1, <1>3
  <2>3. v[i] \in Nat /\ v[j] \in Nat
    <3>1. Len(v) = n + 1
      BY <1>4
    <3> QED BY <1>t, <3>1
  <2>4. CASE i \in 1..k
    <3>1. v[i] = u[i] /\ u[i] <= x /\ i \in 1..n /\ u[i] \in Nat
      <4>1. i # k + 1 /\ ~(i - 1 \in (k + 1)..n)
        BY <1>1, <2>4
      <4> QED BY <1>1, <1>7, <2>2, <2>4, <4>1
    <3>2. CASE j \in 1..k
      <4>1. v[j] = u[j] /\ j \in 1..n
        BY <1>4, <2>2, <3>2
      <4> QED BY <2>1, <3>1, <4>1
    <3>3. CASE ~(j \in 1..k)
      <4>1. v[j] = x \/ x < v[j]
        BY <1>7, <3>3
      <4> QED BY <2>3, <3>1, <4>1
    <3> QED BY <3>2, <3>3
  <2>5. CASE i = k + 1
    <3>1. ~(j \in 1..k)
      BY <1>1, <2>5
    <3>2. v[j] = x \/ x < v[j]
      BY <1>7, <3>1
    <3> QED BY <1>4, <2>3, <2>5, <3>2
  <2>6. CASE i - 1 \in (k + 1)..n
    <3>1. ~(i \in 1..k) /\ i # k + 1 /\ ~(j \in 1..k) /\ j # k + 1
      BY <1>1, <2>6
    <3>2. v[i] = u[i - 1] /\ v[j] = u[j - 1] /\ j - 1 \in (k + 1)..n
      BY <1>7, <3>1
    <3>3. i - 1 \in 1..n /\ j - 1 \in 1..n /\ i - 1 <= j - 1
      BY <2>2, <2>6, <3>2
    <3> QED BY <2>1, <3>2, <3>3
  <2> QED BY <1>7, <2>4, <2>5, <2>6
<1>9. \A i \in 1..(n + 1) : v[i] = x \/ \E j \in 1..n : v[i] = u[j]
  <2> TAKE i \in 1..(n + 1)
  <2>1. 1..k \subseteq 1..n /\ (k + 1)..n \subseteq 1..n
    BY <1>1, <1>3
  <2> QED BY <1>7, <2>1
<1>10. Len(v) = n + 1
  BY <1>4
<1> QED BY <1>0, <1>t, <1>6, <1>8, <1>9, <1>10

(* What sorting keeps: the number of times up to any bound, and that every   *)
(* element is one of the times.                                              *)
InOrderOf(u, t) ==
  /\ u \in Seq(Nat) /\ Ordered(u) /\ Len(u) = Len(t)
  /\ \A y \in Nat : CountIn(u, 0..y) = CountIn(t, 0..y)
  /\ \A i \in 1..Len(u) : \E j \in 1..Len(t) : u[i] = t[j]

LEMMA SortedInOrder == \A t \in Seq(Nat) : InOrderOf(sorted(t), t)
<1> DEFINE S == {t \in Seq(Nat) : InOrderOf(sorted(t), t)}
<1>1. <<>> \in S
  <2>1. sorted(<<>>) = <<>>
    BY FoldEmpty DEF sorted
  <2>2. <<>> \in Seq(Nat) /\ 1..Len(<<>>) = {}
    OBVIOUS
  <2> QED BY <2>1, <2>2 DEF InOrderOf, Ordered
<1>2. ASSUME NEW t \in Seq(Nat), InOrderOf(sorted(t), t), NEW x \in Nat
      PROVE  InOrderOf(sorted(Append(t, x)), Append(t, x))
  <2> DEFINE u == sorted(t)
             w == Append(t, x)
             v == sorted(w)
  <2>1. v = Stepped(Insert, u, x)
    BY FoldAppend DEF sorted
  <2>2. /\ u \in Seq(Nat) /\ Ordered(u) /\ Len(u) = Len(t)
        /\ \A y \in Nat : CountIn(u, 0..y) = CountIn(t, 0..y)
        /\ \A i \in 1..Len(u) : \E j \in 1..Len(t) : u[i] = t[j]
    BY <1>2 DEF InOrderOf
  <2>3. /\ Len(w) = Len(t) + 1 /\ Len(t) \in Nat /\ w[Len(t) + 1] = x
        /\ \A i \in 1..Len(t) : w[i] = t[i]
    BY Appended
  <2>4. ASSUME NEW y \in Nat
        PROVE  CountIn(w, 0..y) = CountIn(t, 0..y) + (IF x <= y THEN 1 ELSE 0)
    <3>1. CountIn(w, 0..y) = CountIn(t, 0..y) + (IF x \in 0..y THEN 1 ELSE 0)
      BY CountAppend
    <3>2. x \in 0..y <=> x <= y
      OBVIOUS
    <3> QED BY <3>1, <3>2
  <2> HIDE DEF u, v, w
  <2>5. v = Inserted(u, x)
    BY <2>1, <2>2 DEF Stepped, Insert
  <2>6. /\ v \in Seq(Nat) /\ Ordered(v) /\ Len(v) = Len(u) + 1
        /\ \A y \in Nat : CountIn(v, 0..y) = CountIn(u, 0..y) + (IF x <= y THEN 1 ELSE 0)
        /\ \A i \in 1..Len(v) : v[i] = x \/ \E j \in 1..Len(u) : v[i] = u[j]
    BY <2>2, <2>5, InsertedKeepsOrder
  <2>7. \A i \in 1..Len(v) : \E j \in 1..Len(w) : v[i] = w[j]
    <3> TAKE i \in 1..Len(v)
    <3>1. CASE v[i] = x
      <4>1. Len(t) + 1 \in 1..Len(w)
        BY <2>3
      <4> QED BY <2>3, <3>1, <4>1
    <3>2. ASSUME NEW j \in 1..Len(u), v[i] = u[j] PROVE \E l \in 1..Len(w) : v[i] = w[l]
      <4>1. PICK l \in 1..Len(t) : u[j] = t[l]
        BY <2>2
      <4>2. l \in 1..Len(w) /\ w[l] = t[l]
        BY <2>3
      <4> QED BY <3>2, <4>1, <4>2
    <3> QED BY <2>6, <3>1, <3>2
  <2>8. Len(v) = Len(w)
    BY <2>2, <2>3, <2>6
  <2>9. \A y \in Nat : CountIn(v, 0..y) = CountIn(w, 0..y)
    BY <2>2, <2>4, <2>6
  <2>10. InOrderOf(v, w)
    BY <2>6, <2>7, <2>8, <2>9 DEF InOrderOf
  <2> QED BY <2>10 DEF v, w
<1>3. ASSUME NEW t \in Seq(Nat), t \in S PROVE \A x \in Nat : Append(t, x) \in S
  BY <1>2, <1>3, Appended
<1> HIDE DEF S
<1>4. Seq(Nat) \subseteq S
  BY <1>1, <1>3, SequenceInduction
<1> QED BY <1>4 DEF S

(* 95 hundredths of n, rounded up, and one less is not enough. *)
LEMMA RankBounds ==
  ASSUME NEW n \in Nat, n > 0
  PROVE  /\ rank(n) \in 1..n
         /\ 95 * n <= 100 * rank(n)
         /\ 100 * (rank(n) - 1) < 95 * n
<1> DEFINE q == (95 * n + 99) \div 100
<1>1. q \in Nat /\ 100 * q <= 95 * n + 99 /\ 95 * n + 99 < 100 * q + 100
  BY SMT
<1>2. rank(n) = IF 1 > q THEN 1 ELSE q
  BY DEF rank, Larger
<1> HIDE DEF q
<1>3. q <= n /\ q > 0
  BY <1>1
<1>4. rank(n) = q
  BY <1>1, <1>2, <1>3
<1> QED BY <1>1, <1>3, <1>4

LEMMA Percentile ==
  ASSUME NEW t \in Seq(Nat), Len(t) > 0
  PROVE  LET p == p95(t)  n == Len(t) IN
         /\ p \in Nat
         /\ \E i \in 1..n : p = t[i]
         /\ 95 * n <= 100 * CountIn(t, 0..p)
         /\ \A x \in Nat : x < p => 100 * CountIn(t, 0..x) < 95 * n
<1> DEFINE n == Len(t)
           u == sorted(t)
           k == rank(n)
           p == u[k]
<1>1. n \in Nat /\ n > 0
  OBVIOUS
<1>2. k \in 1..n /\ 95 * n <= 100 * k /\ 100 * (k - 1) < 95 * n
  BY <1>1, RankBounds
<1>3. /\ u \in Seq(Nat) /\ Ordered(u) /\ Len(u) = n
      /\ \A y \in Nat : CountIn(u, 0..y) = CountIn(t, 0..y)
      /\ \A i \in 1..Len(u) : \E j \in 1..n : u[i] = t[j]
  BY SortedInOrder DEF InOrderOf
<1>0. p95(t) = p
  BY DEF p95
<1> HIDE DEF u, k
<1>4. u \in Seq(Nat) /\ k \in 1..Len(u) /\ Ordered(u)
  BY <1>2, <1>3
<1>5. p \in Nat
  BY <1>4
<1>6. \A y \in Nat : /\ CountIn(t, 0..y) = CountIn(u, 0..y) /\ CountIn(t, 0..y) \in Nat
                     /\ p <= y => k <= CountIn(u, 0..y)
                     /\ y < p => CountIn(u, 0..y) < k
  BY <1>3, <1>4, CountOrdered, CountType
<1>7. \E i \in 1..n : p = t[i]
  BY <1>3, <1>4
<1> HIDE DEF p, n
<1>8. 95 * n <= 100 * CountIn(t, 0..p)
  <2>1. k <= CountIn(t, 0..p) /\ CountIn(t, 0..p) \in Nat
    BY <1>5, <1>6, SMTT(30)
  <2> QED BY <1>1, <1>2, <2>1
<1>9. ASSUME NEW x \in Nat, x < p PROVE 100 * CountIn(t, 0..x) < 95 * n
  <2>1. CountIn(t, 0..x) < k /\ CountIn(t, 0..x) \in Nat
    BY <1>6, <1>9
  <2> QED BY <1>1, <1>2, <2>1
<1> QED BY <1>0, <1>5, <1>7, <1>8, <1>9 DEF n

(* The answers within x are counted by their times. *)
Quick(x) == [status : {"SUCCESS"}, rtt_ms : 0..x]

LEMMA QuickAnswer ==
  ASSUME NEW r \in PingResult, NEW x \in Nat
  PROVE  r \in Quick(x) <=> IsSuccess(r) /\ r.rtt_ms \in 0..x
  BY ResultStatus DEF Quick, IsSuccess

LEMMA QuickCounted ==
  ASSUME NEW x \in Nat
  PROVE  \A s \in Seq(PingResult) : CountIn(s, Quick(x)) = CountIn(rtts(s), 0..x)
<1> DEFINE upto == 0..x
           S == {s \in Seq(PingResult) : CountIn(s, Quick(x)) = CountIn(rtts(s), upto)}
<1>0. \A r \in PingResult : r \in Quick(x) <=> IsSuccess(r) /\ r.rtt_ms \in upto
  BY QuickAnswer
<1> HIDE DEF upto
<1>1. <<>> \in S
  <2>1. <<>> \in Seq(PingResult)
    OBVIOUS
  <2> QED BY <2>1, RttsEmpty, CountEmpty
<1>2. ASSUME NEW s \in Seq(PingResult), s \in S PROVE \A r \in PingResult : Append(s, r) \in S
  <2> SUFFICES ASSUME NEW r \in PingResult
               PROVE  CountIn(Append(s, r), Quick(x)) = CountIn(rtts(Append(s, r)), upto)
    BY Appended
  <2>1. CountIn(Append(s, r), Quick(x)) = CountIn(s, Quick(x)) + (IF r \in Quick(x) THEN 1 ELSE 0)
    BY CountAppend
  <2>2. rtts(Append(s, r)) = IF IsSuccess(r) THEN Append(rtts(s), r.rtt_ms) ELSE rtts(s)
    BY RttsAppend
  <2>3. CountIn(s, Quick(x)) = CountIn(rtts(s), upto) /\ CountIn(s, Quick(x)) \in Nat
    BY <1>2, CountType
  <2>4. CASE IsSuccess(r)
    <3>1. rtts(s) \in Seq(Nat) /\ r.rtt_ms \in Nat
      BY RttsType, ResultStatus
    <3>2. CountIn(Append(rtts(s), r.rtt_ms), upto)
            = CountIn(rtts(s), upto) + (IF r.rtt_ms \in upto THEN 1 ELSE 0)
      BY <3>1, CountAppend
    <3>3. r \in Quick(x) <=> r.rtt_ms \in upto
      BY <1>0, <2>4
    <3> QED BY <2>1, <2>2, <2>3, <2>4, <3>2, <3>3
  <2>5. CASE ~IsSuccess(r)
    <3>1. ~(r \in Quick(x))
      BY <1>0, <2>5
    <3> QED BY <2>1, <2>2, <2>3, <2>5, <3>1
  <2> QED BY <2>4, <2>5
<1> HIDE DEF S
<1>3. Seq(PingResult) \subseteq S
  BY <1>1, <1>2, SequenceInduction
<1> QED BY <1>3 DEF S, upto

LEMMA TimeOfAnswer ==
  \A s \in Seq(PingResult) :
    \A i \in 1..Len(rtts(s)) :
      \E j \in 1..Len(s) : s[j] = [status |-> "SUCCESS", rtt_ms |-> rtts(s)[i]]
<1> DEFINE Good(s) ==
             \A i \in 1..Len(rtts(s)) :
               \E j \in 1..Len(s) : s[j] = [status |-> "SUCCESS", rtt_ms |-> rtts(s)[i]]
           S == {s \in Seq(PingResult) : Good(s)}
<1>1. <<>> \in S
  <2>1. <<>> \in Seq(PingResult) /\ 1..Len(<<>>) = {}
    OBVIOUS
  <2> QED BY <2>1, RttsEmpty
<1>2. ASSUME NEW s \in Seq(PingResult), Good(s), NEW r \in PingResult PROVE Good(Append(s, r))
  <2> DEFINE u == Append(s, r)
             t == rtts(s)
             n == Len(t)
  <2>1. /\ Len(u) = Len(s) + 1 /\ Len(s) \in Nat /\ u[Len(s) + 1] = r
        /\ \A j \in 1..Len(s) : u[j] = s[j]
    BY Appended
  <2>2. t \in Seq(Nat) /\ r.rtt_ms \in Nat
    BY RttsType, ResultStatus
  <2>3. rtts(u) = IF IsSuccess(r) THEN Append(t, r.rtt_ms) ELSE t
    BY RttsAppend
  <2>4. /\ n \in Nat /\ Len(Append(t, r.rtt_ms)) = n + 1
        /\ Append(t, r.rtt_ms)[n + 1] = r.rtt_ms
        /\ \A i \in 1..n : Append(t, r.rtt_ms)[i] = t[i]
    BY <2>2, Appended
  <2> SUFFICES ASSUME NEW i \in 1..Len(rtts(u))
               PROVE  \E j \in 1..Len(u) : u[j] = [status |-> "SUCCESS", rtt_ms |-> rtts(u)[i]]
    OBVIOUS
  <2>5. ASSUME i \in 1..n, rtts(u)[i] = t[i]
        PROVE  \E j \in 1..Len(u) : u[j] = [status |-> "SUCCESS", rtt_ms |-> rtts(u)[i]]
    <3>1. PICK j \in 1..Len(s) : s[j] = [status |-> "SUCCESS", rtt_ms |-> t[i]]
      BY <1>2, <2>5
    <3>2. j \in 1..Len(u) /\ u[j] = s[j]
      BY <2>1
    <3> QED BY <2>5, <3>1, <3>2
  <2>6. ASSUME IsSuccess(r), i = n + 1
        PROVE  \E j \in 1..Len(u) : u[j] = [status |-> "SUCCESS", rtt_ms |-> rtts(u)[i]]
    <3>1. rtts(u)[i] = r.rtt_ms
      BY <2>3, <2>4, <2>6
    <3>2. r = [status |-> "SUCCESS", rtt_ms |-> r.rtt_ms]
      BY <2>6, ResultStatus DEF IsSuccess
    <3>3. Len(s) + 1 \in 1..Len(u)
      BY <2>1
    <3> QED BY <2>1, <3>1, <3>2, <3>3
  <2>7. CASE IsSuccess(r)
    <3>1. Len(rtts(u)) = n + 1
      BY <2>3, <2>4, <2>7
    <3>2. i \in 1..n \/ i = n + 1
      BY <2>4, <3>1
    <3>3. i \in 1..n => rtts(u)[i] = t[i]
      BY <2>3, <2>4, <2>7
    <3> QED BY <2>5, <2>6, <2>7, <3>2, <3>3
  <2>8. CASE ~IsSuccess(r)
    <3>1. rtts(u) = t
      BY <2>3, <2>8
    <3> QED BY <2>5, <3>1
  <2> QED BY <2>7, <2>8
<1> HIDE DEF Good
<1>3. ASSUME NEW s \in Seq(PingResult), s \in S PROVE \A r \in PingResult : Append(s, r) \in S
  BY <1>2, <1>3, Appended
<1> HIDE DEF S
<1>4. Seq(PingResult) \subseteq S
  BY <1>1, <1>3, SequenceInduction
<1> QED BY <1>4 DEF S, Good

-----------------------------------------------------------------------------
(* The variance. *)

SquaresFrom(n, total, t) == [i \in 1..Len(t) |-> (n * t[i] - total) * (n * t[i] - total)]

LEMMA SquareType == \A z \in Int : z * z \in Nat
  BY SMT

LEMMA SquaresFromType ==
  ASSUME NEW n \in Nat, NEW total \in Nat, NEW t \in Seq(Nat)
  PROVE  SquaresFrom(n, total, t) \in Seq(Nat) /\ Len(SquaresFrom(n, total, t)) = Len(t)
<1> DEFINE q == SquaresFrom(n, total, t)
<1>1. ASSUME NEW i \in 1..Len(t) PROVE (n * t[i] - total) * (n * t[i] - total) \in Nat
  <2>1. t[i] \in Nat
    OBVIOUS
  <2>2. n * t[i] - total \in Int
    BY <2>1
  <2> QED BY <2>2, SquareType
<1>2. Len(t) \in Nat
  OBVIOUS
<1>3. q \in [1..Len(t) -> Nat]
  BY <1>1 DEF SquaresFrom
<1> HIDE DEF q
<1>4. q \in Seq(Nat) /\ Len(q) = Len(t)
  BY <1>2, <1>3
<1> QED BY <1>4 DEF q

LEMMA SquaresFromAppend ==
  ASSUME NEW n \in Nat, NEW total \in Nat, NEW t \in Seq(Nat), NEW x \in Nat
  PROVE  SquaresFrom(n, total, Append(t, x))
           = Append(SquaresFrom(n, total, t), (n * x - total) * (n * x - total))
<1> DEFINE u == Append(t, x)
           d == (n * x - total) * (n * x - total)
           q == SquaresFrom(n, total, t)
           p == SquaresFrom(n, total, u)
           v == Append(q, d)
           m == Len(t)
<1>1. u \in Seq(Nat) /\ Len(u) = m + 1 /\ m \in Nat /\ u[m + 1] = x /\ \A i \in 1..m : u[i] = t[i]
  BY Appended
<1>2. d \in Nat
  <2>1. n * x - total \in Int
    OBVIOUS
  <2> QED BY <2>1, SquareType
<1>3. /\ \A i \in 1..m : q[i] = (n * t[i] - total) * (n * t[i] - total)
      /\ \A i \in 1..Len(u) : p[i] = (n * u[i] - total) * (n * u[i] - total)
  BY DEF SquaresFrom
<1> HIDE DEF u
<1>4. q \in Seq(Nat) /\ Len(q) = m /\ p \in Seq(Nat) /\ Len(p) = Len(u)
  BY <1>1, SquaresFromType
<1>d. d = (n * x - total) * (n * x - total)
  OBVIOUS
<1> HIDE DEF d, p, q
<1>5. v \in Seq(Nat) /\ Len(v) = m + 1 /\ v[m + 1] = d /\ \A i \in 1..m : v[i] = q[i]
  BY <1>1, <1>2, <1>4, Appended
<1> HIDE DEF v
<1>6. ASSUME NEW i \in 1..Len(p) PROVE p[i] = v[i]
  <2>1. i \in 1..m \/ i = m + 1
    BY <1>1, <1>4
  <2>2. CASE i \in 1..m
    <3>1. i \in 1..Len(u) /\ u[i] = t[i]
      BY <1>1, <2>2
    <3> QED BY <1>3, <1>5, <2>2, <3>1
  <2>3. CASE i = m + 1
    <3>1. m + 1 \in 1..Len(u)
      BY <1>1
    <3>2. p[m + 1] = (n * u[m + 1] - total) * (n * u[m + 1] - total)
      BY <1>3, <3>1
    <3> QED BY <1>1, <1>5, <1>d, <2>3, <3>2
  <2> QED BY <2>1, <2>2, <2>3
<1>7. p = v
  <2>1. Len(p) = Len(v)
    BY <1>1, <1>4, <1>5
  <2> QED BY <1>4, <1>5, <1>6, <2>1, SameSequence
<1> QED BY <1>7 DEF p, v, q, d, u

(* A square lies below the chord between the ends of its interval. *)
LEMMA BelowTheChord ==
  ASSUME NEW a \in Int, NEW b \in Int, NEW c \in Int, NEW y \in Int, a <= y, y <= b
  PROVE  (y - c) * (y - c) <= (a + b - 2 * c) * y + (c * c - a * b)
<1>1. (y - a) * (b - y) >= 0
  <2>1. y - a \in Nat /\ b - y \in Nat
    OBVIOUS
  <2>2. \A p, q \in Nat : p * q >= 0
    BY SMT
  <2> QED BY <2>1, <2>2
<1>2. (a + b - 2 * c) * y + (c * c - a * b) - (y - c) * (y - c) = (y - a) * (b - y)
  BY SMT
<1>3. (y - c) * (y - c) \in Int /\ (a + b - 2 * c) * y + (c * c - a * b) \in Int
  BY SMT
<1> QED BY <1>1, <1>2, <1>3, SMT

LEMMA SumBelowTheChord ==
  ASSUME NEW n \in Nat, NEW total \in Nat, NEW lo \in Nat, NEW hi \in Nat
  PROVE  LET a == n * lo  b == n * hi
             slope == a + b - 2 * total  level == total * total - a * b IN
         \A t \in Seq(Nat) :
           (\A i \in 1..Len(t) : lo <= t[i] /\ t[i] <= hi) =>
             SumOf(SquaresFrom(n, total, t)) <= slope * (n * SumOf(t)) + level * Len(t)
<1> DEFINE a == n * lo
           b == n * hi
           slope == a + b - 2 * total
           level == total * total - a * b
           Within01(t) == \A i \in 1..Len(t) : lo <= t[i] /\ t[i] <= hi
           Good(t) ==
             SumOf(SquaresFrom(n, total, t)) <= slope * (n * SumOf(t)) + level * Len(t)
           S == {t \in Seq(Nat) : Within01(t) => Good(t)}
<1>0. a \in Int /\ b \in Int /\ slope \in Int /\ level \in Int
  BY SMT
<1>1. ASSUME NEW x \in Nat, lo <= x, x <= hi
      PROVE  (n * x - total) * (n * x - total) <= slope * (n * x) + level
  <2>1. a <= n * x /\ n * x <= b /\ n * x \in Int
    <3>1. lo * n <= x * n /\ x * n <= hi * n
      BY <1>1, TimesMonotonic
    <3>2. lo * n = n * lo /\ x * n = n * x /\ hi * n = n * hi
      BY SMT
    <3>3. n * x \in Int
      BY SMT
    <3> QED BY <3>1, <3>2, <3>3
  <2> QED BY <1>0, <2>1, BelowTheChord
<1> HIDE DEF a, b, slope, level
<1>2. <<>> \in S
  <2>1. SquaresFrom(n, total, <<>>) = <<>>
    <3>1. <<>> \in Seq(Nat) /\ Len(<<>>) = 0
      OBVIOUS
    <3>2. SquaresFrom(n, total, <<>>) \in Seq(Nat) /\ Len(SquaresFrom(n, total, <<>>)) = 0
      BY <3>1, SquaresFromType
    <3> QED BY <3>2
  <2>2. Len(<<>>) = 0 /\ <<>> \in Seq(Nat)
    OBVIOUS
  <2>3. slope * (n * 0) + level * 0 = 0
    BY <1>0
  <2> QED BY <2>1, <2>2, <2>3, SumEmpty
<1>3. ASSUME NEW t \in Seq(Nat), Within01(t) => Good(t), NEW x \in Nat, Within01(Append(t, x))
      PROVE  Good(Append(t, x))
  <2> DEFINE u == Append(t, x)
             m == Len(t)
             d == (n * x - total) * (n * x - total)
             q == SumOf(SquaresFrom(n, total, t))
             s == SumOf(t)
  <2>1. u \in Seq(Nat) /\ Len(u) = m + 1 /\ m \in Nat /\ u[m + 1] = x /\ \A i \in 1..m : u[i] = t[i]
    BY Appended
  <2>2. Within01(t) /\ lo <= x /\ x <= hi
    <3>1. m + 1 \in 1..Len(u) /\ \A i \in 1..m : i \in 1..Len(u)
      BY <2>1
    <3> HIDE DEF u
    <3>2. \A i \in 1..Len(u) : lo <= u[i] /\ u[i] <= hi
      BY <1>3 DEF u
    <3> QED BY <2>1, <3>1, <3>2
  <2>3. q <= slope * (n * s) + level * m
    BY <1>3, <2>2
  <2>4. s \in Nat /\ SumOf(u) = s + x
    BY SumType, SumAppend
  <2>5. d \in Nat
    <3>1. n * x - total \in Int
      OBVIOUS
    <3> QED BY <3>1, SquareType
  <2>6. q \in Nat /\ SumOf(SquaresFrom(n, total, u)) = q + d
    <3>1. SquaresFrom(n, total, t) \in Seq(Nat)
      BY SquaresFromType
    <3>2. SquaresFrom(n, total, u) = Append(SquaresFrom(n, total, t), d)
      BY SquaresFromAppend, ZenonT(60)
    <3> QED BY <2>5, <3>1, <3>2, SumType, SumAppend
  <2>7. d <= slope * (n * x) + level
    BY <1>1, <2>2
  <2> HIDE DEF u, d, q, s, m
  <2>8. slope * (n * (s + x)) + level * (m + 1)
          = (slope * (n * s) + level * m) + (slope * (n * x) + level)
    BY <1>0, <2>1, <2>4, SMT
  <2>9. slope * (n * s) + level * m \in Int /\ slope * (n * x) + level \in Int
    BY <1>0, <2>1, <2>4, SMT
  <2>10. q + d <= (slope * (n * s) + level * m) + (slope * (n * x) + level)
    BY <2>3, <2>5, <2>6, <2>7, <2>9
  <2>11. SumOf(SquaresFrom(n, total, u)) <= slope * (n * SumOf(u)) + level * Len(u)
    BY <2>1, <2>4, <2>6, <2>8, <2>10
  <2> QED BY <2>11 DEF u
<1> HIDE DEF Good
<1>4. ASSUME NEW t \in Seq(Nat), t \in S PROVE \A x \in Nat : Append(t, x) \in S
  <2>1. Within01(t) => Good(t)
    BY <1>4
  <2>2. \A x \in Nat : Within01(Append(t, x)) => Good(Append(t, x))
    BY <1>3, <2>1, Zenon
  <2>3. \A x \in Nat : Append(t, x) \in Seq(Nat)
    OBVIOUS
  <2> QED BY <2>2, <2>3, Zenon
<1> HIDE DEF S
<1>5. Seq(Nat) \subseteq S
  BY <1>2, <1>4, SequenceInduction
<1> QED BY <1>5 DEF S, Good, a, b, slope, level

(* The chord at the mean: four times the variance is at most the square of   *)
(* the width.                                                                *)
LEMMA HalfTheWidth ==
  ASSUME NEW n \in Nat, NEW a \in Int, NEW b \in Int, NEW c \in Int, NEW v \in Int,
         v <= (a + b - 2 * c) * (n * c) + (c * c - a * b) * n
  PROVE  4 * v <= n * ((b - a) * (b - a))
<1> DEFINE e == (a + b - 2 * c) * (n * c) + (c * c - a * b) * n
           f == n * ((a + b - 2 * c) * (a + b - 2 * c))
           g == n * ((b - a) * (b - a))
<1>1. g - 4 * e = f
  BY SMT
<1>2. f >= 0
  <2>1. a + b - 2 * c \in Int
    OBVIOUS
  <2>2. (a + b - 2 * c) * (a + b - 2 * c) \in Nat
    BY <2>1, SquareType
  <2>3. \A p, q \in Nat : p * q >= 0
    BY SMT
  <2> QED BY <2>2, <2>3
<1>3. e \in Int /\ f \in Int /\ g \in Int
  BY SMT
<1>4. v <= e
  OBVIOUS
<1> HIDE DEF e, f, g
<1>5. 4 * v <= g
  BY <1>1, <1>2, <1>3, <1>4
<1> QED BY <1>5 DEF g

LEMMA VarianceBounded ==
  ASSUME NEW t \in Seq(Nat), Len(t) > 0, NEW lo \in Nat, NEW hi \in Nat,
         \A i \in 1..Len(t) : lo <= t[i] /\ t[i] <= hi
  PROVE  4 * Variance(t)[1] <= (hi - lo) * (hi - lo) * Variance(t)[2]
<1> DEFINE n == Len(t)
           c == SumOf(t)
           a == n * lo
           b == n * hi
           v == SumOf(SquaresFrom(n, c, t))
<1>1. n \in Nat /\ c \in Nat
  BY SumType
<1>2. Variance(t)[1] = v /\ Variance(t)[2] = n * n * n
  BY DEF Variance, SquaresFrom
<1>3. v \in Nat
  BY <1>1, SquaresFromType, SumType
<1>4. v <= (a + b - 2 * c) * (n * c) + (c * c - a * b) * n
  BY <1>1, SumBelowTheChord
<1> HIDE DEF v, c, n
<1>5. a \in Int /\ b \in Int
  BY <1>1, SMT
<1>6. n * ((b - a) * (b - a)) = (hi - lo) * (hi - lo) * (n * n * n)
  BY <1>1, SMT
<1> HIDE DEF a, b
<1>7. 4 * v <= n * ((b - a) * (b - a))
  BY <1>1, <1>3, <1>4, <1>5, HalfTheWidth
<1> QED BY <1>2, <1>6, <1>7

(* No variance, no width. *)
LEMMA NoVariance ==
  ASSUME NEW t \in Seq(Nat), Len(t) > 0, Variance(t)[1] = 0,
         NEW i \in 1..Len(t), NEW j \in 1..Len(t)
  PROVE  t[i] = t[j]
<1> DEFINE n == Len(t)
           c == SumOf(t)
           q == SquaresFrom(n, c, t)
<1>1. n \in Nat /\ n > 0 /\ c \in Nat
  BY SumType
<1>2. SumOf(q) = 0
  BY DEF Variance, SquaresFrom
<1>3. \A k \in 1..n : q[k] = (n * t[k] - c) * (n * t[k] - c)
  BY DEF SquaresFrom
<1>4. q \in Seq(Nat) /\ Len(q) = n
  BY <1>1, SquaresFromType
<1> HIDE DEF q, c
<1>5. ASSUME NEW k \in 1..n PROVE n * t[k] = c
  <2>1. k \in 1..Len(q)
    BY <1>4
  <2>2. q[k] <= SumOf(q)
    BY <1>4, <2>1, SumBound
  <2>3. q[k] \in Nat
    BY <1>4, <2>1
  <2>4. (n * t[k] - c) * (n * t[k] - c) = 0
    BY <1>2, <1>3, <2>2, <2>3
  <2>5. t[k] \in Nat
    OBVIOUS
  <2>6. n * t[k] - c \in Int /\ n * t[k] \in Int
    BY <1>1, <2>5, SMT
  <2>7. \A z \in Int : z * z = 0 => z = 0
    BY SMT
  <2>8. n * t[k] - c = 0
    BY <2>4, <2>6, <2>7
  <2> QED BY <1>1, <2>6, <2>8
<1>6. n * t[i] = n * t[j]
  BY <1>5
<1>7. t[i] \in Nat /\ t[j] \in Nat
  OBVIOUS
<1> HIDE DEF n
<1>8. \A x, y \in Nat : n * x = n * y => x = y
  BY <1>1, SMT
<1> QED BY <1>6, <1>7, <1>8

-----------------------------------------------------------------------------
(* p95 is the smallest of the times within which at least 95 of 100 answers  *)
(* came, for one answer as for many; the standard deviation is at most half  *)
(* the distance of the extremes, and zero only if they meet (stats.c:61-84). *)
THEOREM DistributionCorrect == Spec => []DistributionIsSound
<1>1. IInv => DistributionIsSound
  <2> SUFFICES ASSUME IInv, Measured, stats.has_rtt PROVE DistributionIsSound
    BY DEF DistributionIsSound
  <2> DEFINE t == rtts(results)
             n == Len(t)
             lo == Fold(Least, t[1], t)
             hi == Fold(Greatest, t[1], t)
             w == hi - lo
             p == p95(t)
             v == Variance(t)
  <2>1. results \in Seq(PingResult) /\ allocated = TRUE
    BY DEF IInv, TypeOK, Measured
  <2>2. exit = "OK" /\ Len(results) = count
    BY DEF IInv, InOrder, Measured, Summarised
  <2>3. stats = compute_ping_stats(results, TRUE)
    BY <2>1, <2>2 DEF IInv, SummaryInPlace
  <2>4. t \in Seq(Nat)
    BY <2>1, RttsType
  <2>5. n \in Nat /\ n > 0
    <3>1. stats.has_rtt = (n # 0)
      BY <2>1, <2>3, MeasuredFields, Zenon
    <3>2. n # 0
      BY <3>1, Zenon
    <3> QED BY <2>4, <3>2
  <2>6. /\ stats.received = n /\ stats.min_ms = lo /\ stats.max_ms = hi
        /\ stats.variance = v /\ stats.p95_ms = p
    BY <2>1, <2>3, <2>5, MeasuredFields
  <2>7. /\ p \in Nat
        /\ \E i \in 1..n : p = t[i]
        /\ 95 * n <= 100 * CountIn(t, 0..p)
        /\ \A x \in Nat : x < p => 100 * CountIn(t, 0..x) < 95 * n
    BY <2>4, <2>5, Percentile
  <2>8. /\ lo \in Nat /\ hi \in Nat
        /\ \A i \in 1..n : lo <= t[i] /\ t[i] <= hi
        /\ \E i \in 1..n : lo = t[i]
        /\ \E i \in 1..n : hi = t[i]
    BY <2>4, <2>5, Extremes
  <2>9. \A x \in Nat : Within(x) = CountIn(t, 0..x) /\ CountIn(t, 0..x) \in Nat
    <3>1. \A x \in Nat : CountIn(results, Quick(x)) = CountIn(t, 0..x)
      BY <2>1, QuickCounted
    <3>2. \A x \in Nat : CountIn(t, 0..x) \in Nat
      BY <2>4, CountType
    <3> QED BY <3>1, <3>2 DEF Within, Quick
  <2>10. \E i \in 1..count : results[i] = [status |-> "SUCCESS", rtt_ms |-> p]
    <3>1. PICK i \in 1..n : p = t[i]
      BY <2>7
    <3>2. \E j \in 1..Len(results) : results[j] = [status |-> "SUCCESS", rtt_ms |-> t[i]]
      BY <2>1, TimeOfAnswer
    <3> QED BY <2>2, <3>1, <3>2
  <2>11. 4 * v[1] <= w * w * v[2]
    BY <2>4, <2>5, <2>8, VarianceBounded
  <2>12. v[1] \in Nat
    <3>1. SumOf(t) \in Nat /\ v[1] = SumOf(SquaresFrom(n, SumOf(t), t))
      BY <2>4, SumType DEF Variance, SquaresFrom
    <3> QED BY <2>4, <2>5, <3>1, SquaresFromType, SumType
  <2>13. v[1] = 0 => w = 0
    <3> SUFFICES ASSUME v[1] = 0 PROVE w = 0
      OBVIOUS
    <3>1. PICK i \in 1..n : lo = t[i]
      BY <2>8
    <3>2. PICK j \in 1..n : hi = t[j]
      BY <2>8
    <3>3. t[i] = t[j]
      BY <2>4, <2>5, NoVariance
    <3> QED BY <2>8, <3>1, <3>2, <3>3
  <2>14. v[2] \in Nat
    BY <2>5 DEF Variance
  <2> HIDE DEF t, n, lo, hi, p, v
  <2>15. w = 0 => v[1] = 0
    <3> SUFFICES ASSUME w = 0 PROVE v[1] = 0
      OBVIOUS
    <3>1. w * w * v[2] = 0
      BY <2>14
    <3> QED BY <2>11, <2>12, <3>1
  <2>16. 100 * Within(p) >= 95 * n
    BY <2>5, <2>7, <2>9
  <2>17. \A x \in Rtts : x < p => 100 * Within(x) < 95 * n
    <3>1. Rtts \subseteq Nat
      BY RttsAssumption
    <3> QED BY <2>7, <2>9, <3>1
  <2> QED BY <2>6, <2>10, <2>11, <2>13, <2>15, <2>16, <2>17 DEF DistributionIsSound
<1> QED BY <1>1, Invariance, PTL
=============================================================================
