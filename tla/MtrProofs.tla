----------------------------- MODULE MtrProofs ------------------------------
(***************************************************************************)
(* Proofs about Mtr, Diagnosis and MtrNet, for every number of hops,       *)
(* cycles and route changes, every set of round trip times and every       *)
(* engine: first the statistics of all hops, the sweep, and what follows   *)
(* the measurement - the table and the number of cycles the diagnosis      *)
(* reads.  Then the composition: probing through the engine is what Mtr    *)
(* says of it, and the table is about the route.  What one result does to  *)
(* the statistics of its hop is proved in StatsProofs, what the engine     *)
(* does in IcmpProofs; that a behaviour of the composition is one of each  *)
(* is shown here.                                                          *)
(***************************************************************************)
EXTENDS MtrNet, Diagnosis, StatsProofs

(* The state of the program. *)

SleepsBetweenCycles == pc = "sleep" => cycle < Count

IInv ==
  /\ TypeOK
  /\ StatusReflectsAnswers
  /\ AveragesBounded
  /\ \A h \in Hops : Fresh(stats[h])
  /\ SleepsBetweenCycles

LEMMA Constants == MaxHop \in Nat \ {0} /\ Count \in Nat \ {0} /\ 1 \in Hops
  BY MaxHopAssumption, CountAssumption DEF Hops

LEMMA IInvInit == Init => IInv
<1> SUFFICES ASSUME Init PROVE IInv
  OBVIOUS
<1>1. \A h \in Hops : stats[h] = mtr_hop_stats_init(h)
  BY DEF Init
<1>2. stats \in [Hops -> HopStats]
  BY EmptyStats, Constants DEF Init, Hops
<1>3. history \in [Hops -> Seq(TraceResult)] /\ table \in Seq(Hops)
  BY DEF Init
<1>4. TypeOK
  BY <1>2, <1>3, Constants DEF Init, TypeOK
<1>5. StatusReflectsAnswers /\ AveragesBounded /\ \A h \in Hops : Fresh(stats[h])
  <2>1. \A h \in Hops : h \in Nat
    BY Constants DEF Hops
  <2> QED BY <1>1, <2>1, EmptyStats DEF StatusReflectsAnswers, AveragesBounded
<1> QED BY <1>4, <1>5 DEF IInv, SleepsBetweenCycles, Init

LEMMA IInvStep == IInv /\ [Next]_vars => IInv'
<1> SUFFICES ASSUME IInv, [Next]_vars PROVE IInv'
  OBVIOUS
<1> USE Constants
<1>1. ASSUME NEW r \in TraceResult, ProbeHop(r) PROVE IInv'
  <2> DEFINE t == mtr_hop_stats_record(stats[hop], r)
  <2>1. hop \in Hops /\ stats[hop] \in HopStats /\ stats \in [Hops -> HopStats]
    BY DEF IInv, TypeOK
  <2>2. t \in HopStats /\ FlagsAgree(t) /\ Bounded(t) /\ Fresh(t)
    BY <2>1, FlagsStep, BoundedStep DEF IInv, StatusReflectsAnswers, AveragesBounded
  <2>3. stats' = [stats EXCEPT ![hop] = t]
    BY <1>1 DEF ProbeHop, Record
  <2> HIDE DEF t
  <2>4. stats' \in [Hops -> HopStats]
    BY <2>1, <2>2, <2>3
  <2>5. \A h \in Hops : stats'[h] = IF h = hop THEN t ELSE stats[h]
    BY <2>1, <2>3
  <2>6. StatusReflectsAnswers' /\ AveragesBounded' /\ (\A h \in Hops : Fresh(stats[h]))'
    BY <2>2, <2>5 DEF IInv, StatusReflectsAnswers, AveragesBounded
  <2>7. history' \in [Hops -> Seq(TraceResult)]
    <3>1. history' = [history EXCEPT ![hop] = Append(@, r)]
      BY <1>1 DEF ProbeHop, Record
    <3>2. history \in [Hops -> Seq(TraceResult)] /\ Append(history[hop], r) \in Seq(TraceResult)
      BY <2>1 DEF IInv, TypeOK
    <3> QED BY <3>1, <3>2
  <2>8. /\ pc' \in {"probe", "sleep", "table", "done"}
        /\ hop' \in Hops /\ cycle' \in 1..Count /\ seq' \in Nat /\ table' \in Seq(Hops)
        /\ SleepsBetweenCycles'
    <3>1. CASE SweepEnds(r)
      BY <1>1, <3>1 DEF ProbeHop, Record, EndOfSweep, IInv, TypeOK, SleepsBetweenCycles
    <3>2. CASE ~SweepEnds(r)
      BY <1>1, <3>2 DEF ProbeHop, Record, SweepEnds, IInv, TypeOK, SleepsBetweenCycles, Hops
    <3> QED BY <3>1, <3>2
  <2> QED BY <2>4, <2>6, <2>7, <2>8 DEF IInv, TypeOK
<1>2. CASE NextCycle
  <2>1. cycle' \in 1..Count
    BY <1>2 DEF NextCycle, IInv, TypeOK, SleepsBetweenCycles
  <2> QED BY <1>2, <2>1
      DEF NextCycle, IInv, TypeOK, StatusReflectsAnswers, AveragesBounded, SleepsBetweenCycles
<1>3. CASE PrintRow
  <2>1. hop' \in Hops
    BY <1>3 DEF PrintRow, IInv, TypeOK, Hops
  <2>2. table' \in Seq(Hops)
    BY <1>3 DEF PrintRow, IInv, TypeOK
  <2>3. pc' \in {"table", "done"}
    BY <1>3 DEF PrintRow
  <2> QED BY <1>3, <2>1, <2>2, <2>3
      DEF PrintRow, IInv, TypeOK, StatusReflectsAnswers, AveragesBounded, SleepsBetweenCycles
<1>4. CASE UNCHANGED vars
  BY <1>4 DEF vars, IInv, TypeOK, StatusReflectsAnswers, AveragesBounded, SleepsBetweenCycles
<1> QED BY <1>1, <1>2, <1>3, <1>4 DEF Next, Finished

THEOREM Invariance == Spec => []IInv
  BY IInvInit, IInvStep, PTL DEF Spec

(* Type correctness of the measurement (mtr.c:116-159). *)
THEOREM TypeCorrect == Spec => []TypeOK
<1>1. IInv => TypeOK
  BY DEF IInv
<1> QED BY <1>1, Invariance, PTL

(* Flags, counters and status of every hop agree, in every order of results  *)
(* (mtr.c:37-80).                                                            *)
THEOREM FlagsCorrect == Spec => []StatusReflectsAnswers
<1>1. IInv => StatusReflectsAnswers
  BY DEF IInv
<1> QED BY <1>1, Invariance, PTL

(* Mean and jitter of every hop are within the spread of its answers, for    *)
(* every sequence of round trip times (mtr.c:37-63).                         *)
THEOREM AveragesCorrect == Spec => []AveragesBounded
<1>1. IInv => AveragesBounded
  BY DEF IInv
<1> QED BY <1>1, Invariance, PTL

-----------------------------------------------------------------------------
(* The statistics and the history. *)

HistoryInv == StatsMatchHistory /\ \A h \in Hops : Totals(stats[h], history[h])

LEMMA HistoryInit == Init => HistoryInv
<1> SUFFICES ASSUME Init PROVE HistoryInv
  OBVIOUS
<1>1. \A h \in Hops : h \in Nat
  BY Constants DEF Hops
<1>2. \A h \in Hops : stats[h] = mtr_hop_stats_init(h) /\ history[h] = <<>> /\ stats[h].hop = h
  BY DEF Init, mtr_hop_stats_init
<1>3. \A h \in Hops : MatchesHistory(mtr_hop_stats_init(h), <<>>) /\ Totals(mtr_hop_stats_init(h), <<>>)
  BY <1>1, NoResults
<1> QED BY <1>2, <1>3 DEF HistoryInv, StatsMatchHistory

LEMMA HistoryKept == IInv /\ HistoryInv /\ [Next]_vars => HistoryInv'
<1> SUFFICES ASSUME IInv, HistoryInv, [Next]_vars PROVE HistoryInv'
  OBVIOUS
<1>1. ASSUME NEW r \in TraceResult, ProbeHop(r) PROVE HistoryInv'
  <2> DEFINE s == stats[hop]
             u == mtr_hop_stats_record(s, r)
             more == Append(history[hop], r)
  <2>1. /\ hop \in Hops /\ s \in HopStats /\ history[hop] \in Seq(TraceResult)
        /\ stats \in [Hops -> HopStats] /\ history \in [Hops -> Seq(TraceResult)]
    BY DEF IInv, TypeOK
  <2>2. FlagsAgree(s) /\ MatchesHistory(s, history[hop]) /\ Totals(s, history[hop]) /\ s.hop = hop
    BY <2>1 DEF IInv, StatusReflectsAnswers, HistoryInv, StatsMatchHistory
  <2>3. MatchesHistory(u, more) /\ Totals(u, more) /\ u.hop = hop
    BY <2>1, <2>2, HistoryStep
  <2>4. stats' = [stats EXCEPT ![hop] = u] /\ history' = [history EXCEPT ![hop] = more]
    BY <1>1 DEF ProbeHop, Record
  <2> HIDE DEF s, u, more
  <2>5. \A h \in Hops : /\ stats'[h] = IF h = hop THEN u ELSE stats[h]
                        /\ history'[h] = IF h = hop THEN more ELSE history[h]
    BY <2>1, <2>4
  <2> QED BY <2>3, <2>5 DEF HistoryInv, StatsMatchHistory
<1>2. CASE UNCHANGED <<stats, history>>
  BY <1>2 DEF HistoryInv, StatsMatchHistory
<1>3. NextCycle \/ PrintRow \/ Finished \/ UNCHANGED vars => UNCHANGED <<stats, history>>
  BY DEF NextCycle, PrintRow, Finished, vars
<1> QED BY <1>1, <1>2, <1>3 DEF Next

(* The statistics of every hop, brought up to date result by result, are     *)
(* those of all its results, for every number and order of answers, timeouts *)
(* and errors and every set of times (mtr.c:37-80).                          *)
THEOREM StatsCorrect == Spec => []StatsMatchHistory
<1>1. HistoryInv => StatsMatchHistory
  BY DEF HistoryInv
<1> QED BY <1>1, HistoryInit, HistoryKept, Invariance, PTL DEF Spec

-----------------------------------------------------------------------------
(* The sweep: how many probes of one hop follow from those of the hop before. *)

LEMMA StopsType == \A s \in Seq(TraceResult) : Stops(s) \in Nat
  BY CountType DEF Stops

LEMMA StopsAppend ==
  ASSUME NEW s \in Seq(TraceResult), NEW r \in TraceResult
  PROVE  Stops(Append(s, r)) = Stops(s) + (IF destination_reached(r) THEN 1 ELSE 0)
<1> DEFINE D == {x \in TraceResult : destination_reached(x)}
<1>1. CountIn(Append(s, r), D) = CountIn(s, D) + (IF r \in D THEN 1 ELSE 0)
  BY CountAppend
<1> QED BY <1>1 DEF Stops

StartsAtFirstHop == pc = "sleep" => hop = 1

LEMMA AccountingInit == Init => SweepAccounting /\ StartsAtFirstHop
<1> SUFFICES ASSUME Init PROVE SweepAccounting /\ StartsAtFirstHop
  OBVIOUS
<1>1. \A h \in Hops : stats[h].sent = 0
  BY DEF Init, mtr_hop_stats_init
<1>2. \A h \in Hops : Stops(history[h]) = 0
  BY CountEmpty DEF Init, Stops
<1>3. \A h \in Hops \ {1} : h - 1 \in Hops
  BY Constants DEF Hops
<1> QED BY <1>1, <1>2, <1>3, Constants DEF Init, SweepAccounting, StartsAtFirstHop, Pending

LEMMA AccountingStep ==
  IInv /\ StartsAtFirstHop /\ SweepAccounting /\ [Next]_vars
    => StartsAtFirstHop' /\ SweepAccounting'
<1> SUFFICES ASSUME IInv, StartsAtFirstHop, SweepAccounting, [Next]_vars
             PROVE  StartsAtFirstHop' /\ SweepAccounting'
  OBVIOUS
<1> USE Constants
<1>0. /\ hop \in Hops /\ cycle \in Nat
      /\ stats \in [Hops -> HopStats] /\ history \in [Hops -> Seq(TraceResult)]
  BY DEF IInv, TypeOK
<1>1. ASSUME NEW r \in TraceResult, ProbeHop(r)
      PROVE  StartsAtFirstHop' /\ SweepAccounting'
  <2> DEFINE sent(h) == stats[h].sent
             stop == IF destination_reached(r) THEN 1 ELSE 0
  <2>1. \A h \in Hops : stats'[h].sent = IF h = hop THEN sent(h) + 1 ELSE sent(h)
    <3>1. mtr_hop_stats_record(stats[hop], r).sent = sent(hop) + 1
      BY <1>0, SentStep DEF IInv, StatusReflectsAnswers
    <3>2. stats' = [stats EXCEPT ![hop] = mtr_hop_stats_record(stats[hop], r)]
      BY <1>1 DEF ProbeHop, Record
    <3> QED BY <1>0, <3>1, <3>2
  <2>2. \A h \in Hops : Stops(history'[h]) = IF h = hop THEN Stops(history[h]) + stop
                                                       ELSE Stops(history[h])
    <3>1. history' = [history EXCEPT ![hop] = Append(history[hop], r)]
      BY <1>1 DEF ProbeHop, Record
    <3>2. Stops(Append(history[hop], r)) = Stops(history[hop]) + stop
      BY <1>0, StopsAppend
    <3> QED BY <1>0, <3>1, <3>2
  <2>3. \A h \in Hops : sent(h) \in Nat /\ Stops(history[h]) \in Nat
    BY <1>0, Fields, StopsType
  <2>4. /\ sent(1) + (IF hop = 1 THEN 1 ELSE 0) = cycle
        /\ \A h \in Hops \ {1} :
             sent(h) + (IF hop = h THEN 1 ELSE 0) = sent(h - 1) - Stops(history[h - 1])
    BY <1>1 DEF ProbeHop, SweepAccounting, Pending
  <2>5. \A h \in Hops \ {1} : h - 1 \in Hops
    BY DEF Hops
  <2>6. cycle' = cycle
    BY <1>1 DEF ProbeHop
  <2> HIDE DEF sent
  <2>7. CASE SweepEnds(r)
    <3>1. pc' # "probe" /\ hop' = 1
      BY <1>1, <2>7 DEF ProbeHop, EndOfSweep
    <3>2. \A h \in Hops : hop = h - 1 => stop = 1
      BY <2>7 DEF SweepEnds, Hops
    <3>3. stats'[1].sent = cycle'
      BY <1>0, <2>1, <2>3, <2>4, <2>6
    <3>4. \A h \in Hops \ {1} : stats'[h].sent = stats'[h - 1].sent - Stops(history'[h - 1])
      <4> TAKE h \in Hops \ {1}
      <4>1. CASE hop = h
        <5>1. /\ stats'[h].sent = sent(h) + 1
              /\ h - 1 # hop
              /\ stats'[h - 1].sent = sent(h - 1)
              /\ Stops(history'[h - 1]) = Stops(history[h - 1])
          BY <1>0, <2>1, <2>2, <2>5, <4>1 DEF Hops
        <5>2. sent(h) + 1 = sent(h - 1) - Stops(history[h - 1])
          BY <2>4, <4>1
        <5> QED BY <5>1, <5>2
      <4>2. CASE hop = h - 1
        BY <1>0, <2>1, <2>2, <2>3, <2>4, <2>5, <3>2, <4>2
      <4>3. CASE hop # h /\ hop # h - 1
        BY <1>0, <2>1, <2>2, <2>3, <2>4, <2>5, <4>3
      <4> QED BY <4>1, <4>2, <4>3
    <3>5. \A h \in Hops : stats'[h].sent \in Nat
      BY <2>1, <2>3
    <3> QED BY <3>1, <3>3, <3>4, <3>5 DEF SweepAccounting, Pending, StartsAtFirstHop
  <2>8. CASE ~SweepEnds(r)
    <3>1. pc' = "probe" /\ hop' = hop + 1 /\ stop = 0
      BY <1>1, <2>8 DEF ProbeHop, SweepEnds
    <3>2. stats'[1].sent = cycle'
      BY <1>0, <2>1, <2>3, <2>4, <2>6
    <3>3. \A h \in Hops \ {1} : stats'[h].sent + (IF hop' = h THEN 1 ELSE 0)
                                  = stats'[h - 1].sent - Stops(history'[h - 1])
      <4> TAKE h \in Hops \ {1}
      <4>0. hop \in Int /\ h \in Int
        BY <1>0 DEF Hops
      <4>1. CASE hop = h
        <5>1. /\ stats'[h].sent = IF h = hop THEN sent(h) + 1 ELSE sent(h)
              /\ stats'[h - 1].sent = IF h - 1 = hop THEN sent(h - 1) + 1 ELSE sent(h - 1)
              /\ Stops(history'[h - 1]) = Stops(history[h - 1])
          BY <2>1, <2>2, <2>3, <2>5, <3>1
        <5>2. sent(h) + (IF hop = h THEN 1 ELSE 0) = sent(h - 1) - Stops(history[h - 1])
          BY <2>4
        <5>3. sent(h) \in Nat /\ sent(h - 1) \in Nat /\ Stops(history[h - 1]) \in Nat
          BY <2>3, <2>5
        <5> QED BY <3>1, <4>0, <4>1, <5>1, <5>2, <5>3
      <4>2. CASE hop = h - 1
        <5>1. /\ stats'[h].sent = IF h = hop THEN sent(h) + 1 ELSE sent(h)
              /\ stats'[h - 1].sent = IF h - 1 = hop THEN sent(h - 1) + 1 ELSE sent(h - 1)
              /\ Stops(history'[h - 1]) = Stops(history[h - 1])
          BY <2>1, <2>2, <2>3, <2>5, <3>1
        <5>2. sent(h) + (IF hop = h THEN 1 ELSE 0) = sent(h - 1) - Stops(history[h - 1])
          BY <2>4
        <5>3. sent(h) \in Nat /\ sent(h - 1) \in Nat /\ Stops(history[h - 1]) \in Nat
          BY <2>3, <2>5
        <5> QED BY <3>1, <4>0, <4>2, <5>1, <5>2, <5>3
      <4>3. CASE hop # h /\ hop # h - 1
        <5>1. /\ stats'[h].sent = IF h = hop THEN sent(h) + 1 ELSE sent(h)
              /\ stats'[h - 1].sent = IF h - 1 = hop THEN sent(h - 1) + 1 ELSE sent(h - 1)
              /\ Stops(history'[h - 1]) = Stops(history[h - 1])
          BY <2>1, <2>2, <2>3, <2>5, <3>1
        <5>2. sent(h) + (IF hop = h THEN 1 ELSE 0) = sent(h - 1) - Stops(history[h - 1])
          BY <2>4
        <5>3. sent(h) \in Nat /\ sent(h - 1) \in Nat /\ Stops(history[h - 1]) \in Nat
          BY <2>3, <2>5
        <5> QED BY <3>1, <4>0, <4>3, <5>1, <5>2, <5>3
      <4> QED BY <4>1, <4>2, <4>3
    <3>4. hop' # 1
      BY <1>0, <3>1 DEF Hops
    <3>5. \A h \in Hops : stats'[h].sent \in Nat
      BY <2>1, <2>3
    <3> QED BY <3>1, <3>2, <3>3, <3>4, <3>5 DEF SweepAccounting, Pending, StartsAtFirstHop
  <2> QED BY <2>7, <2>8
<1>2. CASE NextCycle
  <2>1. /\ pc = "sleep" /\ pc' = "probe" /\ hop = 1 /\ hop' = 1 /\ cycle' = cycle + 1
        /\ stats' = stats /\ history' = history
    BY <1>2 DEF NextCycle, StartsAtFirstHop
  <2>2. \A h \in Hops : stats[h].sent \in Nat
    BY <1>0, Fields
  <2> QED BY <1>0, <2>1, <2>2 DEF SweepAccounting, Pending, StartsAtFirstHop
<1>3. CASE PrintRow \/ UNCHANGED vars
  <2>1. /\ stats' = stats /\ history' = history /\ cycle' = cycle
        /\ \/ pc # "probe" /\ pc' \notin {"probe", "sleep"}
           \/ pc' = pc /\ hop' = hop
    BY <1>3 DEF PrintRow, vars
  <2> QED BY <2>1 DEF SweepAccounting, Pending, StartsAtFirstHop
<1> QED BY <1>1, <1>2, <1>3 DEF Next, Finished

(* Every hop was probed in exactly those cycles that came past the hop before *)
(* it, the first one in every cycle (mtr.c:140-159).                         *)
THEOREM SweepCorrect == Spec => []SweepAccounting
<1>1. Init => SweepAccounting /\ StartsAtFirstHop
  BY AccountingInit
<1>2. IInv /\ StartsAtFirstHop /\ SweepAccounting /\ [Next]_vars
        => StartsAtFirstHop' /\ SweepAccounting'
  BY AccountingStep
<1> QED BY <1>1, <1>2, Invariance, PTL DEF Spec

-----------------------------------------------------------------------------
(* What follows the measurement. *)

LEMMA MeasurementTypes ==
  ASSUME IInv
  PROVE  /\ hop \in Hops /\ cycle \in 1..Count /\ Count \in Nat /\ MaxHop \in Nat
         /\ stats \in [Hops -> HopStats] /\ table \in Seq(Hops) /\ Len(table) \in Nat
         /\ \A h \in Hops : h \in Nat /\ h > 0
         /\ \A h \in Hops : stats[h].sent \in Nat
<1>1. \A h \in Hops : h \in Nat /\ h > 0
  BY Constants DEF Hops
<1>2. stats \in [Hops -> HopStats]
  BY DEF IInv, TypeOK
<1>3. \A h \in Hops : stats[h].sent \in Nat
  BY <1>2 DEF HopStats
<1>4. hop \in Hops /\ cycle \in 1..Count /\ table \in Seq(Hops) /\ Len(table) \in Nat
  BY DEF IInv, TypeOK
<1> QED BY <1>1, <1>2, <1>3, <1>4, Constants

(* A hop is not probed more often than the one before it. *)
LEMMA SweepsGetShorter ==
  ASSUME IInv, SweepAccounting, NEW h \in Hops, h - 1 \in Hops
  PROVE  stats[h].sent <= stats[h - 1].sent
<1>1. /\ stats[h].sent \in Nat /\ stats[h - 1].sent \in Nat
      /\ Stops(history[h - 1]) \in Nat
  BY StopsType DEF IInv, TypeOK, HopStats
<1>2. h \in Hops \ {1} /\ Pending(h) \in {0, 1}
  BY Constants DEF Hops, Pending
<1>3. stats[h].sent + Pending(h) = stats[h - 1].sent - Stops(history[h - 1])
  BY <1>2 DEF SweepAccounting
<1> QED BY <1>1, <1>2, <1>3

-----------------------------------------------------------------------------
(* The number of cycles. *)

(* Each hop at most once in a cycle, and not again once the sweep is past it. *)
OncePerCycle ==
  \A h \in Hops :
    /\ stats[h].sent <= cycle
    /\ pc = "probe" /\ h >= hop => stats[h].sent < cycle

EndsWithLastCycle == Measured => cycle = Count

CyclesInv == OncePerCycle /\ EndsWithLastCycle /\ StartsAtFirstHop

LEMMA CyclesInit == Init => CyclesInv
<1> SUFFICES ASSUME Init PROVE CyclesInv
  OBVIOUS
<1>1. \A h \in Hops : stats[h].sent = 0
  BY DEF Init, mtr_hop_stats_init
<1> QED BY <1>1 DEF Init, CyclesInv, OncePerCycle, EndsWithLastCycle, Measured, StartsAtFirstHop

LEMMA CyclesStep == IInv /\ CyclesInv /\ [Next]_vars => CyclesInv'
<1> SUFFICES ASSUME IInv, CyclesInv, [Next]_vars PROVE CyclesInv'
  OBVIOUS
<1>0. /\ hop \in Hops /\ cycle \in 1..Count /\ Count \in Nat /\ MaxHop \in Nat
      /\ stats \in [Hops -> HopStats]
      /\ \A h \in Hops : h \in Nat
      /\ \A h \in Hops : stats[h].sent \in Nat
  BY MeasurementTypes
<1>1. ASSUME NEW r \in TraceResult, ProbeHop(r) PROVE CyclesInv'
  <2>1. \A h \in Hops : stats'[h].sent = IF h = hop THEN stats[h].sent + 1 ELSE stats[h].sent
    <3>1. mtr_hop_stats_record(stats[hop], r).sent = stats[hop].sent + 1
      BY <1>0, SentStep DEF IInv, StatusReflectsAnswers
    <3>2. stats' = [stats EXCEPT ![hop] = mtr_hop_stats_record(stats[hop], r)]
      BY <1>1 DEF ProbeHop, Record
    <3> QED BY <1>0, <3>1, <3>2
  <2>2. pc = "probe" /\ cycle' = cycle
    BY <1>1 DEF ProbeHop
  <2>3. \A h \in Hops : stats'[h].sent <= cycle /\ (h > hop => stats'[h].sent < cycle)
    BY <1>0, <2>1, <2>2 DEF CyclesInv, OncePerCycle
  <2>4. CASE SweepEnds(r)
    <3>1. pc' = (IF cycle < Count THEN "sleep" ELSE "table") /\ hop' = 1
      BY <1>1, <2>4 DEF ProbeHop, EndOfSweep, SweepEnds
    <3>2. pc' # "probe" /\ (pc' \in {"table", "done"} => cycle = Count)
      BY <1>0, <3>1
    <3> QED BY <2>2, <2>3, <3>1, <3>2
            DEF CyclesInv, OncePerCycle, EndsWithLastCycle, Measured, StartsAtFirstHop
  <2>5. CASE ~SweepEnds(r)
    <3>1. pc' = "probe" /\ hop' = hop + 1
      BY <1>1, <2>2, <2>5 DEF ProbeHop
    <3>2. \A h \in Hops : h >= hop + 1 => h > hop
      BY <1>0
    <3> QED BY <2>2, <2>3, <3>1, <3>2
            DEF CyclesInv, OncePerCycle, EndsWithLastCycle, Measured, StartsAtFirstHop
  <2> QED BY <2>4, <2>5
<1>2. CASE NextCycle
  <2>1. pc = "sleep" /\ pc' = "probe" /\ cycle' = cycle + 1 /\ hop' = 1 /\ stats' = stats
    BY <1>2 DEF NextCycle, CyclesInv, StartsAtFirstHop
  <2>2. \A h \in Hops : stats[h].sent <= cycle
    BY DEF CyclesInv, OncePerCycle
  <2>3. \A h \in Hops : stats[h].sent < cycle + 1
    BY <1>0, <2>2
  <2>4. \A h \in Hops : stats[h].sent <= cycle + 1
    BY <1>0, <2>2
  <2> QED BY <2>1, <2>3, <2>4
          DEF CyclesInv, OncePerCycle, EndsWithLastCycle, Measured, StartsAtFirstHop
<1>3. CASE PrintRow \/ UNCHANGED vars
  <2>1. /\ UNCHANGED <<stats, cycle>>
        /\ \/ pc = "table" /\ pc' \in {"table", "done"}
           \/ UNCHANGED <<pc, hop>>
    BY <1>3 DEF PrintRow, vars
  <2> QED BY <2>1 DEF CyclesInv, OncePerCycle, EndsWithLastCycle, Measured, StartsAtFirstHop
<1> QED BY <1>1, <1>2, <1>3 DEF Next, Finished

LEMMA AllCycles == Spec => []CyclesInv
  BY CyclesInit, CyclesStep, Invariance, PTL DEF Spec

(* The number of cycles a diagnosis is based on is the number of cycles that *)
(* were run, for every number of hops and however short the sweeps           *)
(* (baseline.c:281-291).                                                     *)
THEOREM CyclesObserved == Spec => []ObservedCyclesIsCount
<1>1. IInv /\ SweepAccounting /\ CyclesInv => ObservedCyclesIsCount
  <2> SUFFICES ASSUME IInv, SweepAccounting, CyclesInv, Measured
               PROVE  observed_cycles(stats, MaxHop) = Count
    BY DEF ObservedCyclesIsCount
  <2> DEFINE N == {0} \cup {stats[i].sent : i \in Hops}
  <2>1. \A h \in Hops : stats[h].sent \in Nat
    BY DEF IInv, TypeOK, HopStats
  <2>2. cycle = Count /\ Pending(1) = 0 /\ Count \in Nat
    BY Constants DEF CyclesInv, EndsWithLastCycle, Measured, Pending
  <2>3. stats[1].sent = Count /\ 1 \in Hops
    BY <2>1, <2>2, Constants DEF SweepAccounting
  <2>4. \A h \in Hops : stats[h].sent <= Count
    BY <2>2 DEF CyclesInv, OncePerCycle
  <2>5. observed_cycles(stats, MaxHop)
          = CHOOSE n \in N : \A i \in Hops : stats[i].sent <= n
    BY DEF observed_cycles, Hops
  <2>6. Count \in N
    BY <2>3
  <2>7. \A n \in N : (\A i \in Hops : stats[i].sent <= n) => n = Count
    <3> TAKE n \in N
    <3>1. n \in Nat /\ n <= Count
      BY <2>1, <2>2, <2>4
    <3>2. (\A i \in Hops : stats[i].sent <= n) => Count <= n
      BY <2>3
    <3> QED BY <2>2, <3>1, <3>2
  <2> HIDE DEF N
  <2> QED BY <2>4, <2>5, <2>6, <2>7
<1> QED BY <1>1, Invariance, SweepCorrect, AllCycles, PTL

-----------------------------------------------------------------------------
(* The table. *)

(* The hops the loop of the table has dealt with. *)
Printed == CASE pc = "table" -> hop - 1 [] pc = "done" -> MaxHop [] OTHER -> 0

TableInPlace ==
  /\ table = [i \in 1..Len(table) |-> i]
  /\ Len(table) <= Printed
  /\ \A h \in Hops : h <= Printed => (h > Len(table) <=> stats[h].sent = 0)

TableInv == TableInPlace /\ StartsAtFirstHop

LEMMA EmptyTable == Len(<<>>) = 0 /\ <<>> = [i \in 1..0 |-> i]
  OBVIOUS

LEMMA TableInit == Init => TableInv
<1> SUFFICES ASSUME Init PROVE TableInv
  OBVIOUS
<1>1. Printed = 0 /\ table = <<>> /\ pc = "probe"
  BY DEF Init, Printed
<1>2. \A h \in Hops : ~(h <= 0)
  BY Constants DEF Hops
<1> QED BY <1>1, <1>2, EmptyTable DEF TableInv, TableInPlace, StartsAtFirstHop

LEMMA AppendNext ==
  ASSUME NEW t \in Seq(Hops), t = [i \in 1..Len(t) |-> i], NEW n, n = Len(t) + 1, n \in Hops
  PROVE  /\ Len(Append(t, n)) = n
         /\ Append(t, n) = [i \in 1..n |-> i]
<1>1. Len(t) \in Nat /\ \A i \in 1..Len(t) : t[i] = i
  OBVIOUS
<1>2. /\ Append(t, n) \in Seq(Hops) /\ Len(Append(t, n)) = n
      /\ \A i \in 1..Len(t) : Append(t, n)[i] = t[i]
      /\ Append(t, n)[n] = n
  BY <1>1
<1> DEFINE u == Append(t, n)
<1> HIDE DEF u
<1>3. u = [i \in 1..n |-> u[i]] /\ \A i \in 1..n : u[i] = i
  BY <1>1, <1>2 DEF u
<1> QED BY <1>2, <1>3 DEF u

LEMMA TableStep ==
  IInv /\ SweepAccounting /\ TableInv /\ [Next]_vars => TableInv'
<1> SUFFICES ASSUME IInv, SweepAccounting, TableInv, [Next]_vars PROVE TableInv'
  OBVIOUS
<1>0. /\ hop \in Hops /\ MaxHop \in Nat /\ table \in Seq(Hops) /\ Len(table) \in Nat
      /\ \A h \in Hops : h \in Nat /\ h > 0
      /\ \A h \in Hops : stats[h].sent \in Nat
  BY MeasurementTypes
<1>1. CASE (\E r \in TraceResult : ProbeHop(r)) \/ NextCycle
  <2>1. /\ pc \in {"probe", "sleep"} /\ table' = table
        /\ \/ pc' \in {"probe", "sleep"}
           \/ pc' = "table"
        /\ pc' \in {"sleep", "table"} => hop' = 1
    BY <1>1 DEF ProbeHop, EndOfSweep, NextCycle
  <2>2. Printed = 0 /\ Printed' = 0
    BY <2>1 DEF Printed
  <2>3. Len(table) <= 0 /\ Len(table') <= 0
    BY <2>1, <2>2 DEF TableInv, TableInPlace
  <2>4. \A h \in Hops : ~(h <= 0)
    BY <1>0
  <2> QED BY <2>1, <2>2, <2>3, <2>4 DEF TableInv, TableInPlace, StartsAtFirstHop
<1>2. CASE PrintRow
  <2>1. /\ pc = "table" /\ stats' = stats /\ Printed = hop - 1
        /\ table' = IF stats[hop].sent = 0 THEN table ELSE Append(table, hop)
        /\ pc' # "sleep"
    BY <1>2 DEF PrintRow, Printed
  <2>2. Printed' = hop
    BY <1>0, <1>2, SMTT(30) DEF PrintRow, Printed
  <2>3. /\ Len(table) <= hop - 1 /\ table = [i \in 1..Len(table) |-> i]
        /\ \A h \in Hops : h <= hop - 1 => (h > Len(table) <=> stats[h].sent = 0)
    BY <2>1 DEF TableInv, TableInPlace
  <2>4. \A h \in Hops : h <= hop => h <= hop - 1 \/ h = hop
    BY <1>0
  <2>5. CASE stats[hop].sent = 0
    <3>1. table' = table /\ Len(table) <= hop /\ hop > Len(table)
      BY <1>0, <2>1, <2>3, <2>5
    <3>2. \A h \in Hops : h <= hop => (h > Len(table) <=> stats[h].sent = 0)
      BY <2>3, <2>4, <2>5, <3>1
    <3> QED BY <2>1, <2>2, <2>3, <3>1, <3>2 DEF TableInv, TableInPlace, StartsAtFirstHop
  <2>6. CASE stats[hop].sent # 0
    <3>1. hop = Len(table) + 1
      <4>1. CASE hop = 1
        BY <1>0, <2>3, <4>1
      <4>2. CASE hop # 1
        <5>1. hop - 1 \in Hops
          BY <1>0, <4>2 DEF Hops
        <5>2. stats[hop - 1].sent # 0
          BY <1>0, <2>6, <5>1, SweepsGetShorter
        <5>3. ~(hop - 1 > Len(table))
          BY <1>0, <2>3, <5>1, <5>2
        <5> QED BY <1>0, <2>3, <5>3
      <4> QED BY <4>1, <4>2
    <3>2. Len(table') = hop /\ table' = [i \in 1..hop |-> i]
      BY <1>0, <2>1, <2>3, <2>6, <3>1, AppendNext
    <3>3. \A h \in Hops : h <= hop => ~(h > hop) /\ stats[h].sent # 0
      <4> TAKE h \in Hops
      <4>1. CASE h <= hop - 1
        <5>1. ~(h > Len(table)) /\ ~(h > hop)
          BY <1>0, <3>1, <4>1
        <5> QED BY <2>3, <4>1, <5>1
      <4>2. CASE h = hop
        BY <1>0, <2>6, <4>2
      <4> QED BY <2>4, <4>1, <4>2
    <3>4. hop <= hop
      BY <1>0
    <3> QED BY <2>1, <2>2, <3>2, <3>3, <3>4 DEF TableInv, TableInPlace, StartsAtFirstHop
  <2> QED BY <2>5, <2>6
<1>3. CASE UNCHANGED vars
  BY <1>3 DEF vars, TableInv, TableInPlace, StartsAtFirstHop, Printed
<1> QED BY <1>1, <1>2, <1>3 DEF Next, Finished

(* The table has a row for each hop from the first to the deepest one that   *)
(* was probed, in order and without a gap (mtr.c:163-168).                   *)
THEOREM TableHasNoGap == Spec => []TableIsTheSweep
<1>1. IInv /\ TableInv => TableIsTheSweep
  <2> SUFFICES ASSUME IInv, TableInv, pc = "done"
               PROVE  /\ table = [i \in 1..Len(table) |-> i]
                      /\ \A h \in Hops : h > Len(table) <=> stats[h].sent = 0
    BY DEF TableIsTheSweep
  <2>1. \A h \in Hops : h <= Printed
    BY Constants DEF Printed, Hops
  <2> QED BY <2>1 DEF TableInv, TableInPlace
<1>2. Spec => []TableInv
  BY TableInit, TableStep, Invariance, SweepCorrect, PTL DEF Spec
<1> QED BY <1>1, <1>2, Invariance, PTL

-----------------------------------------------------------------------------
(* The composition with the engine.                                          *)

EngineProofs == INSTANCE IcmpProofs WITH
  Modes <- {"trace"}, mode <- "trace", pc <- epc, Ident <- 1, ForeignIdents <- {}

LEMMA PositiveProduct == \A m, n \in Nat \ {0} : m * n \in Nat \ {0}
  BY SMT

LEMMA ProbesPositive == MaxProbe \in Nat \ {0}
  BY Constants, PositiveProduct DEF MaxProbe

(* The assumptions of the engine about its constants. *)
LEMMA EngineConstants ==
  /\ EngineProofs!ModesAssumption /\ EngineProofs!SeqModAssumption
  /\ EngineProofs!MaxProbeAssumption /\ EngineProofs!ClockAssumption
  /\ EngineProofs!SockCapAssumption
  BY EngineAssumption, ProbesPositive
  DEF EngineProofs!ModesAssumption, EngineProofs!SeqModAssumption,
      EngineProofs!MaxProbeAssumption, EngineProofs!ClockAssumption,
      EngineProofs!SockCapAssumption

-----------------------------------------------------------------------------
(* The engine in the composition behaves as the engine alone. *)

LEMMA EngineInit == NetInit => EngineProofs!Init
  BY DEF NetInit, Engine!Init, EngineProofs!Init, Engine!Blank, EngineProofs!Blank

LEMMA SameReceive == Engine!Receive => EngineProofs!Receive
<1> USE DEF Engine!Return, EngineProofs!Return, Engine!remaining_timeout_ms,
            EngineProofs!remaining_timeout_ms, Engine!Deadline, EngineProofs!Deadline,
            Engine!netVars, EngineProofs!netVars
<1>1. Engine!DeadlinePassed => EngineProofs!DeadlinePassed
  BY DEF Engine!DeadlinePassed, EngineProofs!DeadlinePassed, Engine!TimedOut,
         EngineProofs!TimedOut
<1>2. Engine!ReadClock => EngineProofs!ReadClock
  BY DEF Engine!ReadClock, EngineProofs!ReadClock
<1>10. Engine!CallSelect => EngineProofs!CallSelect
  BY DEF Engine!CallSelect, EngineProofs!CallSelect
<1>3. Engine!SelectReady => EngineProofs!SelectReady
  BY DEF Engine!SelectReady, EngineProofs!SelectReady
<1>4. Engine!SelectExpires => EngineProofs!SelectExpires
  BY DEF Engine!SelectExpires, EngineProofs!SelectExpires
<1>5. Engine!SelectFails => EngineProofs!SelectFails
  BY DEF Engine!SelectFails, EngineProofs!SelectFails, Engine!Failed, EngineProofs!Failed
<1>6. Engine!RecvFails => EngineProofs!RecvFails
  BY DEF Engine!RecvFails, EngineProofs!RecvFails, Engine!Failed, EngineProofs!Failed
<1>7. \A p, s : Engine!Matches(p, s, "trace") <=> EngineProofs!Matches(p, s, "trace")
  BY DEF Engine!Matches, EngineProofs!Matches, Engine!parse_outer_ipv4_icmp,
         EngineProofs!parse_outer_ipv4_icmp, Engine!is_matching_echo_reply,
         EngineProofs!is_matching_echo_reply, Engine!is_matching_time_exceeded,
         EngineProofs!is_matching_time_exceeded, Engine!parse_original_echo,
         EngineProofs!parse_original_echo
<1>8. Engine!Accept => EngineProofs!Accept
  BY <1>7 DEF Engine!Accept, EngineProofs!Accept, Engine!Wire, EngineProofs!Wire,
              Engine!Answer, EngineProofs!Answer
<1>9. Engine!Discard => EngineProofs!Discard
  BY <1>7 DEF Engine!Discard, EngineProofs!Discard, Engine!Wire, EngineProofs!Wire
<1> QED BY <1>1, <1>2, <1>3, <1>4, <1>5, <1>6, <1>8, <1>9, <1>10
        DEF Engine!Receive, EngineProofs!Receive

LEMMA EngineStep == [NetNext]_netvars => [EngineProofs!Next]_EngineProofs!vars
<1> SUFFICES ASSUME [NetNext]_netvars PROVE [EngineProofs!Next]_EngineProofs!vars
  OBVIOUS
<1>1. CASE Send
  BY <1>1 DEF Send, Engine!SendEcho, EngineProofs!SendEcho, EngineProofs!Next,
              Engine!Blank, EngineProofs!Blank
<1>2. CASE SendFails
  BY <1>2 DEF SendFails, Engine!SendFails, EngineProofs!SendFails, EngineProofs!Next,
              Engine!Failed, EngineProofs!Failed
<1>3. CASE Wait
  BY <1>3, SameReceive DEF Wait, EngineProofs!Next
<1>4. CASE Deliver
  <2>1. PICK q \in onWire : \E p \in Engine!AnswersTo(q) : Engine!Deliver(p)
    BY <1>4 DEF Deliver
  <2>2. Engine!AnswersTo(q) = EngineProofs!AnswersTo(q)
    BY DEF Engine!AnswersTo, EngineProofs!AnswersTo, Engine!Wire, EngineProofs!Wire
  <2>3. \A p : Engine!Deliver(p) => EngineProofs!Deliver(p)
    BY DEF Engine!Deliver, EngineProofs!Deliver
  <2>4. EngineProofs!DeliverAnswer
    BY <2>1, <2>2, <2>3 DEF EngineProofs!DeliverAnswer
  <2> QED BY <2>4 DEF EngineProofs!Next
<1>5. CASE Tick
  <2>1. EngineProofs!Tick
    BY <1>5 DEF Tick, Engine!Tick, EngineProofs!Tick, Engine!TimerRuns,
                EngineProofs!TimerRuns, Engine!Deadline, EngineProofs!Deadline,
                Engine!netVars, EngineProofs!netVars
  <2> QED BY <2>1 DEF EngineProofs!Next
<1>6. CASE EndProbe \/ Proceed \/ NetFinished \/ RouteChanges \/ UNCHANGED netvars
  BY <1>6 DEF EndProbe, TakeResult, Proceed, NetFinished, RouteChanges, netvars, engine,
              EngineProofs!vars
<1> QED BY <1>1, <1>2, <1>3, <1>4, <1>5, <1>6 DEF NetNext

LEMMA EngineBehaves == NetSpec => EngineProofs!Spec
  BY EngineInit, EngineStep, PTL DEF NetSpec, EngineProofs!Spec

LEMMA EngineInvariant == NetSpec => [](EngineProofs!IInv /\ EngineProofs!AnswerIsOwn)
<1>1. EngineProofs!NoCollision
  BY DEF EngineProofs!NoCollision
<1> QED BY <1>1, EngineBehaves, EngineConstants, EngineProofs!Invariance,
           EngineProofs!AnswersAreOwn, PTL

(* While the numbers do not wrap, an answer is one to the current probe. *)
LEMMA EngineAnswersCurrent ==
  ASSUME MaxProbe <= SeqMod
  PROVE  NetSpec => []EngineProofs!AnswerIsForCurrentProbe
<1>1. EngineProofs!NoCollision
  BY DEF EngineProofs!NoCollision
<1> QED BY <1>1, EngineBehaves, EngineConstants, EngineProofs!AnswersAreCurrent, PTL

-----------------------------------------------------------------------------
(* The loops of run_mtr_mode and the engine keep step. *)

EngineTypes ==
  /\ epc \in {"idle", "check", "arm", "select", "recv"}
  /\ probe \in Nat
  /\ onWire \subseteq 1..probe
  /\ sock \in Seq(EngineProofs!Packet)
  /\ result.status \in {"SUCCESS", "HOP", "DESTINATION", "PENDING", "TIMEOUT", "ERROR"}
  /\ result.status \in {"HOP", "DESTINATION"} => result.origin \in onWire

LEMMA EngineTyped == EngineProofs!IInv /\ EngineProofs!AnswerIsOwn => EngineTypes
<1> SUFFICES ASSUME EngineProofs!IInv, EngineProofs!AnswerIsOwn PROVE EngineTypes
  OBVIOUS
<1>1. /\ epc \in {"idle", "check", "arm", "select", "recv"} /\ sock \in Seq(EngineProofs!Packet)
      /\ probe \in 0..MaxProbe /\ onWire \subseteq 1..probe
      /\ result.status \in EngineProofs!Answered \cup {"PENDING", "TIMEOUT", "ERROR"}
  BY DEF EngineProofs!IInv, EngineProofs!TypeOK
<1>2. result.status \in {"HOP", "DESTINATION"} => result.origin \in onWire
  BY DEF EngineProofs!AnswerIsOwn, EngineProofs!Answered
<1> QED BY <1>1, <1>2, ProbesPositive DEF EngineTypes, EngineProofs!Answered

(* A receive call of MTR never reports SUCCESS, and it has always reported   *)
(* something when it is over.                                                *)
Reports ==
  /\ result.status # "SUCCESS"
  /\ epc = "idle" /\ probe > 0 => result.status # "PENDING"

InStep ==
  /\ ttls \in Seq(Hops) /\ Len(ttls) = probe
  /\ hop \in Hops /\ seq \in Nat \ {0} /\ probe \in {seq - 1, seq}
  /\ epc # "idle" => pc = "probe" /\ probe = seq
  /\ pc # "probe" => probe = seq - 1
  /\ pc = "probe" /\ probe = seq => ttls[probe] = hop

(* What a step of the receive loop changes. *)
LEMMA ReceiveChanges ==
  ASSUME Engine!Receive
  PROVE  /\ epc # "idle" /\ UNCHANGED <<probe, onWire>>
         /\ \/ UNCHANGED result /\ epc' # "idle"
            \/ result' \in {Engine!TimedOut, Engine!Failed}
            \/ sock # <<>> /\ result' = Engine!Answer(Head(sock), "trace")
         /\ \/ UNCHANGED sock
            \/ sock # <<>> /\ sock' = Tail(sock)
  BY DEF Engine!Receive, Engine!DeadlinePassed, Engine!ReadClock, Engine!CallSelect, Engine!SelectReady,
         Engine!SelectExpires, Engine!SelectFails, Engine!Accept, Engine!Discard,
         Engine!RecvFails, Engine!Return, Engine!netVars

LEMMA ReportsInit == NetInit => Reports
  BY DEF NetInit, Engine!Init, Engine!Blank, Reports

LEMMA ReportsStep == EngineTypes /\ Reports /\ [NetNext]_netvars => Reports'
<1> SUFFICES ASSUME EngineTypes, Reports, [NetNext]_netvars PROVE Reports'
  OBVIOUS
<1>1. CASE Send \/ SendFails
  BY <1>1 DEF Send, SendFails, Engine!SendEcho, Engine!SendFails, Engine!Blank,
              Engine!Failed, Reports
<1>2. CASE Wait
  <2>1. Engine!Answer(Head(sock), "trace").status \in {"HOP", "DESTINATION"}
    BY DEF Engine!Answer
  <2>2. Engine!TimedOut.status = "TIMEOUT" /\ Engine!Failed.status = "ERROR"
    BY DEF Engine!TimedOut, Engine!Failed
  <2>3. \/ UNCHANGED result /\ epc' # "idle"
        \/ result'.status \in {"TIMEOUT", "ERROR", "HOP", "DESTINATION"}
    BY <1>2, <2>1, <2>2, ReceiveChanges DEF Wait
  <2> QED BY <2>3 DEF Reports
<1>3. CASE Deliver \/ Tick
  BY <1>3 DEF Deliver, Engine!Deliver, Tick, Engine!Tick, Reports
<1>4. CASE EndProbe \/ Proceed \/ NetFinished \/ RouteChanges \/ UNCHANGED netvars
  BY <1>4 DEF EndProbe, TakeResult, Proceed, NetFinished, RouteChanges, netvars, engine, Reports
<1> QED BY <1>1, <1>2, <1>3, <1>4 DEF NetNext

LEMMA InStepInit == NetInit => InStep
  BY Constants DEF NetInit, Engine!Init, Init, InStep

(* The list of TTLs with one more probe. *)
LEMMA TtlAppended ==
  ASSUME ttls \in Seq(Hops), NEW h \in Hops
  PROVE  LET t == Append(ttls, h) IN
         /\ t \in Seq(Hops) /\ Len(t) = Len(ttls) + 1 /\ Len(ttls) \in Nat
         /\ t[Len(ttls) + 1] = h
         /\ \A i \in 1..Len(ttls) : t[i] = ttls[i]
  OBVIOUS

LEMMA InStepStep == EngineTypes /\ InStep /\ [NetNext]_netvars => InStep'
<1> SUFFICES ASSUME EngineTypes, InStep, [NetNext]_netvars PROVE InStep'
  OBVIOUS
<1>0. /\ probe \in Nat /\ seq \in Nat \ {0} /\ hop \in Hops
      /\ hop \in Nat /\ MaxHop \in Nat \ {0} /\ 1 \in Hops
  BY Constants DEF EngineTypes, InStep, Hops
<1>1. CASE Send \/ SendFails
  <2>1. /\ pc = "probe" /\ probe = seq - 1 /\ probe' = probe + 1
        /\ ttls' = Append(ttls, hop) /\ UNCHANGED <<pc, seq, hop>>
    BY <1>1 DEF Send, SendFails, ReadyToSend, Engine!SendEcho, Engine!SendFails, vars
  <2>2. probe' = seq
    BY <1>0, <2>1
  <2>3. ttls' \in Seq(Hops) /\ Len(ttls') = probe' /\ ttls'[probe'] = hop
    BY <1>0, <2>1, TtlAppended DEF InStep
  <2> QED BY <1>0, <2>1, <2>2, <2>3 DEF InStep
<1>2. CASE Wait
  <2>1. epc # "idle" /\ UNCHANGED <<probe, pc, seq, hop, ttls>>
    BY <1>2, ReceiveChanges DEF Wait, vars
  <2> QED BY <2>1 DEF InStep
<1>3. CASE Deliver \/ Tick \/ NetFinished \/ RouteChanges \/ UNCHANGED netvars
  <2>1. UNCHANGED <<epc, probe, pc, seq, hop, ttls>>
    BY <1>3 DEF Deliver, Engine!Deliver, Tick, Engine!Tick, NetFinished, Finished,
                RouteChanges, netvars, engine, vars
  <2> QED BY <2>1 DEF InStep
<1>4. CASE EndProbe
  <2>1. PICK rtt \in Rtts : ProbeHop(TraceResultOf(rtt))
    BY <1>4 DEF EndProbe
  <2> DEFINE r == TraceResultOf(rtt)
  <2>2. /\ pc = "probe" /\ epc = "idle" /\ probe = seq /\ UNCHANGED <<epc, probe, ttls>>
        /\ seq' = seq + 1
    BY <1>4, <2>1 DEF EndProbe, TakeResult, ProbeOver, engine, ProbeHop, Record
  <2>3. hop' \in Hops
    <3>1. CASE SweepEnds(r)
      BY <1>0, <2>1, <3>1 DEF ProbeHop, EndOfSweep, SweepEnds
    <3>2. CASE ~SweepEnds(r)
      BY <1>0, <2>1, <3>2 DEF ProbeHop, EndOfSweep, SweepEnds, Hops
    <3> QED BY <3>1, <3>2
  <2>4. probe' = seq' - 1 /\ probe' # seq' /\ seq' \in Nat \ {0}
    BY <1>0, <2>2
  <2> QED BY <2>2, <2>3, <2>4 DEF InStep
<1>5. CASE Proceed
  <2>1. UNCHANGED <<epc, probe, ttls, seq>> /\ pc # "probe"
    BY <1>5 DEF Proceed, engine, NextCycle, PrintRow
  <2>2. hop' \in Hops
    BY <1>0, <1>5 DEF Proceed, NextCycle, PrintRow, Hops
  <2>3. probe = seq - 1 /\ probe # seq
    BY <1>0, <2>1 DEF InStep
  <2> QED BY <1>0, <2>1, <2>2, <2>3 DEF InStep
<1> QED BY <1>1, <1>2, <1>3, <1>4, <1>5 DEF NetNext

LEMMA KeepsStep == NetSpec => [](EngineTypes /\ Reports /\ InStep)
<1>1. NetSpec => []EngineTypes
  BY EngineInvariant, EngineTyped, PTL
<1> QED BY <1>1, ReportsInit, ReportsStep, InStepInit, InStepStep, PTL DEF NetSpec

-----------------------------------------------------------------------------
(* Every step of the program is one of Mtr. *)

LEMMA AnsweredFits ==
  ASSUME NEW s \in {"HOP", "DESTINATION"}, NEW rtt \in Rtts, NEW ip \in Remotes
  PROVE  [status |-> s, rtt_ms |-> rtt, remote_ip |-> ip, error |-> ""] \in TraceResult
<1>1. [status |-> s, rtt_ms |-> rtt, remote_ip |-> ip, error |-> ""] \in AnsweredResult
  BY DEF AnsweredResult
<1> QED BY <1>1 DEF TraceResult

LEMMA ResultsFit ==
  ASSUME EngineTypes, Reports, InStep, ProbeOver, NEW rtt \in Rtts
  PROVE  TraceResultOf(rtt) \in TraceResult
<1>1. result.status \in {"HOP", "DESTINATION", "TIMEOUT", "ERROR"}
  <2>1. epc = "idle" /\ probe > 0
    BY DEF ProbeOver, InStep
  <2> QED BY <2>1 DEF EngineTypes, Reports
<1>2. CASE result.status = "HOP"
  <2>1. result.origin \in 1..Len(ttls)
    BY <1>2 DEF EngineTypes, InStep
  <2>2. ttls[result.origin] \in Hops
    BY <2>1 DEF InStep
  <2>3. RouterOf(result.origin) \in Remotes
    BY <2>2, RoutersAssumption DEF RouterOf
  <2>4. TraceResultOf(rtt)
          = [status |-> "HOP", rtt_ms |-> rtt, remote_ip |-> RouterOf(result.origin), error |-> ""]
    BY <1>2 DEF TraceResultOf
  <2> QED BY <2>3, <2>4, AnsweredFits
<1>3. CASE result.status = "DESTINATION"
  <2>1. TraceResultOf(rtt)
          = [status |-> "DESTINATION", rtt_ms |-> rtt, remote_ip |-> Target, error |-> ""]
    BY <1>3 DEF TraceResultOf
  <2> QED BY <2>1, RoutersAssumption, AnsweredFits
<1>4. CASE result.status \in {"TIMEOUT", "ERROR"}
  <2>1. TraceResultOf(rtt) = [status |-> result.status, rtt_ms |-> 0, remote_ip |-> "",
                              error |-> result.status]
    BY <1>4 DEF TraceResultOf
  <2> QED BY <1>4, <2>1 DEF TraceResult, UnansweredResult
<1> QED BY <1>1, <1>2, <1>3, <1>4

(* Seen without the engine, the steps of the composition are steps of Mtr.   *)
LEMMA BehavesAsMtr == NetSpec => Spec
<1>1. NetInit => Init
  BY DEF NetInit
<1>2. EngineTypes /\ Reports /\ InStep /\ [NetNext]_netvars => [Next]_vars
  <2> SUFFICES ASSUME EngineTypes, Reports, InStep, [NetNext]_netvars PROVE [Next]_vars
    OBVIOUS
  <2>1. CASE EndProbe
    <3>1. PICK rtt \in Rtts : ProbeHop(TraceResultOf(rtt))
      BY <2>1 DEF EndProbe
    <3>2. ProbeOver
      BY <2>1 DEF EndProbe, TakeResult
    <3> QED BY <3>1, <3>2, ResultsFit DEF Next
  <2>2. CASE Proceed \/ NetFinished
    BY <2>2 DEF Proceed, NetFinished, Finished, Next
  <2>3. CASE Send \/ SendFails \/ Wait \/ Deliver \/ Tick \/ RouteChanges \/ UNCHANGED netvars
    BY <2>3 DEF Send, SendFails, Wait, Deliver, Tick, RouteChanges, netvars
  <2> QED BY <2>1, <2>2, <2>3 DEF NetNext
<1> QED BY <1>1, <1>2, KeepsStep, PTL DEF NetSpec, Spec

(* Where the probe of the sweep is, by the engine's number of it; a probe    *)
(* that is over has one of four outcomes.                                    *)
FlightFits ==
  /\ (Flight = "none" <=> probe = seq - 1)
  /\ (Flight = "out" <=> epc # "idle")
  /\ (Flight = "over" <=> epc = "idle" /\ probe = seq)
  /\ Flight = "over" =>
       Outcome = result.status /\ Outcome \in {"HOP", "DESTINATION", "TIMEOUT", "ERROR"}

LEMMA FlightOf == EngineTypes /\ Reports /\ InStep => FlightFits
<1> SUFFICES ASSUME EngineTypes, Reports, InStep PROVE FlightFits
  OBVIOUS
<1>1. probe \in Nat /\ seq \in Nat \ {0} /\ probe \in {seq - 1, seq} /\ seq - 1 # seq
  BY DEF EngineTypes, InStep
<1>2. epc # "idle" => probe = seq
  BY DEF InStep
<1> DEFINE Place ==
             /\ (Flight = "none" <=> probe = seq - 1)
             /\ (Flight = "out" <=> epc # "idle")
             /\ (Flight = "over" <=> epc = "idle" /\ probe = seq)
<1>3. ASSUME probe = seq - 1 PROVE Place
  <2>1. Flight = "none" /\ epc = "idle" /\ probe # seq
    BY <1>1, <1>2, <1>3 DEF Flight
  <2> QED BY <1>3, <2>1
<1>4. ASSUME probe = seq, epc # "idle" PROVE Place
  <2>1. Flight = "out" /\ probe # seq - 1
    BY <1>1, <1>4 DEF Flight
  <2> QED BY <1>4, <2>1
<1>5. ASSUME probe = seq, epc = "idle" PROVE Place
  <2>1. Flight = "over" /\ probe # seq - 1
    BY <1>1, <1>5 DEF Flight
  <2> QED BY <1>5, <2>1
<1>7. Place
  BY <1>1, <1>3, <1>4, <1>5
<1>6. ASSUME Flight = "over"
      PROVE  Outcome = result.status /\ Outcome \in {"HOP", "DESTINATION", "TIMEOUT", "ERROR"}
  <2>1. epc = "idle" /\ probe > 0
    BY <1>1, <1>6, <1>7
  <2> QED BY <1>6, <2>1 DEF EngineTypes, Reports, Outcome
<1> QED BY <1>6, <1>7 DEF FlightFits

LEMMA FlightStep ==
  ASSUME EngineTypes, Reports, InStep, FlightFits, FlightFits', [NetNext]_netvars
  PROVE  [OneProbeAtATime]_<<vars, Flight, Outcome>>
<1>g. /\ (Flight = "none" <=> probe = seq - 1)
      /\ (Flight = "out" <=> epc # "idle")
      /\ (Flight = "over" <=> epc = "idle" /\ probe = seq)
      /\ Flight = "over" => Outcome = result.status
  BY DEF FlightFits
<1>f. /\ (Flight' = "none" <=> probe' = seq' - 1)
      /\ (Flight' = "out" <=> epc' # "idle")
      /\ (Flight' = "over" <=> epc' = "idle" /\ probe' = seq')
  BY DEF FlightFits
<1>o. Flight' = "over" =>
        Outcome' = result'.status /\ Outcome' \in {"HOP", "DESTINATION", "TIMEOUT", "ERROR"}
  BY DEF FlightFits
<1>n. probe \in Nat /\ seq \in Nat \ {0}
  BY DEF EngineTypes, InStep
<1>s. UNCHANGED <<epc, probe, seq, result>> => UNCHANGED <<Flight, Outcome>>
  BY DEF Flight, Outcome
<1>1. CASE Send
  <2>1. pc = "probe" /\ probe = seq - 1 /\ epc' = "check" /\ UNCHANGED vars
    BY <1>1 DEF Send, ReadyToSend, Engine!SendEcho
  <2>2. Flight = "none" /\ Flight' = "out"
    BY <1>f, <2>1, <1>g
  <2> QED BY <2>1, <2>2 DEF OneProbeAtATime, ProbeStarts
<1>2. CASE SendFails
  <2>1. /\ pc = "probe" /\ epc = "idle" /\ probe = seq - 1 /\ probe' = probe + 1
        /\ epc' = epc /\ result' = Engine!Failed /\ UNCHANGED vars
    BY <1>2 DEF SendFails, ReadyToSend, Engine!SendFails
  <2>2. probe' = seq' /\ epc' = "idle" /\ result'.status = "ERROR"
    BY <1>n, <2>1 DEF vars, Engine!Failed
  <2>3. Flight = "none" /\ Flight' = "over"
    BY <1>f, <2>1, <2>2, <1>g
  <2> QED BY <1>o, <2>1, <2>2, <2>3 DEF OneProbeAtATime, ProbeEnds
<1>3. CASE Wait
  <2>1. /\ epc # "idle" /\ probe' = probe /\ UNCHANGED vars
        /\ epc' = "idle" \/ UNCHANGED result
    BY <1>3, ReceiveChanges DEF Wait, Engine!Receive, Engine!DeadlinePassed,
       Engine!ReadClock, Engine!CallSelect, Engine!SelectReady, Engine!SelectExpires,
       Engine!SelectFails, Engine!Accept, Engine!Discard, Engine!RecvFails, Engine!Return
  <2>2. Flight = "out" /\ pc = "probe" /\ probe = seq /\ seq' = seq
    BY <2>1, <1>g DEF InStep, vars
  <2>3. CASE epc' = "idle"
    <3>1. Flight' = "over"
      BY <1>f, <2>1, <2>2, <2>3
    <3> QED BY <1>o, <2>1, <2>2, <3>1 DEF OneProbeAtATime, ProbeEnds
  <2>4. CASE epc' # "idle"
    <3>1. Flight' = "out"
      BY <1>f, <2>4
    <3>2. UNCHANGED <<Flight, Outcome>>
      BY <2>2, <3>1 DEF Outcome
    <3> QED BY <2>1, <3>2
  <2> QED BY <2>3, <2>4
<1>4. CASE EndProbe
  <2>1. PICK rtt \in Rtts : ProbeHop(TraceResultOf(rtt))
    BY <1>4 DEF EndProbe
  <2>2. ProbeOver /\ UNCHANGED <<epc, probe>>
    BY <1>4 DEF EndProbe, TakeResult, engine
  <2>3. TraceResultOf(rtt) \in TraceResult
    BY <2>2, ResultsFit
  <2>4. TraceResultOf(rtt).status = result.status
    BY DEF TraceResultOf
  <2>5. seq' = seq + 1
    BY <2>1 DEF ProbeHop, Record
  <2>6. Flight = "over" /\ Outcome = result.status
    BY <2>2, <1>g DEF ProbeOver
  <2>7. Flight' = "none"
    BY <1>f, <1>n, <2>2, <2>5 DEF ProbeOver
  <2> QED BY <2>1, <2>3, <2>4, <2>6, <2>7 DEF OneProbeAtATime, OutcomeEntered
<1>5. CASE Proceed
  <2>1. /\ pc # "probe" /\ UNCHANGED <<probe, seq>>
        /\ NextCycle \/ PrintRow
    BY <1>5 DEF Proceed, engine, NextCycle, PrintRow
  <2>2. probe = seq - 1
    BY <2>1 DEF InStep
  <2>3. Flight = "none" /\ Flight' = "none"
    BY <1>f, <2>1, <2>2, <1>g
  <2> QED BY <2>1, <2>3 DEF OneProbeAtATime, LoopsGoOn
<1>6. CASE Deliver \/ Tick \/ NetFinished \/ RouteChanges \/ UNCHANGED netvars
  <2>1. UNCHANGED vars /\ UNCHANGED <<epc, probe, result>>
    BY <1>6 DEF Deliver, Engine!Deliver, Tick, Engine!Tick, NetFinished, Finished,
                RouteChanges, netvars, engine
  <2>2. UNCHANGED seq
    BY <2>1 DEF vars
  <2> QED BY <1>s, <2>1, <2>2
<1> QED BY <1>1, <1>2, <1>3, <1>4, <1>5, <1>6 DEF NetNext

(* Probing through the engine, over any network and any changes of the       *)
(* route, is the measurement of Mtr with one probe at a time, its outcome    *)
(* entered once (mtr.c:83-89, 140-168); nothing is assumed of the sequence   *)
(* numbers.                                                                  *)
THEOREM Refinement == NetSpec => ImplementsMtr
<1>1. NetInit => Init /\ Flight = "none"
  BY DEF NetInit, Init, Engine!Init, Flight
<1>2. EngineTypes /\ Reports /\ InStep /\ FlightFits /\ FlightFits' /\ [NetNext]_netvars
        => [OneProbeAtATime]_<<vars, Flight, Outcome>>
  BY FlightStep
<1>3. NetSpec => []FlightFits
  BY FlightOf, KeepsStep, PTL
<1> QED BY <1>1, <1>2, <1>3, KeepsStep, PTL DEF NetSpec, ImplementsMtr

(* Hence all that is proved of Mtr. *)
LEMMA MeasurementHolds == NetSpec => [](IInv /\ CyclesInv)
  BY BehavesAsMtr, Invariance, AllCycles, PTL

-----------------------------------------------------------------------------
(* The route.  Packets and results on their way are about the TTL of the     *)
(* probe they answer.                                                        *)

OnRoute(p) ==
  /\ p.origin \in 1..Len(ttls)
  /\ reroutes = 0 => OnThisRoute(p)

PacketsOnRoute == \A i \in 1..Len(sock) : OnRoute(sock[i])

(* The result of a call is about the distance of the probe it answers. *)
ResultOnRoute ==
  reroutes = 0 =>
    /\ result.status = "DESTINATION" => ttls[result.origin] >= distance
    /\ result.status = "HOP" => ttls[result.origin] < distance

RouteTypes == reroutes \in Nat /\ distance \in 1..(MaxHop + 1)

OnTheWay == RouteTypes /\ PacketsOnRoute /\ ResultOnRoute

LEMMA OnTheWayInit == NetInit => OnTheWay
<1> SUFFICES ASSUME NetInit PROVE OnTheWay
  OBVIOUS
<1>1. sock = <<>> /\ result.status = "PENDING" /\ reroutes = 0 /\ distance \in 1..(MaxHop + 1)
  BY DEF NetInit, Engine!Init, Engine!Blank
<1> QED BY <1>1 DEF OnTheWay, RouteTypes, PacketsOnRoute, ResultOnRoute

(* A TTL that is on record stays what it is. *)
LEMMA OnRouteKept ==
  ASSUME ttls \in Seq(Hops), NEW h \in Hops, ttls' = Append(ttls, h),
         UNCHANGED <<reroutes, distance>>, NEW p, OnRoute(p)
  PROVE  p.origin \in 1..Len(ttls') /\ (reroutes' = 0 => OnThisRoute(p)')
<1>1. /\ Len(ttls') = Len(ttls) + 1 /\ Len(ttls) \in Nat
      /\ \A i \in 1..Len(ttls) : ttls'[i] = ttls[i]
  BY TtlAppended
<1>2. p.origin \in 1..Len(ttls) /\ p.origin \in 1..Len(ttls') /\ ttls'[p.origin] = ttls[p.origin]
  BY <1>1 DEF OnRoute
<1> QED BY <1>2 DEF OnRoute, OnThisRoute

LEMMA OnTheWayStep ==
  EngineTypes /\ InStep /\ OnTheWay /\ [NetNext]_netvars => OnTheWay'
<1> SUFFICES ASSUME EngineTypes, InStep, OnTheWay, [NetNext]_netvars PROVE OnTheWay'
  OBVIOUS
<1>0. /\ sock \in Seq(EngineProofs!Packet) /\ Len(sock) \in Nat
      /\ reroutes \in Nat /\ probe \in Nat /\ onWire \subseteq 1..probe
      /\ ttls \in Seq(Hops) /\ Len(ttls) = probe /\ hop \in Hops
  BY DEF EngineTypes, InStep, OnTheWay, RouteTypes
<1>1. CASE Send \/ SendFails
  <2>1. /\ ttls' = Append(ttls, hop) /\ UNCHANGED <<sock, reroutes, distance>>
        /\ result'.status \in {"PENDING", "ERROR"}
    BY <1>1 DEF Send, SendFails, Engine!SendEcho, Engine!SendFails, Engine!Blank,
                Engine!Failed, route
  <2>2. PacketsOnRoute'
    <3> SUFFICES ASSUME NEW i \in 1..Len(sock) PROVE OnRoute(sock[i])'
      BY <2>1 DEF PacketsOnRoute
    <3>1. OnRoute(sock[i])
      BY DEF OnTheWay, PacketsOnRoute
    <3> QED BY <1>0, <2>1, <3>1, OnRouteKept DEF OnRoute, OnThisRoute
  <2> QED BY <2>1, <2>2 DEF OnTheWay, RouteTypes, ResultOnRoute
<1>2. CASE Wait
  <2>1. /\ UNCHANGED <<ttls, reroutes, distance>>
        /\ \/ UNCHANGED sock
           \/ sock # <<>> /\ sock' = Tail(sock)
        /\ \/ UNCHANGED result
           \/ result' \in {Engine!TimedOut, Engine!Failed}
           \/ sock # <<>> /\ result' = Engine!Answer(Head(sock), "trace")
    BY <1>2, ReceiveChanges DEF Wait, route
  <2>2. PacketsOnRoute'
    <3>1. \A i \in 1..Len(sock') : \E j \in 1..Len(sock) : sock'[i] = sock[j]
      <4>1. CASE UNCHANGED sock
        BY <4>1
      <4>2. CASE sock # <<>> /\ sock' = Tail(sock)
        <5>1. Len(sock') = Len(sock) - 1 /\ \A i \in 1..Len(sock') : sock'[i] = sock[i + 1]
          BY <1>0, <4>2
        <5> QED BY <1>0, <5>1
      <4> QED BY <2>1, <4>1, <4>2
    <3>2. \A p : OnRoute(p) => p.origin \in 1..Len(ttls') /\ (reroutes' = 0 => OnThisRoute(p)')
      BY <2>1 DEF OnRoute, OnThisRoute
    <3> SUFFICES ASSUME NEW i \in 1..Len(sock') PROVE OnRoute(sock[i])'
      BY DEF PacketsOnRoute
    <3>3. PICK j \in 1..Len(sock) : sock'[i] = sock[j]
      BY <3>1
    <3>4. OnRoute(sock[j])
      BY DEF OnTheWay, PacketsOnRoute
    <3> QED BY <3>2, <3>3, <3>4 DEF OnRoute, OnThisRoute
  <2>3. ResultOnRoute'
    <3>1. CASE UNCHANGED result
      BY <2>1, <3>1 DEF OnTheWay, ResultOnRoute
    <3>2. CASE result' \in {Engine!TimedOut, Engine!Failed}
      BY <3>2 DEF ResultOnRoute, Engine!TimedOut, Engine!Failed
    <3>3. CASE sock # <<>> /\ result' = Engine!Answer(Head(sock), "trace")
      <4> DEFINE p == Head(sock)
      <4>1. OnRoute(p)
        <5>1. 1 \in 1..Len(sock) /\ p = sock[1]
          BY <1>0, <3>3
        <5> QED BY <5>1 DEF OnTheWay, PacketsOnRoute
      <4>2. /\ result'.origin = p.origin
            /\ result'.status = IF p.type = "TIME_EXCEEDED" THEN "HOP" ELSE "DESTINATION"
        BY <3>3 DEF Engine!Answer
      <4> HIDE DEF p
      <4>3. ttls[p.origin] \in Nat /\ distance \in Nat
        BY <1>0, <4>1, Constants DEF OnRoute, OnTheWay, RouteTypes, Hops
      <4>4. reroutes = 0 =>
              /\ p.type # "TIME_EXCEEDED" => ttls[p.origin] >= distance
              /\ p.type = "TIME_EXCEEDED" => ttls[p.origin] < distance
        BY <4>1, <4>3 DEF OnRoute, OnThisRoute
      <4> QED BY <2>1, <4>2, <4>4 DEF ResultOnRoute
    <3> QED BY <2>1, <3>1, <3>2, <3>3
  <2> QED BY <2>1, <2>2, <2>3 DEF OnTheWay, RouteTypes
<1>3. CASE Deliver
  <2>0. PICK q \in onWire :
          \E p \in Engine!AnswersTo(q) : OnThisRoute(p) /\ Engine!Deliver(p)
    BY <1>3 DEF Deliver
  <2>1. PICK p \in Engine!AnswersTo(q) : OnThisRoute(p) /\ Engine!Deliver(p)
    BY <2>0
  <2>2. /\ sock' = Append(sock, p) /\ p.origin = q
        /\ UNCHANGED <<ttls, reroutes, distance, result>>
    BY <1>3, <2>1 DEF Deliver, Engine!Deliver, Engine!AnswersTo, route
  <2>3. OnRoute(p)
    BY <1>0, <2>1, <2>2 DEF OnRoute
  <2>4. \A i \in 1..Len(sock') : sock'[i] = p \/ \E j \in 1..Len(sock) : sock'[i] = sock[j]
    <3>1. /\ Len(sock') = Len(sock) + 1 /\ sock'[Len(sock) + 1] = p
          /\ \A i \in 1..Len(sock) : sock'[i] = sock[i]
      BY <1>0, <2>2
    <3> QED BY <1>0, <3>1
  <2>5. \A i \in 1..Len(sock') : OnRoute(sock'[i])
    BY <2>3, <2>4 DEF OnTheWay, PacketsOnRoute
  <2>6. PacketsOnRoute'
    BY <2>2, <2>5 DEF PacketsOnRoute, OnRoute, OnThisRoute
  <2> QED BY <2>2, <2>6 DEF OnTheWay, RouteTypes, ResultOnRoute
<1>4. CASE RouteChanges
  <2>1. /\ reroutes' = reroutes + 1 /\ distance' \in 1..(MaxHop + 1)
        /\ UNCHANGED <<sock, ttls>>
    BY <1>4 DEF RouteChanges, engine
  <2>2. reroutes' \in Nat /\ reroutes' # 0
    BY <1>0, <2>1
  <2> QED BY <2>1, <2>2 DEF OnTheWay, RouteTypes, PacketsOnRoute, OnRoute, ResultOnRoute
<1>5. CASE EndProbe \/ Proceed \/ NetFinished \/ Tick \/ UNCHANGED netvars
  <2>1. UNCHANGED <<sock, result, ttls, reroutes, distance>>
    BY <1>5 DEF EndProbe, TakeResult, Proceed, NetFinished, Tick, Engine!Tick,
                Engine!netVars, netvars, engine, route
  <2> QED BY <2>1 DEF OnTheWay, RouteTypes, PacketsOnRoute, OnRoute, OnThisRoute, ResultOnRoute
<1> QED BY <1>1, <1>2, <1>3, <1>4, <1>5 DEF NetNext

LEMMA AllOnTheWay == NetSpec => []OnTheWay
  BY OnTheWayInit, OnTheWayStep, KeepsStep, PTL DEF NetSpec

-----------------------------------------------------------------------------
(* The table. *)

(* What a hop's record says after a result: the newest answer, or what it    *)
(* said before; a hop that never answered has no address.                    *)
LEMMA AddressRecorded ==
  ASSUME NEW s \in HopStats, FlagsAgree(s), NEW r \in TraceResult
  PROVE  LET t == mtr_hop_stats_record(s, r) IN
         /\ trace_result_has_rtt(r) => t.status = r.status /\ t.remote_ip = r.remote_ip
         /\ ~trace_result_has_rtt(r) =>
              /\ t.remote_ip = s.remote_ip
              /\ \/ t.status = s.status
                 \/ /\ t.status \notin {"HOP", "DESTINATION"}
                    /\ s.status \notin {"HOP", "DESTINATION"}
<1> DEFINE t == mtr_hop_stats_record(s, r)
<1>1. s.received <= s.sent
  BY DEF FlagsAgree
<1>2. CASE trace_result_has_rtt(r)
  <2>1. t.status = StatusAfter(s, r)
    BY <1>1, <1>2, RecordedFields DEF Recorded
  <2>2. t.status = r.status
    BY <1>2, <2>1 DEF StatusAfter, trace_result_has_rtt
  <2>3. t.remote_ip = r.remote_ip
    <3> DEFINE w == WithJitter(Counted(s, r.rtt_ms), r.rtt_ms)
               p == <<s.sent + 1 - w.received, s.sent + 1>>
               a == StatusAfter(s, r)
               n == s.sent + 1
    <3>1. /\ w \in HopStats
          /\ t = [w EXCEPT !.previous_ms = r.rtt_ms, !.has_previous_ms = TRUE,
                           !.has_rtt = TRUE, !.sent = n, !.error = r.error,
                           !.remote_ip = r.remote_ip, !.status = a, !.no_reply = p]
      BY <1>2, RecordAnswered
    <3> HIDE DEF w, p, a, n, t
    <3> QED BY <3>1 DEF HopStats
  <2> QED BY <1>2, <2>2, <2>3
<1>3. CASE ~trace_result_has_rtt(r)
  <2>1. t.status = StatusAfter(s, r)
    BY <1>1, <1>3, UnrecordedFields DEF Unrecorded
  <2>2. r.status \in {"TIMEOUT", "ERROR"}
    BY <1>3, ResultTypes DEF trace_result_has_rtt
  <2>3. \/ t.status = s.status
        \/ t.status \notin {"HOP", "DESTINATION"} /\ s.status \notin {"HOP", "DESTINATION"}
    BY <2>1, <2>2 DEF StatusAfter, FlagsAgree
  <2>4. t.remote_ip = s.remote_ip
    <3> DEFINE p == <<s.sent + 1 - s.received, s.sent + 1>>
               a == StatusAfter(s, r)
               n == s.sent + 1
    <3>1. t = [s EXCEPT !.sent = n, !.error = r.error, !.remote_ip = s.remote_ip,
                        !.status = a, !.no_reply = p]
      BY <1>3, RecordUnanswered
    <3> HIDE DEF p, a, n, t
    <3> QED BY <3>1 DEF HopStats
  <2> QED BY <1>3, <2>3, <2>4
<1> QED BY <1>2, <1>3

Current == EngineProofs!AnswerIsForCurrentProbe

(* The result of a probe is about the hop it was sent for. *)
LEMMA ResultIsOfTheHop ==
  ASSUME EngineTypes, Reports, InStep, OnTheWay, Current, ProbeOver, NEW rtt \in Rtts
  PROVE  LET r == TraceResultOf(rtt) IN
         /\ r.status = "HOP" => r.remote_ip = Routers[hop]
         /\ r.status = "DESTINATION" => r.remote_ip = Target
         /\ reroutes = 0 =>
              /\ r.status = "DESTINATION" => hop >= distance
              /\ r.status = "HOP" => hop < distance
<1>1. TraceResultOf(rtt).status = result.status
  BY DEF TraceResultOf
<1>2. result.status \in {"HOP", "DESTINATION"} => ttls[result.origin] = hop
  <2>1. result.status \in {"HOP", "DESTINATION"} => result.origin = probe
    BY DEF Current, EngineProofs!AnswerIsForCurrentProbe, EngineProofs!Answered
  <2>2. ttls[probe] = hop
    BY DEF InStep, ProbeOver
  <2> QED BY <2>1, <2>2
<1>3. result.status = "HOP" => TraceResultOf(rtt).remote_ip = Routers[hop]
  BY <1>2 DEF TraceResultOf, RouterOf
<1>4. result.status = "DESTINATION" => TraceResultOf(rtt).remote_ip = Target
  BY DEF TraceResultOf
<1> QED BY <1>1, <1>2, <1>3, <1>4 DEF OnTheWay, ResultOnRoute

(* A probe of this cycle to come. *)
Open(h) == IF pc = "probe" /\ h >= hop THEN 1 ELSE 0

TableFits ==
  /\ \A h \in Hops : AddressFits(stats[h], h)
  /\ reroutes = 0 =>
       /\ \A h \in Hops : DistanceFits(stats[h], h)
       /\ \A h \in Hops : h <= distance => stats[h].sent = cycle - Open(h)

LEMMA TableFitsInit == NetInit => TableFits
<1> SUFFICES ASSUME NetInit PROVE TableFits
  OBVIOUS
<1>1. \A h \in Hops : /\ stats[h].status = "UNKNOWN" /\ stats[h].remote_ip = ""
                      /\ stats[h].sent = 0
  BY DEF NetInit, Init, mtr_hop_stats_init
<1>2. \A h \in Hops : cycle - Open(h) = 0
  BY DEF NetInit, Init, Open, Hops
<1> QED BY <1>1, <1>2 DEF TableFits, AddressFits, DistanceFits

(* Steps that leave the statistics and the route alone. *)
LEMMA TableFitsKept ==
  ASSUME TableFits, UNCHANGED stats,
         reroutes' = 0 => UNCHANGED <<reroutes, distance>>
                          /\ \A h \in Hops : cycle' - Open(h)' = cycle - Open(h)
  PROVE  TableFits'
<1>1. \A h \in Hops : AddressFits(stats[h], h)'
  BY DEF TableFits, AddressFits
<1>2. ASSUME reroutes' = 0
      PROVE  /\ \A h \in Hops : DistanceFits(stats[h], h)'
             /\ \A h \in Hops : h <= distance' => stats'[h].sent = cycle' - Open(h)'
  <2>1. /\ UNCHANGED distance /\ reroutes = 0
        /\ \A h \in Hops : cycle' - Open(h)' = cycle - Open(h)
    BY <1>2
  <2>2. \A h \in Hops : DistanceFits(stats[h], h)'
    BY <2>1 DEF TableFits, DistanceFits
  <2> QED BY <2>1, <2>2 DEF TableFits
<1> QED BY <1>1, <1>2 DEF TableFits

LEMMA TableFitsStep ==
  IInv /\ CyclesInv /\ EngineTypes /\ Reports /\ InStep /\ OnTheWay /\ Current
    /\ TableFits /\ [NetNext]_netvars => TableFits'
<1> SUFFICES ASSUME IInv, CyclesInv, EngineTypes, Reports, InStep, OnTheWay, Current,
                    TableFits, [NetNext]_netvars
             PROVE  TableFits'
  OBVIOUS
<1>0. /\ hop \in Hops /\ cycle \in Nat /\ stats \in [Hops -> HopStats]
      /\ \A h \in Hops : h \in Nat
      /\ \A h \in Hops : stats[h].sent \in Nat
  BY MeasurementTypes
<1>00. /\ MaxHop \in Nat /\ distance \in Nat /\ reroutes \in Nat
       /\ \A h \in Hops : h <= MaxHop /\ h >= 1
  BY Constants DEF OnTheWay, RouteTypes, Hops
<1>1. CASE EndProbe
  <2>1. PICK rtt \in Rtts : ProbeHop(TraceResultOf(rtt))
    BY <1>1 DEF EndProbe
  <2>2. ProbeOver /\ UNCHANGED <<reroutes, distance>> /\ pc = "probe" /\ cycle' = cycle
    BY <1>1, <2>1 DEF EndProbe, TakeResult, route, ProbeOver, ProbeHop
  <2> DEFINE r == TraceResultOf(rtt)
             t == mtr_hop_stats_record(stats[hop], r)
  <2>3. r \in TraceResult
    BY <2>2, ResultsFit
  <2>4. /\ r.status = "HOP" => r.remote_ip = Routers[hop]
        /\ r.status = "DESTINATION" => r.remote_ip = Target
        /\ reroutes = 0 =>
             /\ r.status = "DESTINATION" => hop >= distance
             /\ r.status = "HOP" => hop < distance
    BY <2>2, ResultIsOfTheHop
  <2>5. /\ stats' = [stats EXCEPT ![hop] = t]
        /\ \/ pc' = "probe" /\ hop' = hop + 1 /\ ~SweepEnds(r)
           \/ pc' # "probe" /\ SweepEnds(r)
    <3>1. ProbeHop(r)
      BY <2>1
    <3> HIDE DEF r
    <3>2. stats' = [stats EXCEPT ![hop] = t]
      BY <3>1 DEF ProbeHop, Record
    <3>3. CASE SweepEnds(r)
      <4>1. EndOfSweep
        BY <3>1, <3>3 DEF ProbeHop
      <4> QED BY <3>2, <3>3, <4>1 DEF EndOfSweep
    <3>4. CASE ~SweepEnds(r)
      <4>1. hop' = hop + 1 /\ pc' = pc
        BY <3>1, <3>4 DEF ProbeHop
      <4> QED BY <2>2, <3>2, <3>4, <4>1
    <3> QED BY <3>3, <3>4
  <2> HIDE DEF r
  <2>6. stats[hop] \in HopStats /\ FlagsAgree(stats[hop])
    BY <1>0 DEF IInv, StatusReflectsAnswers
  <2>7. t.sent = stats[hop].sent + 1
    BY <2>3, <2>6, SentStep
  <2>8. /\ trace_result_has_rtt(r) => t.status = r.status /\ t.remote_ip = r.remote_ip
        /\ ~trace_result_has_rtt(r) =>
             /\ t.remote_ip = stats[hop].remote_ip
             /\ \/ t.status = stats[hop].status
                \/ /\ t.status \notin {"HOP", "DESTINATION"}
                   /\ stats[hop].status \notin {"HOP", "DESTINATION"}
    BY <2>3, <2>6, AddressRecorded
  <2> HIDE DEF t
  <2>9. \A h \in Hops : stats'[h] = IF h = hop THEN t ELSE stats[h]
    BY <1>0, <2>5
  <2>10. AddressFits(t, hop)
    <3>1. AddressFits(stats[hop], hop)
      BY <1>0 DEF TableFits
    <3> QED BY <2>4, <2>8, <3>1 DEF AddressFits, trace_result_has_rtt
  <2>11. \A h \in Hops : AddressFits(stats[h], h)'
    BY <2>9, <2>10 DEF TableFits, AddressFits
  <2>12. ASSUME reroutes = 0
         PROVE  \A h \in Hops : DistanceFits(stats[h], h)'
    <3>1. DistanceFits(stats[hop], hop)
      BY <1>0, <2>12 DEF TableFits
    <3>2. DistanceFits(t, hop)
      BY <2>4, <2>8, <2>12, <3>1 DEF DistanceFits, trace_result_has_rtt
    <3> QED BY <2>2, <2>9, <2>12, <3>2 DEF TableFits, DistanceFits
  <2>13. ASSUME reroutes = 0, NEW h \in Hops, h <= distance
         PROVE  stats'[h].sent = cycle' - Open(h)'
    <3>1. stats[h].sent = cycle - Open(h)
      BY <2>13 DEF TableFits
    <3>2. stats'[h].sent = IF h = hop THEN stats[h].sent + 1 ELSE stats[h].sent
      BY <2>7, <2>9
    <3>3. Open(h)' = IF h > hop THEN 1 ELSE 0
      <4>1. CASE pc' = "probe" /\ hop' = hop + 1
        <5>1. h >= hop + 1 <=> h > hop
          BY <1>0
        <5> QED BY <4>1, <5>1 DEF Open
      <4>2. CASE pc' # "probe" /\ SweepEnds(r)
        <5>1. hop >= distance \/ hop = MaxHop
          BY <2>4, <2>13, <4>2 DEF SweepEnds, destination_reached
        <5>2. ~(h > hop)
          BY <1>0, <1>00, <2>13, <5>1
        <5> QED BY <4>2, <5>2 DEF Open
      <4> QED BY <2>5, <4>1, <4>2
    <3>4. Open(h) = IF h >= hop THEN 1 ELSE 0
      BY <2>2 DEF Open
    <3> QED BY <1>0, <2>2, <3>1, <3>2, <3>3, <3>4
  <2> QED BY <2>2, <2>11, <2>12, <2>13 DEF TableFits
<1>2. CASE Proceed
  <2>1. UNCHANGED <<stats, reroutes, distance>>
    BY <1>2 DEF Proceed, route, NextCycle, PrintRow
  <2>2. \A h \in Hops : cycle' - Open(h)' = cycle - Open(h)
    <3>1. CASE NextCycle
      <4>1. pc = "sleep" /\ pc' = "probe" /\ cycle' = cycle + 1 /\ hop' = 1
        BY <3>1 DEF NextCycle, CyclesInv, StartsAtFirstHop
      <4>2. \A h \in Hops : Open(h) = 0 /\ Open(h)' = 1
        BY <1>00, <4>1 DEF Open
      <4> QED BY <1>0, <4>1, <4>2
    <3>2. CASE PrintRow
      <4>1. pc = "table" /\ pc' \in {"table", "done"} /\ cycle' = cycle
        BY <3>2 DEF PrintRow
      <4> QED BY <4>1 DEF Open
    <3> QED BY <1>2, <3>1, <3>2 DEF Proceed
  <2> QED BY <2>1, <2>2, TableFitsKept
<1>3. CASE RouteChanges
  <2>1. reroutes' # 0 /\ UNCHANGED stats
    BY <1>00, <1>3 DEF RouteChanges, vars
  <2> QED BY <2>1, TableFitsKept
<1>4. CASE Send \/ SendFails \/ Wait \/ Deliver \/ Tick \/ NetFinished \/ UNCHANGED netvars
  <2>1. UNCHANGED <<stats, reroutes, distance, cycle, pc, hop>>
    BY <1>4 DEF Send, SendFails, Wait, Deliver, Tick, NetFinished, Finished, netvars, vars, route
  <2>2. \A h \in Hops : cycle' - Open(h)' = cycle - Open(h)
    BY <2>1 DEF Open
  <2> QED BY <2>1, <2>2, TableFitsKept
<1> QED BY <1>1, <1>2, <1>3, <1>4 DEF NetNext

(* A non-empty set of hops has a first one. *)
LEMMA FirstExists ==
  ASSUME NEW found \in SUBSET Hops
  PROVE  FirstOf(found) = 0 <=> found = {}
<1>1. \A h \in Hops : h \in Nat /\ h # 0
  BY Constants DEF Hops
<1>2. ASSUME found # {} PROVE FirstOf(found) \in found
  <2>1. found \in SUBSET Nat
    BY <1>1
  <2>2. \E h \in found : \A g \in found : h <= g
    BY <1>2, <2>1, SmallestExists
  <2> QED BY <1>2, <2>2 DEF FirstOf
<1>3. found = {} => FirstOf(found) = 0
  BY DEF FirstOf
<1> QED BY <1>1, <1>2, <1>3

(* On a route that stays, the diagnosis finds the destination just when it   *)
(* has answered.                                                             *)
LEMMA FoundIsAnswered ==
  ASSUME IInv, CyclesInv, OnTheWay, TableFits, reroutes = 0, Measured
  PROVE  DestinationIsFound
<1>1. \A h \in Hops : h <= distance => stats[h].sent = Count
  <2>1. cycle = Count /\ Count \in Nat
    BY Constants DEF CyclesInv, EndsWithLastCycle
  <2>2. \A h \in Hops : Open(h) = 0
    BY DEF Measured, Open
  <2> QED BY <2>1, <2>2 DEF TableFits
<1> DEFINE found == {i \in Hops : stats[i].sent > 0 /\ stats[i].status = "DESTINATION"}
<1>2. find_destination_hop(stats, MaxHop) = 0 <=> found = {}
  <2>1. find_destination_hop(stats, MaxHop) = FirstOf(found)
    BY DEF find_destination_hop, Hops
  <2>2. found \in SUBSET Hops
    OBVIOUS
  <2> HIDE DEF found
  <2> QED BY <2>1, <2>2, FirstExists
<1>3. \A h \in Hops : /\ FlagsAgree(stats[h]) /\ DistanceFits(stats[h], h)
                      /\ stats[h].sent \in Nat /\ stats[h].received \in Nat
                      /\ h \in Nat /\ distance \in Nat
  <2>1. stats \in [Hops -> HopStats] /\ \A h \in Hops : h \in Nat
    BY MeasurementTypes
  <2>2. \A h \in Hops : stats[h].sent \in Nat /\ stats[h].received \in Nat
    BY <2>1 DEF HopStats
  <2>3. \A h \in Hops : FlagsAgree(stats[h]) /\ DistanceFits(stats[h], h)
    BY DEF IInv, StatusReflectsAnswers, TableFits
  <2>4. distance \in Nat
    BY Constants DEF OnTheWay, RouteTypes
  <2> QED BY <2>1, <2>2, <2>3, <2>4
<1>4. ASSUME NEW h \in Hops
      PROVE  h \in found <=> h >= distance /\ stats[h].received # 0
  <2>1. h \in found => h >= distance /\ stats[h].received # 0
    BY <1>3 DEF FlagsAgree, DistanceFits
  <2>2. h >= distance /\ stats[h].received # 0
          => stats[h].status = "DESTINATION" /\ stats[h].sent > 0
    BY <1>3 DEF FlagsAgree, DistanceFits
  <2> QED BY <2>1, <2>2
<1> HIDE DEF found
<1>5. found \subseteq Hops
  BY DEF found
<1> QED BY <1>1, <1>2, <1>4, <1>5 DEF DestinationIsFound

(* However late, often or out of order answers come, and however the route   *)
(* changes: every row of the table is about its own hop.  And on a route     *)
(* that stays, the table shows the route (mtr.c:74-77, 143-147,              *)
(* baseline.c:270-278).  The probes of a run must have different sequence    *)
(* numbers.                                                                  *)
THEOREM TableIsOfTheRoute == MaxProbe <= SeqMod => (NetSpec => []TableShowsRoute)
<1> SUFFICES ASSUME MaxProbe <= SeqMod PROVE NetSpec => []TableShowsRoute
  OBVIOUS
<1>1. NetSpec => []Current
  BY EngineAnswersCurrent DEF Current
<1>2. NetSpec => []TableFits
  BY <1>1, TableFitsInit, TableFitsStep, MeasurementHolds, KeepsStep, AllOnTheWay, PTL
     DEF NetSpec
<1>3. IInv /\ CyclesInv /\ OnTheWay /\ TableFits => TableShowsRoute
  <2> SUFFICES ASSUME IInv, CyclesInv, OnTheWay, TableFits PROVE TableShowsRoute
    OBVIOUS
  <2>1. reroutes = 0 /\ Measured => DestinationIsFound
    BY FoundIsAnswered
  <2> QED BY <2>1 DEF TableFits, TableShowsRoute
<1> QED BY <1>2, <1>3, MeasurementHolds, AllOnTheWay, PTL
=============================================================================
