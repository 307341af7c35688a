---------------------------- MODULE TraceProofs -----------------------------
(***************************************************************************)
(* Proofs about Trace, for every number of hops and attempts and every     *)
(* space of sequence numbers with room for all of them.  What is said of   *)
(* the lists of probes and rows is proved from where the program is in its *)
(* loops: probes and rows of hops behind it do not change any more, and    *)
(* those of the current hop are known from pc and result.                  *)
(***************************************************************************)
EXTENDS Trace, SequenceTheorems, TLAPS

Probes == [ttl : Hops, seq : 0..(SeqMod - 1), status : Outcomes]

Attempts == 1..TraceAttempts

LEMMA Constants ==
  /\ MaxHop \in Nat /\ MaxHop > 0
  /\ TraceAttempts \in Nat /\ TraceAttempts > 0
  BY MaxHopAssumption, AttemptsAssumption

(* What Append does, element by element. *)
LEMMA Appended ==
  ASSUME NEW S, NEW s \in Seq(S), NEW e \in S
  PROVE  /\ Append(s, e) \in Seq(S)
         /\ Len(s) \in Nat /\ Len(Append(s, e)) = Len(s) + 1
         /\ DOMAIN s = 1..Len(s) /\ DOMAIN Append(s, e) = 1..(Len(s) + 1)
         /\ \A i \in 1..Len(s) : Append(s, e)[i] = s[i]
         /\ Append(s, e)[Len(s) + 1] = e
  BY AppendProperties, LenProperties

-----------------------------------------------------------------------------
(* Sequence numbers: in the order of hops and attempts, and never cut.       *)

LEMMA TimesMonotonic ==
  ASSUME NEW a \in Nat, NEW b \in Nat, NEW n \in Nat, a <= b
  PROVE  a * n <= b * n
  BY SMT

LEMMA SeqUncut ==
  ASSUME NEW h \in Hops, NEW a \in Attempts
  PROVE  /\ Seq16(h, a) = (h - 1) * TraceAttempts + a
         /\ Seq16(h, a) \in 0..(SeqMod - 1)
<1> DEFINE n == (h - 1) * TraceAttempts
<1>1. h - 1 \in Nat /\ h \in Nat /\ h <= MaxHop /\ a \in Nat /\ a <= TraceAttempts
  BY Constants DEF Hops, Attempts
<1>2. n \in Nat /\ h * TraceAttempts = n + TraceAttempts
  BY <1>1, Constants, SMT
<1>3. h * TraceAttempts <= MaxHop * TraceAttempts
  BY <1>1, Constants, TimesMonotonic
<1>4. MaxHop * TraceAttempts \in Nat
  BY Constants, SMT
<1> HIDE DEF n
<1>5. n + a \in Nat /\ n + a < SeqMod
  <2> DEFINE m == MaxHop * TraceAttempts  k == h * TraceAttempts
  <2>1. m \in Nat /\ k <= m /\ k = n + TraceAttempts /\ m < SeqMod
    BY <1>2, <1>3, <1>4, SeqAssumption
  <2> HIDE DEF m, k
  <2>2. SeqMod \in Nat
    BY SeqAssumption
  <2> QED BY <1>1, <1>2, <2>1, <2>2, Constants
<1>6. SeqMod \in Nat /\ \A k \in Nat : k < SeqMod => k % SeqMod = k
  BY SeqAssumption, SMT
<1> QED BY <1>5, <1>6 DEF Seq16, n

LEMMA SeqOrdered ==
  ASSUME NEW g \in Hops, NEW h \in Hops, NEW a \in Attempts, NEW b \in Attempts,
         g < h \/ (g = h /\ a < b)
  PROVE  Seq16(g, a) < Seq16(h, b)
<1> DEFINE m == (g - 1) * TraceAttempts  n == (h - 1) * TraceAttempts
<1>1. Seq16(g, a) = m + a /\ Seq16(h, b) = n + b
  BY SeqUncut
<1>2. g \in Nat /\ g - 1 \in Nat /\ h - 1 \in Nat /\ a \in Nat /\ b \in Nat
      /\ a <= TraceAttempts /\ 0 < b
  BY Constants DEF Hops, Attempts
<1>3. m \in Nat /\ n \in Nat /\ g * TraceAttempts = m + TraceAttempts
  BY <1>2, Constants, SMT
<1>4. CASE g < h
  <2>1. g * TraceAttempts <= n
    BY <1>2, <1>4, Constants, TimesMonotonic DEF Hops
  <2>2. m + TraceAttempts <= n
    BY <1>3, <2>1
  <2> HIDE DEF m, n
  <2> QED BY <1>1, <1>2, <1>3, <2>2, Constants
<1>5. CASE g = h /\ a < b
  <2>1. m = n
    BY <1>5
  <2> HIDE DEF m, n
  <2> QED BY <1>1, <1>2, <1>3, <1>5, <2>1
<1> QED BY <1>4, <1>5

-----------------------------------------------------------------------------
(* Types. *)

(* While a hop is probed, its TTL is the one on the socket. *)
TtlIsSet == pc = "attempt" => ttl = hop

TypeInv == TypeOK /\ TtlIsSet

LEMMA TypeInit == Init => TypeInv
<1> SUFFICES ASSUME Init PROVE TypeInv
  OBVIOUS
<1>1. 1 \in Hops /\ 1 \in Attempts /\ 0 \in 0..MaxHop
  BY Constants DEF Hops, Attempts
<1>2. <<>> \in Seq(Row) /\ <<>> \in Seq(Probes)
  BY EmptySeq
<1> QED BY <1>1, <1>2 DEF Init, TypeInv, TypeOK, TtlIsSet, Outcomes, Attempts, Probes

(* The loops stay within their bounds. *)
LEMMA LoopVariables ==
  ASSUME TypeInv
  PROVE  /\ hop \in Hops /\ hop \in Nat /\ hop \in 0..MaxHop
         /\ attempt \in Attempts /\ attempt \in Nat /\ 1 \in Attempts
         /\ attempt < TraceAttempts => attempt + 1 \in Attempts
         /\ hop # MaxHop => hop + 1 \in Hops
<1>1. hop \in Hops /\ attempt \in Attempts
  BY DEF TypeInv, TypeOK, Attempts
<1> QED BY <1>1, Constants DEF Hops, Attempts

(* The probe and the row that are about to be recorded. *)
LEMMA Recorded ==
  ASSUME TypeInv
  PROVE  /\ probes \in Seq(Probes) /\ rows \in Seq(Row) /\ csvAccepted \in Seq(Row)
         /\ [hop |-> hop, status |-> result] \in Row
         /\ pc = "attempt" => \A s \in Outcomes :
              [ttl |-> ttl, seq |-> Seq16(hop, attempt), status |-> s] \in Probes
<1>1. Seq16(hop, attempt) \in 0..(SeqMod - 1)
  BY LoopVariables, SeqUncut
<1> QED BY <1>1 DEF TypeInv, TypeOK, TtlIsSet, Row, Probes

LEMMA TypeStep == TypeInv /\ [Next]_vars => TypeInv'
<1> SUFFICES ASSUME TypeInv, [Next]_vars PROVE TypeInv'
  OBVIOUS
<1>1. /\ hop \in 0..MaxHop /\ 1 \in Attempts
      /\ attempt < TraceAttempts => attempt + 1 \in Attempts
      /\ hop # MaxHop => hop + 1 \in Hops
  BY LoopVariables
<1>2. /\ [hop |-> hop, status |-> result] \in Row
      /\ pc = "attempt" => \A s \in Outcomes :
           [ttl |-> ttl, seq |-> Seq16(hop, attempt), status |-> s] \in Probes
  BY Recorded
<1> USE DEF TypeInv, TypeOK, TtlIsSet, config
<1>3. CASE SetTtl
  BY <1>1, <1>3 DEF SetTtl, Attempts
<1>4. CASE SetTtlFails
  BY <1>4 DEF SetTtlFails, Outcomes
<1>5. ASSUME NEW s \in Outcomes, Attempt(s) PROVE TypeInv'
  <2>1. probes' \in Seq(Probes)
    BY <1>2, <1>5, AppendProperties DEF Attempt, Probes
  <2>2. attempt' \in Attempts /\ pc' \in {"attempt", "row"}
    BY <1>1, <1>5 DEF Attempt, AfterAttempt, Attempts
  <2> QED BY <1>5, <2>1, <2>2 DEF Attempt, Probes, Attempts
<1>6. CASE SendFails
  BY <1>6 DEF SendFails, Outcomes
<1>7. CASE SkipRow
  BY <1>7 DEF SkipRow
<1>8. CASE PrintRow
  <2>1. rows' \in Seq(Row)
    BY <1>2, <1>8, AppendProperties DEF PrintRow
  <2> QED BY <1>8, <2>1 DEF PrintRow
<1>9. CASE WriteCsvRow
  <2>1. csvAccepted' \in Seq(Row)
    BY <1>2, <1>9, AppendProperties DEF WriteCsvRow
  <2> QED BY <1>9, <2>1 DEF WriteCsvRow
<1>10. CASE CsvFails
  BY <1>10 DEF CsvFails
<1>11. CASE NextHop
  <2>1. hop' \in Hops
    BY <1>1, <1>11 DEF NextHop, Last
  <2> QED BY <1>11, <2>1 DEF NextHop, Outcomes
<1>12. CASE Close
  BY <1>12 DEF Close
<1>13. CASE UNCHANGED vars
  BY <1>13 DEF vars
<1> QED BY <1>3, <1>4, <1>5, <1>6, <1>7, <1>8, <1>9, <1>10, <1>11, <1>12, <1>13
        DEF Next, Closed

LEMMA Typed == Spec => []TypeInv
  BY TypeInit, TypeStep, PTL DEF Spec

(* The variables of run_trace_mode keep their types. *)
THEOREM TypeCorrect == Spec => []TypeOK
<1>1. TypeInv => TypeOK
  BY DEF TypeInv
<1> QED BY <1>1, Typed, PTL

-----------------------------------------------------------------------------
(* The numbers of the probes sent so far. *)

(* Each probe was an attempt at its hop, at this one or one before, and no   *)
(* attempt that is still to come; numbers increase.                          *)
IsAttempt(p, place, h, next) ==
  /\ p.ttl \in Hops /\ p.ttl <= h /\ p.seq \in Nat
  /\ place = "ttl" => p.ttl < h
  /\ \E a \in Attempts :
       /\ p.seq = Seq16(p.ttl, a)
       /\ place = "attempt" /\ p.ttl = h => a < next

Now(p) == IsAttempt(p, pc, hop, attempt)
Then(p) == IsAttempt(p, pc', hop', attempt')

Numbered ==
  /\ \A i \in DOMAIN probes : Now(probes[i])
  /\ \A i, j \in DOMAIN probes : i < j => probes[i].seq < probes[j].seq

LEMMA NumberedInit == Init => Numbered
<1>1. ASSUME Init PROVE probes = <<>> /\ probes \in Seq(Probes)
  BY <1>1, EmptySeq DEF Init
<1>2. ASSUME Init PROVE DOMAIN probes = {}
  BY <1>1, <1>2, EmptySeq, LenProperties
<1> QED BY <1>2 DEF Numbered

(* Steps that send nothing. *)
LEMMA NumberedKept ==
  ASSUME TypeInv, Numbered, UNCHANGED probes,
         \A p : Now(p) => Then(p)
  PROVE  Numbered'
  BY DEF Numbered, Now, Then

LEMMA NumberedStep == TypeInv /\ Numbered /\ [Next]_vars => Numbered'
<1> SUFFICES ASSUME TypeInv, Numbered, [Next]_vars PROVE Numbered'
  OBVIOUS
<1>1. hop \in Nat /\ attempt \in Nat /\ hop \in Hops /\ attempt \in Attempts
  BY LoopVariables
<1>2. ASSUME UNCHANGED <<hop, probes>>, pc' \notin {"ttl", "attempt"} PROVE Numbered'
  <2>1. ASSUME NEW p, Now(p) PROVE Then(p)
    BY <1>2, <2>1 DEF IsAttempt, Now, Then
  <2> QED BY <1>2, <2>1, NumberedKept
<1>3. CASE SetTtl
  <2>1. ASSUME NEW p, Now(p) PROVE Then(p)
    <3>1. p.ttl \in Hops /\ p.ttl < hop /\ p.seq \in Nat
      BY <1>3, <2>1 DEF IsAttempt, Now, Then, SetTtl
    <3>2. p.ttl \in Nat
      BY <3>1 DEF Hops
    <3> QED BY <1>1, <1>3, <2>1, <3>1, <3>2 DEF IsAttempt, Now, Then, SetTtl
  <2> QED BY <1>3, <2>1, NumberedKept DEF SetTtl
<1>4. CASE NextHop
  <2>1. ASSUME NEW p, Now(p) PROVE Then(p)
    <3>1. p.ttl \in Hops /\ p.ttl <= hop /\ p.seq \in Nat /\ p.ttl \in Nat
      BY <2>1 DEF IsAttempt, Now, Then, Hops
    <3>2. hop' = hop + 1 /\ pc' = "ttl"
      BY <1>4 DEF NextHop
    <3>3. p.ttl < hop' /\ p.ttl <= hop'
      BY <1>1, <3>1, <3>2
    <3> QED BY <2>1, <3>1, <3>2, <3>3 DEF IsAttempt, Now, Then
  <2> QED BY <1>4, <2>1, NumberedKept DEF NextHop
<1>5. ASSUME NEW s \in Outcomes, Attempt(s) PROVE Numbered'
  <2> DEFINE new == [ttl |-> ttl, seq |-> Seq16(hop, attempt), status |-> s]
  <2>1. new \in Probes /\ probes \in Seq(Probes) /\ probes' = Append(probes, new)
        /\ hop' = hop /\ ttl = hop
    BY <1>5, Recorded DEF Attempt, TypeInv, TtlIsSet
  <2>2. /\ Len(probes) \in Nat
        /\ DOMAIN probes = 1..Len(probes) /\ DOMAIN probes' = 1..(Len(probes) + 1)
        /\ \A i \in 1..Len(probes) : probes'[i] = probes[i]
        /\ probes'[Len(probes) + 1] = new
    BY <2>1, Appended
  <2>3. ASSUME NEW p, Now(p) PROVE Then(p) /\ p.seq < new.seq
    <3>1. PICK a \in Attempts : p.seq = Seq16(p.ttl, a) /\ (p.ttl = hop => a < attempt)
      BY <1>5, <2>3 DEF IsAttempt, Now, Then, Attempt
    <3>2. p.ttl \in Hops /\ p.ttl <= hop /\ p.seq \in Nat /\ p.ttl \in Nat /\ a \in Nat
      BY <2>3, <3>1 DEF IsAttempt, Now, Then, Hops, Attempts
    <3>3. Seq16(p.ttl, a) < Seq16(hop, attempt)
      BY <1>1, <3>1, <3>2, SeqOrdered
    <3>4. attempt' \in {attempt, attempt + 1} /\ pc' \in {"attempt", "row"}
      BY <1>5 DEF Attempt, AfterAttempt
    <3>5. p.ttl = hop => a < attempt'
      BY <1>1, <3>1, <3>2, <3>4
    <3> QED BY <2>1, <3>1, <3>2, <3>3, <3>4, <3>5 DEF IsAttempt, Now, Then
  <2>4. Then(new)
    <3>1. new.ttl = hop /\ new.seq = Seq16(hop, attempt)
      BY <2>1
    <3>2. pc' = "row" \/ (pc' = "attempt" /\ attempt < attempt')
      BY <1>1, <1>5 DEF Attempt, AfterAttempt
    <3>3. Seq16(hop, attempt) \in Nat /\ hop <= hop'
      BY <1>1, <2>1, SeqUncut
    <3> QED BY <1>1, <2>1, <3>1, <3>2, <3>3 DEF IsAttempt, Now, Then
  <2> HIDE DEF new
  <2>5. \A i \in DOMAIN probes : Then(probes[i]) /\ probes[i].seq < new.seq
    BY <2>3 DEF Numbered
  <2>6. \A i \in DOMAIN probes' : Then(probes'[i])
    BY <2>2, <2>4, <2>5
  <2>7. ASSUME NEW i \in DOMAIN probes', NEW j \in DOMAIN probes', i < j
        PROVE  probes'[i].seq < probes'[j].seq
    <3>1. i \in 1..Len(probes) /\ (j \in 1..Len(probes) \/ j = Len(probes) + 1)
      BY <2>2, <2>7
    <3>2. CASE j \in 1..Len(probes)
      BY <2>2, <2>7, <3>1, <3>2 DEF Numbered
    <3>3. CASE j = Len(probes) + 1
      BY <2>2, <2>5, <3>1, <3>3
    <3> QED BY <3>1, <3>2, <3>3
  <2> QED BY <2>6, <2>7 DEF Numbered, Now, Then
<1>6. CASE SetTtlFails \/ SendFails \/ SkipRow \/ PrintRow \/ WriteCsvRow \/ CsvFails \/ Close
  BY <1>2, <1>6 DEF SetTtlFails, SendFails, SkipRow, PrintRow, WriteCsvRow, CsvFails, Close
<1>7. CASE UNCHANGED vars
  <2>1. ASSUME NEW p, Now(p) PROVE Then(p)
    BY <1>7, <2>1 DEF IsAttempt, Now, Then, vars
  <2> QED BY <1>7, <2>1, NumberedKept DEF vars
<1> QED BY <1>3, <1>4, <1>5, <1>6, <1>7 DEF Next, Closed

LEMMA AllNumbered == Spec => []Numbered
  BY NumberedInit, NumberedStep, Typed, PTL DEF Spec

(* No sequence number is used for two probes of a trace (trace.c:45).        *)
THEOREM NumbersAreUnique == Spec => []SeqNeverReused
<1>1. TypeInv /\ Numbered => SeqNeverReused
  <2> SUFFICES ASSUME TypeInv, Numbered,
                      NEW i \in DOMAIN probes, NEW j \in DOMAIN probes,
                      probes[i].seq = probes[j].seq
               PROVE  i = j
    BY DEF SeqNeverReused
  <2>1. i \in Nat /\ j \in Nat
    BY Recorded, LenProperties
  <2>2. probes[i].seq \in Nat /\ probes[j].seq \in Nat
    BY DEF Numbered, IsAttempt, Now, Then
  <2>3. (i < j => probes[i].seq < probes[j].seq) /\ (j < i => probes[j].seq < probes[i].seq)
    BY DEF Numbered
  <2> QED BY <2>1, <2>2, <2>3
<1> QED BY <1>1, Typed, AllNumbered, PTL

(* Every probe left with the TTL of the hop it is counted for (trace.c:38).  *)
THEOREM TtlsMatch == Spec => []TtlMatchesSeq
<1>1. Numbered => TtlMatchesSeq
  BY DEF Numbered, IsAttempt, Now, Then, TtlMatchesSeq, Attempts
<1> QED BY <1>1, AllNumbered, PTL

-----------------------------------------------------------------------------
(* Hops without an answer. *)

SeqsOf(h) == {probes[i].seq : i \in ProbesOf(h)}

(* Hop h was tried with the attempts in as, and answered none of them. *)
Tried(h, as) ==
  /\ \A i \in ProbesOf(h) : probes[i].status = "TIMEOUT"
  /\ SeqsOf(h) = {Seq16(h, a) : a \in as}

HasRow(h, s) == \E i \in DOMAIN rows : rows[i].hop = h /\ rows[i].status = s

(* What has been tried, from where the program is. *)
TriedInPlace ==
  /\ \A h \in Hops : h < hop /\ TimedOutOrHidden(h) => Tried(h, Attempts)
  /\ pc = "attempt" => Tried(hop, 1..(attempt - 1))
  /\ pc \notin {"ttl", "attempt"} /\ result = "TIMEOUT" => Tried(hop, Attempts)
  /\ pc \in {"csv", "next", "closed"} /\ result # "TIMEOUT" => HasRow(hop, result)

LEMMA TriedInit == Init => TriedInPlace
<1>1. \A h \in Hops : h \in Nat /\ ~(h < 1)
  BY DEF Hops
<1> QED BY <1>1 DEF Init, TriedInPlace

(* Nothing is known of a hop before its first probe. *)
LEMMA Untried ==
  ASSUME TypeInv, Numbered, pc = "ttl"
  PROVE  Tried(hop, {})
<1>1. ProbesOf(hop) = {}
  <2>1. \A i \in DOMAIN probes : probes[i].ttl < hop /\ probes[i].ttl \in Nat
    BY DEF Numbered, Now, IsAttempt, Hops
  <2> QED BY <2>1, LoopVariables DEF ProbesOf
<1> QED BY <1>1 DEF Tried, SeqsOf

(* A row that is added says more of its hop, and nothing of the others. *)
LEMMA RowAdded ==
  ASSUME TypeInv, NEW r \in Row, rows' = Append(rows, r), NEW h, NEW s
  PROVE  /\ TimedOutOrHidden(h)' => TimedOutOrHidden(h)
         /\ HasRow(h, s) => HasRow(h, s)'
         /\ r.hop = h /\ r.status = s => HasRow(h, s)'
<1>1. /\ Len(rows) \in Nat
      /\ DOMAIN rows = 1..Len(rows) /\ DOMAIN rows' = 1..(Len(rows) + 1)
      /\ \A i \in 1..Len(rows) : rows'[i] = rows[i]
      /\ rows'[Len(rows) + 1] = r
  BY Recorded, Appended
<1>2. /\ \A i \in DOMAIN rows : i \in DOMAIN rows' /\ rows'[i] = rows[i]
      /\ \E i \in DOMAIN rows' : rows'[i] = r
  BY <1>1
<1> QED BY <1>2 DEF TimedOutOrHidden, HasRow

(* A probe of hop h that times out is one more attempt that was tried. *)
LEMMA ProbeAdded ==
  ASSUME TypeInv, NEW p \in Probes, probes' = Append(probes, p), NEW h, NEW as
  PROVE  /\ p.ttl # h /\ Tried(h, as) => Tried(h, as)'
         /\ \A a : /\ p.ttl = h /\ p.seq = Seq16(h, a) /\ p.status = "TIMEOUT"
                   /\ Tried(h, as)
                   => Tried(h, as \cup {a})'
<1> DEFINE n == Len(probes) + 1
<1>1. /\ Len(probes) \in Nat
      /\ DOMAIN probes = 1..Len(probes) /\ DOMAIN probes' = 1..(Len(probes) + 1)
      /\ \A i \in 1..Len(probes) : probes'[i] = probes[i]
      /\ probes'[Len(probes) + 1] = p
  BY Recorded, Appended
<1>2. /\ DOMAIN probes' = DOMAIN probes \cup {n} /\ n \notin DOMAIN probes
      /\ \A i \in DOMAIN probes : probes'[i] = probes[i]
      /\ probes'[n] = p
  BY <1>1
<1> HIDE DEF n
<1>3. CASE p.ttl # h
  <2>1. ProbesOf(h)' = ProbesOf(h) /\ \A i \in ProbesOf(h) : probes'[i] = probes[i]
    BY <1>2, <1>3 DEF ProbesOf
  <2>2. SeqsOf(h)' = SeqsOf(h)
    BY <2>1 DEF SeqsOf
  <2> QED BY <1>3, <2>1, <2>2 DEF Tried
<1>4. ASSUME NEW a, p.ttl = h, p.seq = Seq16(h, a), p.status = "TIMEOUT", Tried(h, as)
      PROVE  Tried(h, as \cup {a})'
  <2>1. /\ ProbesOf(h)' = ProbesOf(h) \cup {n} /\ n \notin ProbesOf(h)
        /\ \A i \in ProbesOf(h) : probes'[i] = probes[i]
    BY <1>2, <1>4 DEF ProbesOf
  <2>2. SeqsOf(h)' = SeqsOf(h) \cup {Seq16(h, a)}
    <3>1. ASSUME NEW x PROVE x \in SeqsOf(h)' <=> x \in SeqsOf(h) \/ x = p.seq
      BY <1>2, <2>1 DEF SeqsOf
    <3> QED BY <1>4, <3>1
  <2>3. SeqsOf(h)' = {Seq16(h, b) : b \in as \cup {a}}
    BY <1>4, <2>2 DEF Tried
  <2> QED BY <1>2, <1>4, <2>1, <2>3 DEF Tried
<1> QED BY <1>3, <1>4

LEMMA TriedStep == TypeInv /\ Numbered /\ TriedInPlace /\ [Next]_vars => TriedInPlace'
<1> SUFFICES ASSUME TypeInv, Numbered, TriedInPlace, [Next]_vars PROVE TriedInPlace'
  OBVIOUS
<1>1. /\ hop \in Nat /\ attempt \in Nat /\ hop \in Hops /\ attempt \in Attempts
      /\ \A h \in Hops : h \in Nat
  BY LoopVariables DEF Hops
<1>2. ASSUME UNCHANGED probes PROVE \A h, as : Tried(h, as) => Tried(h, as)'
  BY <1>2 DEF Tried, SeqsOf, ProbesOf
<1>3. ASSUME UNCHANGED rows
      PROVE  \A h, s : (HasRow(h, s) => HasRow(h, s)') /\ (TimedOutOrHidden(h)' => TimedOutOrHidden(h))
  BY <1>3 DEF HasRow, TimedOutOrHidden
<1>4. CASE SetTtl
  <2>1. Tried(hop, {}) /\ 1..(1 - 1) = {}
    BY <1>4, Untried DEF SetTtl
  <2>2. attempt' = 1 /\ hop' = hop /\ result' = result /\ probes' = probes /\ rows' = rows
        /\ pc' = "attempt"
    BY <1>4 DEF SetTtl
  <2>3. \A as : as = {} => Tried(hop, as)'
    BY <1>2, <2>1, <2>2 DEF Tried, SeqsOf, ProbesOf
  <2>4. Tried(hop, 1..(attempt - 1))'
    BY <2>1, <2>2, <2>3
  <2> QED BY <1>2, <1>3, <2>2, <2>4 DEF TriedInPlace
<1>5. CASE SetTtlFails
  BY <1>2, <1>3, <1>5 DEF SetTtlFails, TriedInPlace
<1>6. ASSUME NEW s \in Outcomes, Attempt(s) PROVE TriedInPlace'
  <2> DEFINE new == [ttl |-> ttl, seq |-> Seq16(hop, attempt), status |-> s]
  <2>1. /\ new \in Probes /\ probes' = Append(probes, new) /\ new.ttl = hop
        /\ new.seq = Seq16(hop, attempt) /\ new.status = s
        /\ hop' = hop /\ rows' = rows /\ result' = s
    BY <1>6, Recorded DEF Attempt, TypeInv, TtlIsSet
  <2> HIDE DEF new
  <2>2. ASSUME NEW h \in Hops, h < hop, TimedOutOrHidden(h)' PROVE Tried(h, Attempts)'
    <3>1. Tried(h, Attempts) /\ new.ttl # h
      BY <1>1, <1>3, <2>1, <2>2 DEF TriedInPlace
    <3> QED BY <2>1, <3>1, ProbeAdded
  <2>3. ASSUME NEW as, as = 1..attempt, s = "TIMEOUT" PROVE Tried(hop, as)'
    <3>1. Tried(hop, 1..(attempt - 1))
      BY <1>6 DEF Attempt, TriedInPlace
    <3>2. (1..(attempt - 1)) \cup {attempt} = as
      BY <1>1, <2>3, Constants DEF Attempts
    <3>3. ASSUME NEW h, NEW a, NEW bs, h = hop, a = attempt, bs = 1..(attempt - 1)
          PROVE  Tried(h, bs \cup {a})'
      BY <2>1, <2>3, <3>1, <3>3, ProbeAdded
    <3>4. \A h : h = hop => Tried(h, as)'
      BY <3>2, <3>3
    <3> QED BY <2>1, <3>4
  <2>5. \/ pc' = "attempt" /\ s = "TIMEOUT" /\ attempt' - 1 = attempt
        \/ pc' = "row" /\ (s = "TIMEOUT" => 1..attempt = Attempts)
    BY <1>1, <1>6 DEF Attempt, AfterAttempt, Attempts
  <2>6. pc' = "attempt" => Tried(hop, 1..(attempt - 1))'
    BY <2>3, <2>5
  <2>7. pc' # "attempt" /\ s = "TIMEOUT" => Tried(hop, Attempts)'
    BY <2>3, <2>5 DEF Attempts
  <2> QED BY <2>1, <2>2, <2>5, <2>6, <2>7 DEF TriedInPlace
<1>7. CASE SendFails
  BY <1>2, <1>3, <1>7 DEF SendFails, TriedInPlace
<1>8. CASE SkipRow
  BY <1>2, <1>3, <1>8 DEF SkipRow, Hidden, TriedInPlace
<1>9. CASE PrintRow
  <2>1. /\ \A h : TimedOutOrHidden(h)' => TimedOutOrHidden(h)
        /\ \A h, s : h = hop /\ s = result => HasRow(h, s)'
    <3> DEFINE r == [hop |-> hop, status |-> result]
    <3>1. r \in Row /\ rows' = Append(rows, r) /\ r.hop = hop /\ r.status = result
      BY <1>9, Recorded DEF PrintRow
    <3> HIDE DEF r
    <3>2. \A h : TimedOutOrHidden(h)' => TimedOutOrHidden(h)
      BY <3>1, RowAdded
    <3>3. \A h, s : r.hop = h /\ r.status = s => HasRow(h, s)'
      BY <3>1, RowAdded
    <3> QED BY <3>1, <3>2, <3>3
  <2>2. HasRow(hop, result)'
    BY <1>9, <2>1 DEF PrintRow
  <2> QED BY <1>2, <1>9, <2>1, <2>2 DEF PrintRow, Hidden, TriedInPlace
<1>10. CASE WriteCsvRow \/ CsvFails \/ Close
  BY <1>2, <1>3, <1>10 DEF WriteCsvRow, CsvFails, Close, TriedInPlace
<1>11. CASE NextHop
  <2>1. TimedOutOrHidden(hop) => Tried(hop, Attempts)
    BY <1>11 DEF NextHop, TriedInPlace, HasRow, TimedOutOrHidden
  <2>2. ASSUME NEW h \in Hops, h < hop', TimedOutOrHidden(h)' PROVE Tried(h, Attempts)'
    <3>1. h = hop \/ h < hop
      BY <1>1, <1>11, <2>2 DEF NextHop
    <3> QED BY <1>2, <1>3, <1>11, <2>1, <2>2, <3>1 DEF NextHop, TriedInPlace
  <2> QED BY <1>11, <2>2 DEF NextHop, TriedInPlace
<1>12. CASE UNCHANGED vars
  BY <1>2, <1>3, <1>12 DEF vars, TriedInPlace
<1> QED BY <1>4, <1>5, <1>6, <1>7, <1>8, <1>9, <1>10, <1>11, <1>12 DEF Next, Closed

LEMMA AllTried == Spec => []TriedInPlace
  BY TriedInit, TriedStep, Typed, AllNumbered, PTL DEF Spec

(* A hop that was passed without a row, or with a timeout row, was given     *)
(* every configured attempt and answered none of them (trace.c:42-64).       *)
THEOREM OmittedTimedOut == Spec => []OmittedHopsTimedOut
<1>1. TypeInv /\ TriedInPlace => OmittedHopsTimedOut
  <2> SUFFICES ASSUME TypeInv, TriedInPlace,
                      NEW h \in Hops, Passed(h), TimedOutOrHidden(h)
               PROVE  Tried(h, Attempts)
    BY DEF OmittedHopsTimedOut, Tried, SeqsOf, Attempts
  <2>1. CASE h < hop
    BY <2>1 DEF TriedInPlace
  <2>2. CASE h = hop /\ pc \in {"next", "closed"}
    BY <2>2 DEF TriedInPlace, HasRow, TimedOutOrHidden
  <2> QED BY <2>1, <2>2 DEF Passed
<1> QED BY <1>1, Typed, AllTried, PTL

-----------------------------------------------------------------------------
(* Rows. *)

BeforeRow == pc \in {"ttl", "attempt", "row"}

(* No row is behind the current hop, and it has one only after PrintRow; a   *)
(* destination is the current hop, and there is no next one.                 *)
IsRow(r, place, h, s) ==
  /\ r.hop \in Hops /\ r.hop <= h
  /\ place \in {"ttl", "attempt", "row"} => r.hop < h
  /\ r.status = "DESTINATION" =>
       r.hop = h /\ s = "DESTINATION" /\ place \in {"csv", "next", "closed"}

RowsInPlace ==
  /\ \A i \in DOMAIN rows : IsRow(rows[i], pc, hop, result)
  /\ \A i, j \in DOMAIN rows : i < j => rows[i].hop < rows[j].hop
  /\ show_timeouts =>
       /\ Len(rows) = IF BeforeRow THEN hop - 1 ELSE hop
       /\ \A i \in DOMAIN rows : rows[i].hop = i

LEMMA RowsInit == Init => RowsInPlace
<1> SUFFICES ASSUME Init PROVE RowsInPlace
  OBVIOUS
<1>1. rows = <<>> /\ rows \in Seq(Row) /\ Len(rows) = 0
  BY EmptySeq DEF Init
<1>2. DOMAIN rows = {}
  BY <1>1, LenProperties
<1>3. pc = "ttl" /\ hop = 1
  BY DEF Init
<1>4. Len(rows) = hop - 1
  BY <1>1, <1>3
<1> QED BY <1>2, <1>3, <1>4 DEF RowsInPlace, BeforeRow

LEMMA RowsStep == TypeInv /\ RowsInPlace /\ [Next]_vars => RowsInPlace'
<1> SUFFICES ASSUME TypeInv, RowsInPlace, [Next]_vars PROVE RowsInPlace'
  OBVIOUS
<1>1. hop \in Nat /\ hop \in Hops /\ \A h \in Hops : h \in Nat
  BY LoopVariables DEF Hops
<1>2. ASSUME UNCHANGED <<rows, show_timeouts>>,
             \A r : IsRow(r, pc, hop, result) => IsRow(r, pc', hop', result'),
             show_timeouts => (IF BeforeRow THEN hop - 1 ELSE hop)'
                                = (IF BeforeRow THEN hop - 1 ELSE hop)
      PROVE  RowsInPlace'
  BY <1>2 DEF RowsInPlace
<1>3. CASE SetTtl \/ SetTtlFails \/ (\E s \in Outcomes : Attempt(s)) \/ SendFails
  <2>1. /\ UNCHANGED <<rows, show_timeouts, hop>>
        /\ BeforeRow /\ pc' \in {"ttl", "attempt", "row"}
    BY <1>3 DEF SetTtl, SetTtlFails, Attempt, AfterAttempt, SendFails, BeforeRow, config
  <2>2. \A r : IsRow(r, pc, hop, result) => IsRow(r, pc', hop', result')
    BY <2>1 DEF IsRow, BeforeRow
  <2> QED BY <1>2, <2>1, <2>2 DEF BeforeRow
<1>4. CASE SkipRow
  <2>1. /\ UNCHANGED <<rows, show_timeouts, hop, result>> /\ ~show_timeouts
        /\ pc = "row" /\ pc' = "next"
    BY <1>4 DEF SkipRow, Hidden, config
  <2>2. \A r : IsRow(r, pc, hop, result) => IsRow(r, pc', hop', result')
    BY <2>1 DEF IsRow
  <2> QED BY <1>2, <2>1, <2>2
<1>5. CASE PrintRow
  <2> DEFINE new == [hop |-> hop, status |-> result]
  <2>1. /\ new \in Row /\ rows \in Seq(Row) /\ rows' = Append(rows, new)
        /\ new.hop = hop /\ new.status = result
        /\ pc = "row" /\ pc' \in {"csv", "next"}
        /\ UNCHANGED <<hop, result, show_timeouts>>
    BY <1>5, Recorded DEF PrintRow, config
  <2> HIDE DEF new
  <2>2. /\ Len(rows) \in Nat /\ Len(rows') = Len(rows) + 1
        /\ DOMAIN rows = 1..Len(rows) /\ DOMAIN rows' = 1..(Len(rows) + 1)
        /\ \A i \in 1..Len(rows) : rows'[i] = rows[i]
        /\ rows'[Len(rows) + 1] = new
    BY <2>1, Appended
  <2>3. IsRow(new, pc', hop', result')
    BY <1>1, <2>1 DEF IsRow
  <2>4. ASSUME NEW i \in DOMAIN rows
        PROVE  IsRow(rows[i], pc', hop', result') /\ rows[i].hop < new.hop
    <3>1. IsRow(rows[i], pc, hop, result)
      BY DEF RowsInPlace
    <3>2. rows[i].hop < hop /\ rows[i].hop \in Hops /\ rows[i].status # "DESTINATION"
      BY <2>1, <3>1 DEF IsRow
    <3>3. \A h \in Hops : h < hop => h <= hop
      BY <1>1
    <3>4. rows[i].hop <= hop
      BY <3>2, <3>3
    <3> QED BY <2>1, <3>2, <3>4 DEF IsRow
  <2>5. \A i \in DOMAIN rows' : IsRow(rows'[i], pc', hop', result')
    BY <2>2, <2>3, <2>4
  <2>6. ASSUME NEW i \in DOMAIN rows', NEW j \in DOMAIN rows', i < j
        PROVE  rows'[i].hop < rows'[j].hop
    <3>1. i \in 1..Len(rows) /\ (j \in 1..Len(rows) \/ j = Len(rows) + 1)
      BY <2>2, <2>6
    <3>2. CASE j \in 1..Len(rows)
      BY <2>2, <2>6, <3>1, <3>2 DEF RowsInPlace
    <3>3. CASE j = Len(rows) + 1
      BY <2>2, <2>4, <3>1, <3>3
    <3> QED BY <3>1, <3>2, <3>3
  <2>7. ASSUME show_timeouts
        PROVE  Len(rows') = hop /\ \A i \in DOMAIN rows' : rows'[i].hop = i
    <3>1. Len(rows) = hop - 1 /\ \A i \in DOMAIN rows : rows[i].hop = i
      BY <2>1, <2>7 DEF RowsInPlace, BeforeRow
    <3> QED BY <1>1, <2>1, <2>2, <3>1
  <2> QED BY <2>1, <2>5, <2>6, <2>7 DEF RowsInPlace, BeforeRow
<1>6. CASE WriteCsvRow \/ CsvFails \/ Close
  <2>1. /\ UNCHANGED <<rows, show_timeouts, hop, result>>
        /\ ~BeforeRow /\ pc' \in {"next", "closed"}
    BY <1>6 DEF WriteCsvRow, CsvFails, Close, BeforeRow, config
  <2>2. \A r : IsRow(r, pc, hop, result) => IsRow(r, pc', hop', result')
    BY <2>1 DEF IsRow
  <2> QED BY <1>2, <2>1, <2>2 DEF BeforeRow
<1>7. CASE NextHop
  <2>1. /\ UNCHANGED <<rows, show_timeouts>> /\ hop' = hop + 1
        /\ result # "DESTINATION" /\ pc = "next" /\ pc' = "ttl"
    BY <1>7 DEF NextHop, Last, config
  <2>2. ASSUME NEW r, IsRow(r, pc, hop, result) PROVE IsRow(r, pc', hop', result')
    <3>1. r.hop \in Hops /\ r.hop \in Nat /\ r.hop <= hop /\ r.status # "DESTINATION"
      BY <1>1, <2>1, <2>2 DEF IsRow
    <3> QED BY <1>1, <2>1, <3>1 DEF IsRow
  <2>3. (IF BeforeRow THEN hop - 1 ELSE hop)' = (IF BeforeRow THEN hop - 1 ELSE hop)
    BY <1>1, <2>1 DEF BeforeRow
  <2> QED BY <1>2, <2>1, <2>2, <2>3
<1>8. CASE UNCHANGED vars
  BY <1>2, <1>8 DEF vars, config, BeforeRow
<1> QED BY <1>3, <1>4, <1>5, <1>6, <1>7, <1>8 DEF Next, Closed

LEMMA AllRowsInPlace == Spec => []RowsInPlace
  BY RowsInit, RowsStep, Typed, PTL DEF Spec

(* Rows are in the order of the hops, a destination is the last row and      *)
(* nothing is probed behind it, and with show_timeouts no hop is missing     *)
(* (trace.c:33-77).                                                          *)
THEOREM RowsInOrder == Spec => []RowsFollowRoute
<1>1. TypeInv /\ Numbered /\ RowsInPlace => RowsFollowRoute
  <2> SUFFICES ASSUME TypeInv, Numbered, RowsInPlace PROVE RowsFollowRoute
    OBVIOUS
  <2>1. Len(rows) \in Nat /\ DOMAIN rows = 1..Len(rows)
    BY Recorded, LenProperties
  <2>2. ASSUME NEW i \in DOMAIN rows, rows[i].status = "DESTINATION"
        PROVE  i = Len(rows) /\ \A k \in DOMAIN probes : probes[k].ttl <= rows[i].hop
    <3>1. rows[i].hop = hop
      BY <2>2 DEF RowsInPlace, IsRow
    <3>2. ~(i < Len(rows))
      <4>1. ASSUME i < Len(rows) PROVE FALSE
        <5>1. Len(rows) \in DOMAIN rows
          BY <2>1, <4>1
        <5>2. rows[Len(rows)].hop \in Nat /\ rows[Len(rows)].hop <= hop /\ hop \in Nat
          BY <5>1, LoopVariables DEF RowsInPlace, IsRow, Hops
        <5>3. rows[i].hop < rows[Len(rows)].hop
          BY <4>1, <5>1 DEF RowsInPlace
        <5> QED BY <3>1, <5>2, <5>3
      <4> QED BY <4>1
    <3> QED BY <2>1, <3>1, <3>2 DEF Numbered, Now, IsAttempt
  <2> QED BY <2>2 DEF RowsFollowRoute, RowsInPlace
<1> QED BY <1>1, Typed, AllNumbered, AllRowsInPlace, PTL

-----------------------------------------------------------------------------
(* The CSV stream. *)

Behind == pc = "csv" \/ exit = "ERR_IO"

(* The file has the rows of the terminal, the one just printed excepted.     *)
CsvInPlace ==
  /\ exit # "" <=> pc = "closed"
  /\ csv /\ ~Behind => csvAccepted = rows
  /\ csv /\ Behind => rows = Append(csvAccepted, [hop |-> hop, status |-> result])

LEMMA CsvInit == Init => CsvInPlace
  BY DEF Init, CsvInPlace, Behind

LEMMA CsvStep == TypeInv /\ CsvInPlace /\ [Next]_vars => CsvInPlace'
<1> SUFFICES ASSUME TypeInv, CsvInPlace, [Next]_vars PROVE CsvInPlace'
  OBVIOUS
<1> USE DEF CsvInPlace, Behind
<1>1. CASE SetTtl \/ SetTtlFails \/ SendFails \/ NextHop
  <2>1. /\ pc \in {"ttl", "attempt", "next"} /\ pc' \in {"ttl", "attempt", "row"}
        /\ UNCHANGED <<csv, exit, rows, csvAccepted>>
    BY <1>1 DEF SetTtl, SetTtlFails, SendFails, NextHop, config
  <2> QED BY <2>1
<1>2. ASSUME NEW s \in Outcomes, Attempt(s) PROVE CsvInPlace'
  <2>1. pc = "attempt" /\ pc' \in {"attempt", "row"} /\ UNCHANGED <<csv, exit, rows, csvAccepted>>
    BY <1>2 DEF Attempt, AfterAttempt, config
  <2> QED BY <2>1
<1>3. CASE SkipRow
  BY <1>3 DEF SkipRow, config
<1>4. CASE PrintRow
  <2>1. /\ pc = "row" /\ pc' = (IF csv THEN "csv" ELSE "next")
        /\ rows' = Append(rows, [hop |-> hop, status |-> result])
        /\ UNCHANGED <<csv, hop, result, csvAccepted, exit>>
    BY <1>4 DEF PrintRow, config
  <2>2. exit = "" /\ (csv => rows = csvAccepted)
    BY <2>1
  <2> QED BY <2>1, <2>2
<1>5. CASE WriteCsvRow
  <2>1. /\ pc = "csv" /\ pc' = "next"
        /\ csvAccepted' = Append(csvAccepted, [hop |-> hop, status |-> result])
        /\ UNCHANGED <<csv, hop, result, rows, exit>>
    BY <1>5 DEF WriteCsvRow, config
  <2>2. exit = "" /\ (csv => rows = csvAccepted')
    BY <2>1
  <2> QED BY <2>1, <2>2
<1>6. CASE CsvFails
  <2>1. /\ pc = "csv" /\ pc' = "closed" /\ exit' = "ERR_IO"
        /\ UNCHANGED <<csv, hop, result, rows, csvAccepted>>
    BY <1>6 DEF CsvFails, config
  <2> QED BY <2>1
<1>7. CASE Close
  BY <1>7 DEF Close, config
<1>8. CASE UNCHANGED vars
  BY <1>8 DEF vars, config
<1> QED BY <1>1, <1>2, <1>3, <1>4, <1>5, <1>6, <1>7, <1>8 DEF Next, Closed

LEMMA AllCsvInPlace == Spec => []CsvInPlace
  BY CsvInit, CsvStep, Typed, PTL DEF Spec

(* A list is its own prefix, and that of a longer one. *)
LEMMA Prefixes ==
  ASSUME NEW S, NEW s \in Seq(S), NEW e \in S
  PROVE  SubSeq(s, 1, Len(s)) = s /\ SubSeq(Append(s, e), 1, Len(s)) = s
<1> DEFINE t == Append(s, e)
<1>1. /\ t \in Seq(S) /\ Len(s) \in Nat /\ Len(t) = Len(s) + 1
      /\ DOMAIN s = 1..Len(s) /\ \A i \in 1..Len(s) : t[i] = s[i]
  BY Appended
<1> HIDE DEF t
<1>2. SubSeq(s, 1, Len(s)) = [i \in 1..Len(s) |-> s[i]]
      /\ SubSeq(t, 1, Len(s)) = [i \in 1..Len(s) |-> t[i]]
  BY <1>1
<1>3. s = [i \in 1..Len(s) |-> s[i]]
  BY <1>1
<1> QED BY <1>1, <1>2, <1>3 DEF t

(* The CSV stream took the rows of the terminal: at most the row just printed *)
(* is missing, and none when the run succeeds (trace.c:66-71).               *)
THEOREM CsvFollows == Spec => []CsvFollowsTerminal
<1>1. TypeInv /\ CsvInPlace => CsvFollowsTerminal
  <2> SUFFICES ASSUME TypeInv, CsvInPlace, csv
               PROVE  /\ csvAccepted = SubSeq(rows, 1, Len(csvAccepted))
                      /\ Len(rows) - Len(csvAccepted) \in IF Behind THEN {1} ELSE {0}
    BY DEF CsvFollowsTerminal, Behind
  <2> DEFINE new == [hop |-> hop, status |-> result]
  <2>1. csvAccepted \in Seq(Row) /\ rows \in Seq(Row) /\ new \in Row
    BY Recorded
  <2>2. Len(csvAccepted) \in Nat /\ Len(Append(csvAccepted, new)) = Len(csvAccepted) + 1
    BY <2>1, Appended
  <2>3. CASE Behind
    <3>1. rows = Append(csvAccepted, new)
      BY <2>3 DEF CsvInPlace
    <3> HIDE DEF new
    <3>2. Len(rows) - Len(csvAccepted) = 1
      BY <2>2, <3>1
    <3> QED BY <2>1, <2>3, <3>1, <3>2, Prefixes
  <2>4. CASE ~Behind
    <3>1. rows = csvAccepted
      BY <2>4 DEF CsvInPlace
    <3>2. Len(rows) - Len(csvAccepted) = 0
      BY <2>2, <3>1
    <3> QED BY <2>1, <2>4, <3>1, <3>2, Prefixes
  <2> QED BY <2>3, <2>4
<1> QED BY <1>1, Typed, AllCsvInPlace, PTL
=============================================================================
