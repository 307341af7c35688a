----------------------------- MODULE IcmpProofs -----------------------------
(***************************************************************************)
(* Proofs about Icmp, for every size of the sequence number space, number  *)
(* of probes, timeout, clock resolution and buffer capacity.               *)
(*                                                                         *)
(* None of the properties is inductive by itself.  What makes them so is   *)
(* GenuineBuffer: every packet in the receive buffer is either an answer   *)
(* to a probe that was sent, carrying that probe's number, or foreign.     *)
(***************************************************************************)
EXTENDS Icmp, TLAPS

LEMMA Constants ==
  /\ Modes \subseteq {"ping", "trace"}
  /\ SeqMod \in Nat \ {0}
  /\ MaxProbe \in Nat \ {0}
  /\ TimeoutMs \in Nat \ {0}
  /\ TicksPerMs \in Nat \ {0}
  /\ SockCap \in Nat \ {0}
  BY ModesAssumption, SeqModAssumption, MaxProbeAssumption, ClockAssumption,
     SockCapAssumption

-----------------------------------------------------------------------------
(* Arithmetic of the deadline and of the sequence numbers. *)

(* The deadline is at least one tick away. *)
LEMMA DeadlineType == Deadline \in Nat \ {0}
  BY Constants, SMT DEF Deadline

LEMMA WireType == \A q \in Nat : Wire(q) \in 0..(SeqMod - 1)
  BY Constants, SMT DEF Wire

(* Two probes of a session that does not wrap never share a sequence number. *)
LEMMA WireInjective ==
  ASSUME MaxProbe <= SeqMod, NEW p \in 1..MaxProbe, NEW q \in 1..MaxProbe,
         Wire(p) = Wire(q)
  PROVE  p = q
  BY Constants, SMT DEF Wire

(* Cutting the elapsed time to milliseconds rounds the wait up, never down.  *)
LEMMA RemainingBounds ==
  ASSUME NEW e \in Nat
  PROVE  LET r == remaining_timeout_ms(e) IN
         /\ r \in 0..TimeoutMs
         /\ r = 0 <=> e >= Deadline
         /\ r > 0 => /\ e + r * TicksPerMs >= Deadline
                     /\ r * TicksPerMs \in 1..Deadline
  BY Constants, SMT DEF remaining_timeout_ms, Deadline

-----------------------------------------------------------------------------
(* The inductive invariant. *)

Genuine(p) ==
  \/ p.origin \in onWire /\ p \in AnswersTo(p.origin)
  \/ p \in ForeignTraffic

GenuineBuffer == \A i \in 1..Len(sock) : Genuine(sock[i])

WaitsForSentProbe == pc # "idle" => probe \in onWire

IInv ==
  /\ TypeOK
  /\ GenuineBuffer
  /\ WaitsForSentProbe
  /\ SelectTimerMeetsDeadline
  /\ RecvNeverBlocks

(* A packet that ends the wait is an answer to a probe with the sequence     *)
(* number of the current one: a foreign packet never has our identifier.     *)
LEMMA MatchIsOwn ==
  ASSUME NoCollision, NEW p, Genuine(p), NEW s, NEW m, Matches(p, s, m)
  PROVE  /\ p.origin \in onWire
         /\ p \in AnswersTo(p.origin)
         /\ Wire(p.origin) = s
  BY DEF NoCollision, Genuine, Matches, AnswersTo, ForeignTraffic,
         parse_outer_ipv4_icmp, is_matching_echo_reply, is_matching_time_exceeded,
         parse_original_echo

LEMMA HeadIsGenuine ==
  ASSUME IInv, sock # <<>>
  PROVE  Head(sock) \in Packet /\ Genuine(Head(sock))
  BY DEF IInv, TypeOK, GenuineBuffer

(* The packets the environment makes are packets. *)
LEMMA AnswersArePackets ==
  ASSUME NEW q \in 0..MaxProbe
  PROVE  AnswersTo(q) \subseteq Packet
<1>1. Wire(q) \in 0..(SeqMod - 1)
  BY WireType, Constants
<1> QED BY <1>1 DEF AnswersTo, Packet, PacketType, Quoted

LEMMA ForeignPacketsArePackets == ForeignTraffic \subseteq Packet
<1>1. 0 \in 0..(SeqMod - 1) /\ 0 \in 0..MaxProbe
  BY Constants
<1> QED BY <1>1 DEF ForeignTraffic, Packet, PacketType, Quoted

-----------------------------------------------------------------------------
LEMMA IInvInit == Init => IInv
  BY Constants, DeadlineType
  DEF Init, IInv, TypeOK, GenuineBuffer, WaitsForSentProbe, Blank, Answered,
      PacketType, SelectTimerMeetsDeadline, RecvNeverBlocks

LEMMA IInvStep == IInv /\ [Next]_vars => IInv'
<1> SUFFICES ASSUME IInv, [Next]_vars PROVE IInv'
  OBVIOUS
<1> USE Constants, DeadlineType
<1> USE DEF IInv, TypeOK, WaitsForSentProbe, RecvNeverBlocks, SelectTimerMeetsDeadline
<1>1. CASE SendEcho
  <2>1. TypeOK'
    BY <1>1 DEF SendEcho, Blank, Answered, PacketType
  <2>2. GenuineBuffer'
    BY <1>1 DEF SendEcho, GenuineBuffer, Genuine
  <2> QED BY <1>1, <2>1, <2>2 DEF SendEcho
<1>2. CASE SendFails
  <2>1. TypeOK'
    BY <1>2 DEF SendFails, Failed, Answered, PacketType
  <2>2. GenuineBuffer'
    BY <1>2 DEF SendFails, GenuineBuffer, Genuine
  <2> QED BY <1>2, <2>1, <2>2 DEF SendFails
<1>3. CASE DeadlinePassed
  <2>1. TypeOK'
    BY <1>3 DEF DeadlinePassed, Return, TimedOut, Answered, PacketType, netVars
  <2>2. GenuineBuffer'
    BY <1>3 DEF DeadlinePassed, GenuineBuffer, Genuine, netVars
  <2> QED BY <1>3, <2>1, <2>2 DEF DeadlinePassed, Return
<1>4. CASE ReadClock
  <2>1. elapsed + selLeft' >= Deadline /\ selLeft' \in 1..Deadline
    BY <1>4, RemainingBounds DEF ReadClock
  <2>2. TypeOK'
    BY <1>4, <2>1 DEF ReadClock, netVars
  <2>3. GenuineBuffer'
    BY <1>4 DEF ReadClock, GenuineBuffer, Genuine, netVars
  <2> QED BY <1>4, <2>1, <2>2, <2>3 DEF ReadClock, netVars
<1>14. CASE CallSelect
  <2>1. GenuineBuffer'
    BY <1>14 DEF CallSelect, GenuineBuffer, Genuine, netVars
  <2> QED BY <1>14, <2>1 DEF CallSelect, netVars
<1>5. CASE SelectReady
  <2>1. GenuineBuffer'
    BY <1>5 DEF SelectReady, GenuineBuffer, Genuine, netVars
  <2> QED BY <1>5, <2>1 DEF SelectReady, netVars
<1>6. CASE SelectExpires
  <2>1. GenuineBuffer'
    BY <1>6 DEF SelectExpires, GenuineBuffer, Genuine, netVars
  <2> QED BY <1>6, <2>1 DEF SelectExpires, netVars
<1>7. CASE SelectFails \/ RecvFails
  <2>1. TypeOK'
    <3>1. CASE SelectFails
      BY <3>1 DEF SelectFails, Return, Failed, Answered, PacketType, netVars
    <3>2. CASE RecvFails
      BY <3>2 DEF RecvFails, Return, Failed, Answered, PacketType, netVars
    <3> QED BY <1>7, <3>1, <3>2
  <2>2. GenuineBuffer'
    BY <1>7 DEF SelectFails, RecvFails, GenuineBuffer, Genuine, netVars
  <2> QED BY <1>7, <2>1, <2>2 DEF SelectFails, RecvFails, Return
<1>8. CASE Accept
  <2>1. Head(sock) \in Packet
    BY <1>8, HeadIsGenuine DEF Accept
  <2>2. Answer(Head(sock), mode) \in
          [status : Answered \cup {"PENDING", "TIMEOUT", "ERROR"},
           origin : 0..MaxProbe, by : PacketType \cup {"NOTHING"}]
    BY <2>1 DEF Answer, Packet, Answered
  <2>3. TypeOK'
    BY <1>8, <2>2 DEF Accept, Return
  <2>4. GenuineBuffer'
    BY <1>8 DEF Accept, GenuineBuffer, Genuine
  <2> QED BY <1>8, <2>3, <2>4 DEF Accept, Return
<1>9. CASE Discard
  <2>1. GenuineBuffer'
    BY <1>9 DEF Discard, GenuineBuffer, Genuine
  <2> QED BY <1>9, <2>1 DEF Discard
<1>10. CASE DeliverAnswer \/ DeliverForeign
  <2>1. PICK p : Deliver(p) /\ p \in Packet /\ Genuine(p)
    <3>1. CASE DeliverAnswer
      <4>1. PICK q \in onWire : \E p \in AnswersTo(q) : Deliver(p)
        BY <3>1 DEF DeliverAnswer
      <4>2. PICK p \in AnswersTo(q) : Deliver(p)
        BY <4>1
      <4>3. p.origin = q
        BY <4>2 DEF AnswersTo
      <4>4. p \in Packet
        BY <4>1, AnswersArePackets
      <4> QED BY <4>1, <4>2, <4>3, <4>4 DEF Genuine
    <3>2. CASE DeliverForeign
      BY <3>2, ForeignPacketsArePackets DEF DeliverForeign, Genuine
    <3> QED BY <1>10, <3>1, <3>2
  <2>2. sock' \in Seq(Packet) /\ Len(sock') = Len(sock) + 1
    BY <2>1 DEF Deliver
  <2>3. TypeOK'
    BY <2>1, <2>2 DEF Deliver
  <2>4. GenuineBuffer'
    <3>1. \A i \in 1..Len(sock') : sock'[i] = IF i <= Len(sock) THEN sock[i] ELSE p
      BY <2>1 DEF Deliver
    <3> QED BY <2>1, <2>2, <3>1 DEF GenuineBuffer, Genuine, Deliver
  <2> QED BY <2>1, <2>2, <2>3, <2>4 DEF Deliver
<1>11. CASE Tick
  <2>1. GenuineBuffer'
    BY <1>11 DEF Tick, GenuineBuffer, Genuine, netVars
  <2>2. elapsed' \in 0..Deadline /\ selLeft' \in 0..Deadline
    BY <1>11 DEF Tick, TimerRuns
  <2>3. pc \in {"arm", "select"} => elapsed' + selLeft' >= Deadline
    BY <1>11 DEF Tick, TimerRuns
  <2> QED BY <1>11, <2>1, <2>2, <2>3 DEF Tick, netVars
<1>12. CASE UNCHANGED vars
  BY <1>12 DEF vars, GenuineBuffer, Genuine
<1>13. CASE SessionOver
  BY <1>12, <1>13 DEF SessionOver
<1> QED
  BY <1>1, <1>2, <1>3, <1>4, <1>5, <1>6, <1>7, <1>8, <1>9, <1>10, <1>11, <1>12, <1>13,
     <1>14
  DEF Next, Receive

(* The invariant holds in every reachable state. *)
THEOREM Invariance == Spec => []IInv
  BY IInvInit, IInvStep, PTL DEF Spec

(* Type correctness: the variables keep the types of TypeOK (icmp.c). *)
THEOREM TypeCorrect == Spec => []TypeOK
<1>1. IInv => TypeOK
  BY DEF IInv
<1> QED BY <1>1, Invariance, PTL

(* The timer of select never runs out before the deadline, whatever time     *)
(* passes between reading the clock and calling select (icmp.c:96-107,       *)
(* 266-277).                                                                 *)
THEOREM TimerCorrect == Spec => []SelectTimerMeetsDeadline
<1>1. IInv => SelectTimerMeetsDeadline
  BY DEF IInv
<1> QED BY <1>1, Invariance, PTL

(* recvfrom is never called on an empty buffer (icmp.c:271-279). *)
THEOREM NeverBlocks == Spec => []RecvNeverBlocks
<1>1. IInv => RecvNeverBlocks
  BY DEF IInv
<1> QED BY <1>1, Invariance, PTL
-----------------------------------------------------------------------------
(* Answers.  An answer is accepted for the current probe; until the next     *)
(* probe begins, nothing touches the result, the probe or what was sent.     *)

(* Who is answered, whichever numbers wrap: the step that answers. *)
LEMMA AcceptIsOwn ==
  ASSUME NoCollision, IInv, Accept
  PROVE  /\ result'.origin \in onWire
         /\ Wire(result'.origin) = Wire(probe)
         /\ Head(sock) \in AnswersTo(result'.origin)
         /\ result' = Answer(Head(sock), mode)
<1>1. Genuine(Head(sock)) /\ result' = Answer(Head(sock), mode)
  BY HeadIsGenuine DEF Accept, Return
<1> QED BY <1>1, MatchIsOwn DEF Accept, Answer

LEMMA AnswerIsOwnStep ==
  NoCollision /\ IInv /\ AnswerIsOwn /\ [Next]_vars => AnswerIsOwn'
<1> SUFFICES ASSUME NoCollision, IInv, AnswerIsOwn, [Next]_vars PROVE AnswerIsOwn'
  OBVIOUS
<1>1. CASE Accept
  BY <1>1, AcceptIsOwn DEF Accept, AnswerIsOwn
<1>2. CASE result' \in {Blank, Failed, TimedOut}
  BY <1>2 DEF Blank, Failed, TimedOut, AnswerIsOwn, Answered
<1>3. CASE UNCHANGED <<result, probe, onWire>>
  BY <1>3 DEF AnswerIsOwn
<1>4. \/ Accept
      \/ result' \in {Blank, Failed, TimedOut}
      \/ UNCHANGED <<result, probe, onWire>>
  BY DEF Next, Receive, SendEcho, SendFails, DeadlinePassed, ReadClock, CallSelect, SelectReady,
         SelectExpires, SelectFails, Discard, RecvFails, SessionOver, DeliverAnswer,
         DeliverForeign, Deliver, Tick, Return, vars, netVars
<1> QED BY <1>1, <1>2, <1>3, <1>4

(* A reported answer is one of this process, to a probe with the sequence    *)
(* number of the current one, for any number of probes (icmp.c:287-294).     *)
THEOREM AnswersAreOwn == NoCollision => (Spec => []AnswerIsOwn)
<1> SUFFICES ASSUME NoCollision PROVE Spec => []AnswerIsOwn
  OBVIOUS
<1>1. Init => AnswerIsOwn
  BY DEF Init, AnswerIsOwn, Blank, Answered
<1>2. IInv /\ AnswerIsOwn /\ [Next]_vars => AnswerIsOwn'
  BY AnswerIsOwnStep
<1> QED BY <1>1, <1>2, Invariance, PTL DEF Spec

(* When a session has no more probes than there are sequence numbers, a      *)
(* reported answer is an answer to the current probe (icmp.c:282-294).       *)
THEOREM AnswersAreCurrent ==
  NoCollision /\ MaxProbe <= SeqMod => (Spec => []AnswerIsForCurrentProbe)
<1> SUFFICES ASSUME NoCollision, MaxProbe <= SeqMod
             PROVE  Spec => []AnswerIsForCurrentProbe
  OBVIOUS
<1>1. IInv /\ AnswerIsOwn => AnswerIsForCurrentProbe
  <2> SUFFICES ASSUME IInv, result.origin \in onWire, Wire(result.origin) = Wire(probe)
               PROVE  result.origin = probe /\ probe \in onWire
    BY DEF AnswerIsOwn, AnswerIsForCurrentProbe
  <2>1. result.origin \in 1..MaxProbe /\ probe \in 1..MaxProbe
    BY Constants DEF IInv, TypeOK
  <2> QED BY <2>1, WireInjective
<1> QED BY <1>1, AnswersAreOwn, Invariance, PTL

(* The receive loop discards no readable answer to the probe it waits for,   *)
(* even when sequence numbers wrap (icmp.c:284-294).                         *)
THEOREM NothingOwnDiscarded == Spec => NoOwnAnswerDiscarded
<1>1. IInv /\ [Next]_vars => [pc = "recv" /\ pc' = "check" => ~AnswersCurrent(Head(sock))]_vars
  <2> SUFFICES ASSUME IInv, Next, pc = "recv", pc' = "check", AnswersCurrent(Head(sock))
               PROVE  FALSE
    OBVIOUS
  <2>1. Discard
    BY DEF Next, Receive, SendEcho, SendFails, DeadlinePassed, ReadClock, CallSelect, SelectReady,
           SelectExpires, SelectFails, Accept, RecvFails, SessionOver, DeliverAnswer,
           DeliverForeign, Deliver, Tick, Return, vars, netVars
  <2>2. Genuine(Head(sock))
    BY <2>1, HeadIsGenuine DEF Discard
  <2>3. Head(sock).origin = probe /\ probe # 0
    BY Constants DEF AnswersCurrent, IInv, WaitsForSentProbe, TypeOK
  <2>4. Head(sock) \in AnswersTo(probe)
    BY <2>2, <2>3 DEF Genuine, ForeignTraffic
  <2>5. Matches(Head(sock), Wire(probe), mode)
    BY <2>4 DEF AnswersCurrent, AnswersTo, Matches, parse_outer_ipv4_icmp,
                is_matching_echo_reply, is_matching_time_exceeded, parse_original_echo
  <2> QED BY <2>1, <2>5 DEF Discard
<1> QED BY <1>1, Invariance, PTL DEF Spec, NoOwnAnswerDiscarded

-----------------------------------------------------------------------------
(* Refinement. *)

LEMMA ServiceStep ==
  ASSUME NoCollision, MaxProbe <= SeqMod, IInv, [Next]_vars
  PROVE  [Service!Next]_(Service!vars)
<1> USE DEF Service!Next, Service!Begin, Service!FailToBegin, Service!Finish,
            Service!vars, Service!Without
<1>1. CASE SendEcho
  BY <1>1 DEF SendEcho, Blank
<1>2. CASE SendFails
  BY <1>2 DEF SendFails, Failed
<1>3. CASE DeadlinePassed
  BY <1>3 DEF DeadlinePassed, Return, TimedOut
<1>4. CASE SelectFails \/ RecvFails
  BY <1>4 DEF SelectFails, RecvFails, Return, Failed
<1>5. CASE Accept
  <2>1. result'.origin = probe
    <3>1. result'.origin \in 1..MaxProbe /\ probe \in 1..MaxProbe
      <4>1. result'.origin \in onWire
        BY <1>5, AcceptIsOwn
      <4>2. probe \in onWire /\ onWire \subseteq 1..MaxProbe
        BY <1>5, Constants DEF Accept, IInv, TypeOK, WaitsForSentProbe
      <4> QED BY <4>1, <4>2
    <3> QED BY <1>5, <3>1, AcceptIsOwn, WireInjective
  <2>2. result' \in Service!Answers(probe, mode)
    <3>1. mode \in {"ping", "trace"}
      BY Constants DEF IInv, TypeOK
    <3> QED BY <1>5, <2>1, <3>1, AcceptIsOwn
        DEF Accept, Matches, Answer, is_matching_echo_reply, is_matching_time_exceeded,
            Service!Answers, Service!Success, Service!Hop, Service!Destination
  <2> QED BY <1>5, <2>2 DEF Accept, Return
<1>6. CASE UNCHANGED <<mode, probe, pc, result>>
  BY <1>6
<1>7. CASE ReadClock \/ CallSelect \/ SelectReady \/ SelectExpires \/ Discard
  BY <1>7 DEF ReadClock, CallSelect, SelectReady, SelectExpires, Discard
<1> QED BY <1>1, <1>2, <1>3, <1>4, <1>5, <1>6, <1>7
    DEF Next, Receive, SessionOver, DeliverAnswer, DeliverForeign, Deliver, Tick,
        vars, netVars

(* The engine of icmp.c implements the probe service its modes rely on.      *)
THEOREM Refinement ==
  NoCollision /\ MaxProbe <= SeqMod => (Spec => ImplementsProbeService)
<1> SUFFICES ASSUME NoCollision, MaxProbe <= SeqMod
             PROVE  Spec => ImplementsProbeService
  OBVIOUS
<1>1. Init => Service!Init
  BY DEF Init, Service!Init, Service!Without, Blank
<1>2. IInv /\ [Next]_vars => [Service!Next]_(Service!vars)
  BY ServiceStep
<1> QED BY <1>1, <1>2, Invariance, PTL DEF Spec, Service!Spec, ImplementsProbeService
=============================================================================
