-------------------------------- MODULE Icmp --------------------------------
(***************************************************************************)
(* The probe engine of icmp.c: one Echo Request at a time, then a receive  *)
(* loop on a raw ICMP socket that also sees every other ICMP packet of the *)
(* host.  The socket delivers late, duplicated and reordered answers and   *)
(* the traffic of other processes; the loop must pick the answer of the    *)
(* current probe, or give up at the deadline.                              *)
(*                                                                         *)
(* A session is a sequence of probes 1, 2, ... of one mode.  The pair      *)
(* (ident, sequence) of a probe q on the wire is (Ident, Wire(q)).         *)
(* Definitions commented "Mutant" are bugs a property must catch; no         *)
(* behaviour of this specification uses them.                                *)
(* EINTR retries (icmp.c:173-176, 191-194) change nothing: stuttering.     *)
(***************************************************************************)
EXTENDS Integers, Sequences

CONSTANTS
  Modes,          \* modes a session may run in, a subset of {"ping", "trace"}
  Ident,          \* getpid() & 0xffff of this process
  ForeignIdents,  \* identifiers seen in the traffic of other processes
  SeqMod,         \* size of the sequence number space (65536 in the code)
  MaxProbe,       \* bound: number of probes of a session
  TimeoutMs,      \* config->timeout_ms
  TicksPerMs,     \* resolution of the monotonic clock, in ticks per millisecond
  SockCap         \* bound: packets the receive buffer of the socket holds

ASSUME ModesAssumption == Modes \subseteq {"ping", "trace"} /\ Modes # {}
ASSUME SeqModAssumption == SeqMod \in Nat \ {0}
ASSUME MaxProbeAssumption == MaxProbe \in Nat \ {0}
ASSUME ClockAssumption == TimeoutMs \in Nat \ {0} /\ TicksPerMs \in Nat \ {0}
ASSUME SockCapAssumption == SockCap \in Nat \ {0}

VARIABLES
  mode,      \* which receive function is used: "ping" or "trace"
  pc,        \* where the program is: idle, check, arm, select or recv
  probe,     \* number of the latest probe, 0 before the first
  onWire,    \* the probes that sendto accepted
  sock,      \* receive buffer of the raw socket, oldest packet first
  elapsed,   \* ticks since wait_start, up to the deadline
  selLeft,   \* ticks left on the timer of select, which runs while it waits
  result     \* status written to PingResult/TraceResult, and whose answer it is

netVars == <<onWire, sock>>
vars == <<mode, pc, probe, onWire, sock, elapsed, selLeft, result>>

-----------------------------------------------------------------------------
(* Packets.  "origin" is a ghost: the probe a packet answers, 0 when it     *)
(* belongs to another process.  For TIME_EXCEEDED, id and seq are those of  *)
(* the quoted header.                                                       *)

PacketType == {"ECHOREPLY", "TIME_EXCEEDED", "ECHO", "SHORT"}

Quoted == {"NONE", "ECHO", "OTHER", "CUT"}

Wire(q) == q % SeqMod

Packet ==
  [type : PacketType, quoted : Quoted, id : ForeignIdents \cup {Ident},
   seq : 0..(SeqMod - 1), origin : 0..MaxProbe]

(* What the network can make of probe q: the destination's reply, a router's  *)
(* Time Exceeded (whole, or with a quote too short to identify the probe),    *)
(* and the request itself, which a raw socket sees when the target is local.  *)
AnswersTo(q) ==
  [type : {"ECHOREPLY", "ECHO"}, quoted : {"NONE"},
   id : {Ident}, seq : {Wire(q)}, origin : {q}]
    \cup
  [type : {"TIME_EXCEEDED"}, quoted : {"ECHO", "CUT"},
   id : {Ident}, seq : {Wire(q)}, origin : {q}]

(* Traffic of other processes: their replies and their Time Exceeded, a Time  *)
(* Exceeded that quotes something else than an Echo, a packet too short.      *)
ForeignTraffic ==
  [type : {"ECHOREPLY"}, quoted : {"NONE"},
   id : ForeignIdents, seq : 0..(SeqMod - 1), origin : {0}]
    \cup
  [type : {"TIME_EXCEEDED"}, quoted : {"ECHO"},
   id : ForeignIdents, seq : 0..(SeqMod - 1), origin : {0}]
    \cup
  [type : {"TIME_EXCEEDED"}, quoted : {"OTHER"},
   id : {Ident}, seq : 0..(SeqMod - 1), origin : {0}]
    \cup
  [type : {"SHORT"}, quoted : {"NONE"}, id : {Ident}, seq : {0}, origin : {0}]

parse_outer_ipv4_icmp(p) == p.type # "SHORT"

(* Mutant: only the identifier is compared. *)
EchoReplyOfAnySeq(p, seq) == p.type = "ECHOREPLY" /\ p.id = Ident

is_matching_echo_reply(p, seq) ==
  /\ p.type = "ECHOREPLY"
  /\ p.id = Ident
  /\ p.seq = seq

(* Mutant: only the sequence number of the quote is compared. *)
OriginalEchoOfAnyone(p, seq) == p.quoted = "ECHO" /\ p.seq = seq

parse_original_echo(p, seq) ==
  /\ p.quoted = "ECHO"
  /\ p.id = Ident
  /\ p.seq = seq

is_matching_time_exceeded(p, seq) ==
  /\ p.type = "TIME_EXCEEDED"
  /\ parse_original_echo(p, seq)

(* Mutant: the test of trace_mode is missing. *)
MatchesInAnyMode(p, seq, m) ==
  /\ parse_outer_ipv4_icmp(p)
  /\ is_matching_echo_reply(p, seq) \/ is_matching_time_exceeded(p, seq)

(* The packet ends the wait for sequence number seq in mode m. *)
Matches(p, seq, m) ==
  /\ parse_outer_ipv4_icmp(p)
  /\ \/ is_matching_echo_reply(p, seq)
     \/ m = "trace" /\ is_matching_time_exceeded(p, seq)

-----------------------------------------------------------------------------
(* Time.  The clock is finer than the millisecond that select is given:      *)
(* the elapsed time is cut to whole milliseconds before it is subtracted.    *)
(* Bound: "elapsed" stops at the deadline, since the code tells no two times *)
(* past it apart; time itself goes on, and so does the timer of select.      *)

Deadline == TimeoutMs * TicksPerMs

(* Mutants: the remainder is taken one millisecond too short, or too long. *)
RemainingRoundedDown(e) ==
  IF e >= Deadline THEN 0 ELSE TimeoutMs - ((e + TicksPerMs - 1) \div TicksPerMs)

RemainingRoundedUp(e) ==
  IF e >= Deadline THEN 0 ELSE TimeoutMs + 1 - (e \div TicksPerMs)

remaining_timeout_ms(e) ==
  IF e >= Deadline THEN 0 ELSE TimeoutMs - (e \div TicksPerMs)

-----------------------------------------------------------------------------
(* Results.  "origin" (whose answer) and "by" (which kind of packet) are      *)
(* ghosts: PingResult and TraceResult hold only the status of these.         *)

(* PENDING: the caller has cleared the structure and nothing is written yet.  *)
(* Its zero bytes would read as SUCCESS (ping) or TIMEOUT (trace), but no     *)
(* caller reads a status before the receive call has set one.                *)
Blank == [status |-> "PENDING", origin |-> 0, by |-> "NOTHING"]
Failed == [status |-> "ERROR", origin |-> 0, by |-> "NOTHING"]
TimedOut == [status |-> "TIMEOUT", origin |-> 0, by |-> "NOTHING"]

(* The result written for a matching packet p: receive_ping_response knows   *)
(* only SUCCESS, receive_trace_response tells a hop from the destination.    *)
Answer(p, m) ==
  [status |-> IF m = "ping" THEN "SUCCESS"
              ELSE IF p.type = "TIME_EXCEEDED" THEN "HOP" ELSE "DESTINATION",
   origin |-> p.origin,
   by |-> p.type]

Answered == {"SUCCESS", "HOP", "DESTINATION"}

Init ==
  /\ mode \in Modes
  /\ pc = "idle"
  /\ probe = 0
  /\ onWire = {}
  /\ sock = <<>>
  /\ elapsed = 0
  /\ selLeft = 0
  /\ result = Blank

-----------------------------------------------------------------------------
(* The program. *)

(* send_icmp_echo succeeds and the receive function takes wait_start. *)
SendEcho ==
  /\ pc = "idle"
  /\ probe < MaxProbe
  /\ probe' = probe + 1
  /\ onWire' = onWire \cup {probe + 1}
  /\ pc' = "check"
  /\ elapsed' = 0
  /\ result' = Blank
  /\ UNCHANGED <<mode, sock, selLeft>>

(* sendto (or setting the TTL before it) fails: the caller records ERROR and *)
(* goes on; the sequence number is spent.                                    *)
SendFails ==
  /\ pc = "idle"
  /\ probe < MaxProbe
  /\ probe' = probe + 1
  /\ result' = Failed
  /\ UNCHANGED <<mode, pc, onWire, sock, elapsed, selLeft>>

(* The receive call ends with r; its timer is of no further interest. *)
Return(r) ==
  /\ pc' = "idle"
  /\ result' = r
  /\ elapsed' = 0
  /\ selLeft' = 0

(* Top of the loop, deadline passed: TIMEOUT. *)
DeadlinePassed ==
  /\ pc = "check"
  /\ remaining_timeout_ms(elapsed) <= 0
  /\ Return(TimedOut)
  /\ UNCHANGED <<mode, probe, netVars>>

(* Top of the loop, time left: what remains is the timeout of the select to  *)
(* come.  Any time may pass before that call is made.                        *)
ReadClock ==
  /\ pc = "check"
  /\ remaining_timeout_ms(elapsed) > 0
  /\ pc' = "arm"
  /\ selLeft' = remaining_timeout_ms(elapsed) * TicksPerMs
  /\ UNCHANGED <<mode, probe, netVars, elapsed, result>>

(* select is called, and only now its timer starts. *)
CallSelect ==
  /\ pc = "arm"
  /\ pc' = "select"
  /\ UNCHANGED <<mode, probe, netVars, elapsed, selLeft, result>>

(* Mutant: the test for selected == 0 is missing. *)
SelectReadyOrExpired ==
  /\ pc = "select"
  /\ sock # <<>> \/ selLeft = 0
  /\ pc' = "recv"
  /\ selLeft' = 0
  /\ UNCHANGED <<mode, probe, netVars, elapsed, result>>

(* select reports the socket readable. *)
SelectReady ==
  /\ pc = "select"
  /\ sock # <<>>
  /\ pc' = "recv"
  /\ selLeft' = 0
  /\ UNCHANGED <<mode, probe, netVars, elapsed, result>>

(* The timer of select runs out with nothing to read: back to the top. *)
SelectExpires ==
  /\ pc = "select"
  /\ selLeft = 0
  /\ sock = <<>>
  /\ pc' = "check"
  /\ UNCHANGED <<mode, probe, netVars, elapsed, selLeft, result>>

SelectFails ==
  /\ pc = "select"
  /\ Return(Failed)
  /\ UNCHANGED <<mode, probe, netVars>>

(* recvfrom takes the oldest packet and it is an answer to the request. *)
Accept ==
  /\ pc = "recv"
  /\ sock # <<>>
  /\ Matches(Head(sock), Wire(probe), mode)
  /\ sock' = Tail(sock)
  /\ Return(Answer(Head(sock), mode))
  /\ UNCHANGED <<mode, probe, onWire>>

(* Mutants: the sequence number is compared before its cast to 16 bits; the  *)
(* deadline starts again with every packet.                                  *)
DiscardUncast ==
  /\ pc = "recv"
  /\ sock # <<>>
  /\ ~Matches(Head(sock), probe, mode)
  /\ sock' = Tail(sock)
  /\ pc' = "check"
  /\ UNCHANGED <<mode, probe, onWire, elapsed, selLeft, result>>

DiscardRestartsTimer ==
  /\ pc = "recv"
  /\ sock # <<>>
  /\ ~Matches(Head(sock), Wire(probe), mode)
  /\ sock' = Tail(sock)
  /\ pc' = "check"
  /\ elapsed' = 0
  /\ UNCHANGED <<mode, probe, onWire, selLeft, result>>

(* recvfrom takes the oldest packet and it is anything else: keep waiting,   *)
(* on the same deadline.                                                     *)
Discard ==
  /\ pc = "recv"
  /\ sock # <<>>
  /\ ~Matches(Head(sock), Wire(probe), mode)
  /\ sock' = Tail(sock)
  /\ pc' = "check"
  /\ UNCHANGED <<mode, probe, onWire, elapsed, selLeft, result>>

RecvFails ==
  /\ pc = "recv"
  /\ Return(Failed)
  /\ UNCHANGED <<mode, probe, netVars>>

(* The session is over: no call is pending and none will follow. *)
SessionOver ==
  /\ pc = "idle"
  /\ probe = MaxProbe
  /\ UNCHANGED vars

Receive ==
  \/ DeadlinePassed \/ ReadClock \/ CallSelect
  \/ SelectReady \/ SelectExpires \/ SelectFails
  \/ Accept \/ Discard \/ RecvFails

-----------------------------------------------------------------------------
(* The environment.  Loss: a packet is never delivered, or the buffer is     *)
(* full.  Delay, reordering, duplication: any probe ever sent may be         *)
(* answered at any time and any number of times.                             *)

Deliver(p) ==
  /\ Len(sock) < SockCap
  /\ sock' = Append(sock, p)
  /\ UNCHANGED <<mode, pc, probe, onWire, elapsed, selLeft, result>>

DeliverAnswer == \E q \in onWire : \E p \in AnswersTo(q) : Deliver(p)

DeliverForeign == \E p \in ForeignTraffic : Deliver(p)

TimerRuns == pc = "select" /\ selLeft > 0

(* The monotonic clock advances, between any two steps of the program, and   *)
(* with it the timer of a pending select.                                    *)
Tick ==
  /\ pc # "idle"
  /\ elapsed < Deadline \/ TimerRuns
  /\ elapsed' = IF elapsed < Deadline THEN elapsed + 1 ELSE elapsed
  /\ selLeft' = IF TimerRuns THEN selLeft - 1 ELSE selLeft
  /\ UNCHANGED <<mode, pc, probe, netVars, result>>

Next ==
  \/ SendEcho \/ SendFails \/ Receive \/ SessionOver
  \/ DeliverAnswer \/ DeliverForeign \/ Tick

Spec == Init /\ [][Next]_vars

(* The process is scheduled, and time passes.  Nothing is assumed of the     *)
(* network, and nothing obliges a mode to send its next probe.               *)
Fairness == WF_vars(Receive) /\ WF_vars(Tick)

FairSpec == Spec /\ Fairness

-----------------------------------------------------------------------------
(* Properties. *)

(* Types of the variables: the state icmp.c and its socket can be in. *)
TypeOK ==
  /\ mode \in Modes
  /\ pc \in {"idle", "check", "arm", "select", "recv"}
  /\ probe \in 0..MaxProbe
  /\ onWire \subseteq 1..probe
  /\ sock \in Seq(Packet) /\ Len(sock) <= SockCap
  /\ elapsed \in 0..Deadline
  /\ selLeft \in 0..Deadline
  /\ result \in [status : Answered \cup {"PENDING", "TIMEOUT", "ERROR"},
                 origin : 0..MaxProbe, by : PacketType \cup {"NOTHING"}]

(* A call that reports an answer reports one of its own process, and of a    *)
(* probe with the sequence number of the current one, however often the      *)
(* sequence numbers have wrapped (icmp.c:287-294).                           *)
AnswerIsOwn ==
  result.status \in Answered =>
    result.origin \in onWire /\ Wire(result.origin) = Wire(probe)

(* A call that reports an answer reports an answer to the probe it waits     *)
(* for: no late or duplicated answer of an earlier probe and no packet of    *)
(* another process is ever taken for it (icmp.c:282-294).                    *)
AnswerIsForCurrentProbe ==
  result.status \in Answered => result.origin = probe /\ probe \in onWire

(* However much time passes between reading the clock and calling select,    *)
(* the select timer never runs out before the deadline: an expired select is *)
(* always the end of the wait, and no TIMEOUT is reported and no answer      *)
(* missed because of a timer that was too short (icmp.c:96-107, 266-277).    *)
SelectTimerMeetsDeadline ==
  pc \in {"arm", "select"} => elapsed + selLeft >= Deadline

(* recvfrom is only called with a packet to read: the socket is in blocking  *)
(* mode, and recvfrom on an empty buffer would wait past every deadline      *)
(* (icmp.c:271-279).                                                         *)
RecvNeverBlocks == pc = "recv" => sock # <<>>

(* No packet of another process ends the wait as a hop of the route: the     *)
(* Echo header quoted by a Time Exceeded is compared "so that other          *)
(* traceroute traffic is not wrongly accepted" (icmp.c:124-128).             *)
OtherTracerouteNotAccepted == result.by = "TIME_EXCEEDED" => result.origin # 0

(* The receive loop never throws away a readable answer to the probe it is   *)
(* waiting for (icmp.c:284-294).                                             *)
AnswersCurrent(p) ==
  /\ p.origin = probe
  /\ \/ p.type = "ECHOREPLY"
     \/ mode = "trace" /\ p.type = "TIME_EXCEEDED" /\ p.quoted = "ECHO"

NoOwnAnswerDiscarded ==
  [][pc = "recv" /\ pc' = "check" => ~AnswersCurrent(Head(sock))]_vars

(* Every receive call returns, whatever the traffic of other processes:      *)
(* a flood of packets that do not match must not keep it alive past its      *)
(* deadline (icmp.c:265-268).                                                *)
EveryWaitEnds == pc # "idle" ~> pc = "idle"

(* No other process uses the identifier of this one.  The code takes it from *)
(* the pid and can only hope so (mtr.c:120).                                 *)
NoCollision == Ident \notin ForeignIdents

(* The engine provides the abstract probe service: seen from a mode, one     *)
(* probe at a time, each ended once, each answer its own.                    *)
Service == INSTANCE ProbeService WITH waiting <- (pc # "idle")

ImplementsProbeService == Service!Spec

=============================================================================
