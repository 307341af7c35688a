------------------------------- MODULE MtrNet -------------------------------
(***************************************************************************)
(* run_mtr_mode over the probe engine: the measurement of Mtr, each of its *)
(* probes sent and waited for by the steps of Icmp, over a path of routers *)
(* that answers late, twice or not at all and may change its length.       *)
(* Mtr lets a probe end with any result; here the result is what comes out *)
(* of the engine, from an address that depends on the TTL of the probe the *)
(* accepted packet really answers.                                         *)
(*                                                                         *)
(* Packets that belong to no probe are left to Icmp.  A time is any of     *)
(* Rtts: the clock of the engine is not related to it.                     *)
(***************************************************************************)
EXTENDS Diagnosis

CONSTANTS
  Routers,          \* the address of the router at each distance
  Target,           \* the address of the destination
  MaxRouteChanges,  \* bound: how often the length of the path changes
  SeqMod,           \* as in Icmp, with TimeoutMs, TicksPerMs, SockCap
  TimeoutMs, TicksPerMs, SockCap

ASSUME RoutersAssumption ==
  /\ Routers \in [Hops -> Remotes \ {Target}] /\ Target \in Remotes
  /\ MaxRouteChanges \in Nat
ASSUME EngineAssumption ==
  /\ SeqMod \in Nat \ {0} /\ SockCap \in Nat \ {0}
  /\ TimeoutMs \in Nat \ {0} /\ TicksPerMs \in Nat \ {0}

(* A run sends at most this many probes. *)
MaxProbe == MaxHop * Count

VARIABLES
  epc, probe, onWire, sock, elapsed, selLeft, result,   \* the engine: Icmp
  ttls,       \* ghost: the TTL on the socket when each probe was sent
  distance,   \* hops to the destination, as long as the route is what it is
  reroutes    \* ghost: how often the route has changed

engine == <<epc, probe, onWire, sock, elapsed, selLeft, result>>
route == <<distance, reroutes>>
netvars == <<vars, engine, ttls, route>>

Engine == INSTANCE Icmp WITH
  Modes <- {"trace"}, mode <- "trace", pc <- epc, Ident <- 1, ForeignIdents <- {}

NetInit ==
  /\ Init
  /\ Engine!Init
  /\ ttls = <<>>
  /\ distance \in 1..(MaxHop + 1)
  /\ reroutes = 0

-----------------------------------------------------------------------------
(* The probe with number seq has not been started, or it is over. *)
ReadyToSend == pc = "probe" /\ epc = "idle" /\ probe = seq - 1
ProbeOver == pc = "probe" /\ epc = "idle" /\ probe = seq

(* The TTL is set to the hop of the sweep and the request leaves. *)
Send ==
  /\ ReadyToSend
  /\ Engine!SendEcho
  /\ ttls' = Append(ttls, hop)
  /\ UNCHANGED <<vars, route>>

(* Setting the TTL or sending fails. *)
SendFails ==
  /\ ReadyToSend
  /\ Engine!SendFails
  /\ ttls' = Append(ttls, hop)
  /\ UNCHANGED <<vars, route>>

Wait ==
  /\ Engine!Receive
  /\ UNCHANGED <<vars, ttls, route>>

(* Mutant: the address of the result is that of the router one hop nearer. *)
NearerRouter(q) == IF ttls[q] = 1 THEN Routers[1] ELSE Routers[ttls[q] - 1]

(* Who sent the packet that was accepted: it answers probe q. *)
RouterOf(q) == Routers[ttls[q]]

(* The TraceResult of the probe: the address is that of whoever sent the      *)
(* accepted packet.                                                           *)
TraceResultOf(rtt) ==
  CASE result.status = "DESTINATION" ->
         [status |-> "DESTINATION", rtt_ms |-> rtt, remote_ip |-> Target, error |-> ""]
    [] result.status = "HOP" ->
         [status |-> "HOP", rtt_ms |-> rtt, remote_ip |-> RouterOf(result.origin), error |-> ""]
    [] OTHER ->
         [status |-> result.status, rtt_ms |-> 0, remote_ip |-> "", error |-> result.status]

(* Mutant: the result is taken as soon as there is one, again and again. *)
TakeResultEarly == pc = "probe" /\ probe > 0 /\ UNCHANGED <<engine, ttls, route>>

(* probe_mtr_hop returns. *)
TakeResult == ProbeOver /\ UNCHANGED <<engine, ttls, route>>

EndProbe ==
  /\ TakeResult
  /\ \E rtt \in Rtts : ProbeHop(TraceResultOf(rtt))

(* What the program does apart from probing. *)
Proceed ==
  /\ NextCycle \/ PrintRow
  /\ UNCHANGED <<engine, ttls, route>>

NetFinished == Finished /\ UNCHANGED <<engine, ttls, route>>

-----------------------------------------------------------------------------
(* The network.  A probe whose TTL reaches the destination is answered by it, *)
(* any other by the router where its TTL ends.  The destination is another    *)
(* host, and what comes after the last probe is never read.                  *)
OnThisRoute(p) ==
  p.type = IF ttls[p.origin] >= distance THEN "ECHOREPLY" ELSE "TIME_EXCEEDED"

Deliver ==
  /\ pc \in {"probe", "sleep"}
  /\ \E q \in onWire : \E p \in Engine!AnswersTo(q) : OnThisRoute(p) /\ Engine!Deliver(p)
  /\ UNCHANGED <<vars, ttls, route>>

Tick ==
  /\ Engine!Tick
  /\ UNCHANGED <<vars, ttls, route>>

RouteChanges ==
  /\ pc \in {"probe", "sleep"}
  /\ reroutes < MaxRouteChanges
  /\ distance' \in 1..(MaxHop + 1) \ {distance}
  /\ reroutes' = reroutes + 1
  /\ UNCHANGED <<vars, engine, ttls>>

NetNext ==
  \/ Send \/ SendFails \/ Wait \/ EndProbe \/ Proceed \/ NetFinished
  \/ Deliver \/ Tick \/ RouteChanges

NetSpec == NetInit /\ [][NetNext]_netvars

-----------------------------------------------------------------------------
(* Properties. *)

(* What becomes of the probe the sweep is at: not started, under way, or over *)
(* with an outcome that nobody has looked at yet.                            *)
Flight ==
  CASE probe = seq - 1 -> "none"
    [] probe = seq /\ epc # "idle" -> "out"
    [] OTHER -> "over"

Outcome == IF Flight = "over" THEN result.status ELSE "none"

(* Mtr with one probe at a time: it is started, it ends once, with one of the *)
(* four outcomes a TraceResult can have, and its outcome is entered once.    *)
ProbeStarts ==
  /\ pc = "probe" /\ Flight = "none"
  /\ Flight' = "out"
  /\ UNCHANGED vars

ProbeEnds ==
  /\ pc = "probe" /\ Flight \in {"none", "out"}
  /\ Flight' = "over"
  /\ Outcome' \in {"HOP", "DESTINATION", "TIMEOUT", "ERROR"}
  /\ Flight = "none" => Outcome' = "ERROR"
  /\ UNCHANGED vars

OutcomeEntered ==
  /\ Flight = "over"
  /\ Flight' = "none"
  /\ \E r \in TraceResult : r.status = Outcome /\ ProbeHop(r)

LoopsGoOn ==
  /\ Flight = "none" /\ Flight' = "none"
  /\ NextCycle \/ PrintRow

OneProbeAtATime == ProbeStarts \/ ProbeEnds \/ OutcomeEntered \/ LoopsGoOn

(* Probing through the engine is the measurement of Mtr with one probe at a  *)
(* time: whatever the network does, every probe ends once, its outcome does  *)
(* not change until it is entered, it is entered once and as the engine      *)
(* reported it, and the loops of run_mtr_mode never go on while a probe is   *)
(* under way or its outcome waits (mtr.c:83-89, 140-159).                    *)
ImplementsMtr ==
  /\ Init /\ Flight = "none"
  /\ [][OneProbeAtATime]_<<vars, Flight, Outcome>>

(* A row is about its own hop: its address is that of the router at this     *)
(* distance, or of the destination, as its status says.                      *)
AddressFits(s, h) ==
  CASE s.status = "HOP" -> s.remote_ip = Routers[h]
    [] s.status = "DESTINATION" -> s.remote_ip = Target
    [] OTHER -> s.remote_ip = ""

(* No hop before the destination was taken for it, none behind for a router. *)
DistanceFits(s, h) ==
  /\ s.status = "DESTINATION" => h >= distance
  /\ s.status = "HOP" => h < distance

(* No cycle has left out a hop up to the destination, and the diagnosis      *)
(* finds the destination just when it has answered.                          *)
DestinationIsFound ==
  /\ \A h \in Hops : h <= distance => stats[h].sent = Count
  /\ find_destination_hop(stats, MaxHop) = 0 <=>
       \A h \in Hops : h >= distance => stats[h].received = 0

(* However late or often answers come, every row of the table is about its   *)
(* own hop; and while the route stays as it is, the table shows the route,   *)
(* with the destination where it is (mtr.c:74-77, 143-147,                   *)
(* baseline.c:270-278).                                                      *)
TableShowsRoute ==
  /\ \A h \in Hops : AddressFits(stats[h], h)
  /\ reroutes = 0 =>
       /\ \A h \in Hops : DistanceFits(stats[h], h)
       /\ Measured => DestinationIsFound
=============================================================================
