------------------------------- MODULE MCIcmp -------------------------------
(* Instances of Icmp for model checking.  OwnIdent stands for getpid() &     *)
(* 0xffff; OtherIdent for the identifier of another process.                 *)
EXTENDS Icmp

BothModes == {"ping", "trace"}
TraceOnly == {"trace"}

OwnIdent == 1
Others == {2}

(* Two processes whose pids are equal modulo 65536. *)
Colliding == {1, 2}
=============================================================================
